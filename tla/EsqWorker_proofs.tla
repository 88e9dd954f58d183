-------------------------- MODULE EsqWorker_proofs --------------------------
(***************************************************************************)
(* For any number of sessions, any callbacks and any order of completions: *)
(* the variables of the worker keep their types, no list of sessions is    *)
(* ever corrupted, parents and children agree about each other and every   *)
(* done callback is called once, a worker that leaves its loop leaves no   *)
(* session behind, polls, completions and timers fit the sessions that     *)
(* wait for them, and the process ends itself only in the known races.     *)
(***************************************************************************)
EXTENDS EsqWorker, SequenceTheorems, TLAPS

----------------------------------------------------------------------------
(* What the operators of SessionPt do to a session: every action a label   *)
(* takes leaves the session on the list its new label says (Homes).        *)

ListName == Class \cup {"active", "new", "global_new", "corrupt"}

SameKin(q, r) ==
  /\ q.bundled = r.bundled
  /\ q.parent = r.parent
  /\ q.kids = r.kids
  /\ q.fin = r.fin
  /\ q.dones = r.dones

\* The fields an action carries have their types.
Sane(a) ==
  /\ a.type \in {"ADD_SOCK_FD_SINGLE", "ADD_SOCK_FD_MULTI"} =>
       a.fd \in {-1, 0, 1} /\ a.tm \in Class
  /\ a.type = "NOTIFY_EVENT" => a.bits \in SUBSET Event
  /\ a.type = "SET_PARENT" => a.parent \in Sessions
  /\ a.type = "ADD_CHILD" => a.child \in Sessions

\* A session that is on the list its label says.
Fit(r) == r \in Session /\ r.on \in Homes(r)

----------------------------------------------------------------------------
(* What each helper changes.                                               *)

\* Joining a list changes only the links of the session.
LEMMA JoinFacts ==
  ASSUME NEW r \in Session, NEW l \in ListName
  PROVE  /\ Join(r, l) \in Session
         /\ SameKin(Join(r, l), r)
         /\ Join(r, l).type = r.type
         /\ Join(r, l).lc = r.lc
         /\ Join(r, l).fd = r.fd
         /\ Join(r, l).tm = r.tm
         /\ Join(r, l).on = r.on \cup {l}
         /\ Join(r, l).poll = r.poll
         /\ Join(r, l).cq = r.cq
         /\ Join(r, l).pop = r.pop
BY DEF SameKin, Session, Join, ListName

\* Leaving a list the session is on changes only its links.
LEMMA LeaveFacts ==
  ASSUME NEW r \in Session, NEW l \in ListName, l \in r.on
  PROVE  /\ Leave(r, l) \in Session
         /\ SameKin(Leave(r, l), r)
         /\ Leave(r, l).type = r.type
         /\ Leave(r, l).lc = r.lc
         /\ Leave(r, l).fd = r.fd
         /\ Leave(r, l).tm = r.tm
         /\ Leave(r, l).on = r.on \ {l}
         /\ Leave(r, l).poll = r.poll
         /\ Leave(r, l).cq = r.cq
         /\ Leave(r, l).pop = r.pop
BY DEF SameKin, Session, Leave, ListName

\* GOTO changes only the label.
LEMMA GotoFacts ==
  ASSUME NEW r \in Session, NEW l \in Label
  PROVE  /\ Goto(r, l) \in Session
         /\ SameKin(Goto(r, l), r)
         /\ Goto(r, l).type = r.type
         /\ Goto(r, l).lc = l
         /\ Goto(r, l).fd = r.fd
         /\ Goto(r, l).tm = r.tm
         /\ Goto(r, l).on = r.on
         /\ Goto(r, l).poll = r.poll
         /\ Goto(r, l).cq = r.cq
         /\ Goto(r, l).pop = r.pop
BY DEF SameKin, Session, Goto

\* Setting post_op changes nothing else.
LEMMA AskFacts ==
  ASSUME NEW r \in Session, NEW op \in {"free", "exit"}
  PROVE  /\ Ask(r, op) \in Session
         /\ SameKin(Ask(r, op), r)
         /\ Ask(r, op).type = r.type
         /\ Ask(r, op).lc = r.lc
         /\ Ask(r, op).fd = r.fd
         /\ Ask(r, op).tm = r.tm
         /\ Ask(r, op).on = r.on
         /\ Ask(r, op).poll = r.poll
         /\ Ask(r, op).cq = r.cq
         /\ Ask(r, op).pop = op
BY DEF SameKin, Session, Ask

\* Adding to event_bits changes nothing else.
LEMMA AddBitsFacts ==
  ASSUME NEW r \in Session, NEW b \in SUBSET Event
  PROVE  /\ AddBits(r, b) \in Session
         /\ SameKin(AddBits(r, b), r)
         /\ AddBits(r, b).type = r.type
         /\ AddBits(r, b).lc = r.lc
         /\ AddBits(r, b).fd = r.fd
         /\ AddBits(r, b).tm = r.tm
         /\ AddBits(r, b).on = r.on
         /\ AddBits(r, b).poll = r.poll
         /\ AddBits(r, b).cq = r.cq
         /\ AddBits(r, b).pop = r.pop
BY DEF SameKin, Session, AddBits

\* Adding to event_bits2 changes nothing else.
LEMMA AddBits2Facts ==
  ASSUME NEW r \in Session, NEW b \in SUBSET Event
  PROVE  /\ AddBits2(r, b) \in Session
         /\ SameKin(AddBits2(r, b), r)
         /\ AddBits2(r, b).type = r.type
         /\ AddBits2(r, b).lc = r.lc
         /\ AddBits2(r, b).fd = r.fd
         /\ AddBits2(r, b).tm = r.tm
         /\ AddBits2(r, b).on = r.on
         /\ AddBits2(r, b).poll = r.poll
         /\ AddBits2(r, b).cq = r.cq
         /\ AddBits2(r, b).pop = r.pop
BY DEF SameKin, Session, AddBits2

\* Arming a poll (esq_os_events_add_socket_fd) changes nothing but the polls.
LEMMA AddPollFacts ==
  ASSUME NEW r \in Session, NEW k \in {"one", "multi"}
  PROVE  /\ AddPoll(r, k) \in Session
         /\ SameKin(AddPoll(r, k), r)
         /\ AddPoll(r, k).type = r.type
         /\ AddPoll(r, k).lc = r.lc
         /\ AddPoll(r, k).fd = r.fd
         /\ AddPoll(r, k).tm = r.tm
         /\ AddPoll(r, k).on = r.on
         /\ AddPoll(r, k).poll = IF r.poll = "no" THEN k ELSE "two"
         /\ AddPoll(r, k).cq = r.cq
         /\ AddPoll(r, k).pop = r.pop
BY DEF SameKin, Session, AddPoll

\* Cancelling a poll (esq_os_events_remove_socket_fd) changes only polls and
\* completions.
LEMMA RemovePollFacts ==
  ASSUME NEW r \in Session
  PROVE  /\ RemovePoll(r) \in Session
         /\ SameKin(RemovePoll(r), r)
         /\ RemovePoll(r).type = r.type
         /\ RemovePoll(r).lc = r.lc
         /\ RemovePoll(r).fd = r.fd
         /\ RemovePoll(r).tm = r.tm
         /\ RemovePoll(r).on = r.on
         /\ RemovePoll(r).poll = IF r.poll = "two" THEN "one" ELSE "no"
         /\ RemovePoll(r).cq = IF r.poll = "no" THEN r.cq ELSE Append(r.cq, "canceled")
         /\ RemovePoll(r).pop = r.pop
<1>1. CASE r.poll = "no"
  BY <1>1 DEF SameKin, Session, RemovePoll
<1>2. CASE r.poll # "no"
  <2>1. Append(r.cq, "canceled") \in Seq(FdEvents \cup {"canceled"})
    BY DEF Session
  <2>2. QED
    BY <1>2, <2>1 DEF SameKin, Session, RemovePoll
<1>3. QED
  BY <1>1, <1>2

\* Changing the descriptor changes nothing else.
LEMMA SetFdFacts ==
  ASSUME NEW r \in Session, NEW d \in {-1, 0, 1}
  PROVE  /\ [r EXCEPT !.fd = d] \in Session
         /\ SameKin([r EXCEPT !.fd = d], r)
         /\ [r EXCEPT !.fd = d].type = r.type
         /\ [r EXCEPT !.fd = d].lc = r.lc
         /\ [r EXCEPT !.fd = d].fd = d
         /\ [r EXCEPT !.fd = d].tm = r.tm
         /\ [r EXCEPT !.fd = d].on = r.on
         /\ [r EXCEPT !.fd = d].poll = r.poll
         /\ [r EXCEPT !.fd = d].cq = r.cq
         /\ [r EXCEPT !.fd = d].pop = r.pop
BY DEF SameKin, Session, Class

\* Clearing the timeout changes nothing else.
LEMMA NoTimeFacts ==
  ASSUME NEW r \in Session
  PROVE  /\ [r EXCEPT !.tm = "none"] \in Session
         /\ SameKin([r EXCEPT !.tm = "none"], r)
         /\ [r EXCEPT !.tm = "none"].type = r.type
         /\ [r EXCEPT !.tm = "none"].lc = r.lc
         /\ [r EXCEPT !.tm = "none"].fd = r.fd
         /\ [r EXCEPT !.tm = "none"].tm = "none"
         /\ [r EXCEPT !.tm = "none"].on = r.on
         /\ [r EXCEPT !.tm = "none"].poll = r.poll
         /\ [r EXCEPT !.tm = "none"].cq = r.cq
         /\ [r EXCEPT !.tm = "none"].pop = r.pop
BY DEF SameKin, Session, Class

\* A session on no list joins the timing list of its timeout.
LEMMA JoinTimingFacts ==
  ASSUME NEW r \in Session, r.on = {}
  PROVE  /\ JoinTiming(r) \in Session
         /\ SameKin(JoinTiming(r), r)
         /\ JoinTiming(r).type = r.type
         /\ JoinTiming(r).lc = r.lc
         /\ JoinTiming(r).fd = r.fd
         /\ JoinTiming(r).tm = r.tm
         /\ JoinTiming(r).on = {r.tm}
         /\ JoinTiming(r).poll = r.poll
         /\ JoinTiming(r).cq = r.cq
         /\ JoinTiming(r).pop = r.pop
<1>1. r.tm \in ListName
  BY DEF Session, ListName
<1>2. QED
  BY <1>1, JoinFacts DEF JoinTiming

\* A session on the timing list of its timeout leaves it for no list.
LEMMA LeaveTimingFacts ==
  ASSUME NEW r \in Session, r.on = {r.tm}
  PROVE  /\ LeaveTiming(r) \in Session
         /\ SameKin(LeaveTiming(r), r)
         /\ LeaveTiming(r).type = r.type
         /\ LeaveTiming(r).lc = r.lc
         /\ LeaveTiming(r).fd = r.fd
         /\ LeaveTiming(r).tm = r.tm
         /\ LeaveTiming(r).on = {}
         /\ LeaveTiming(r).poll = r.poll
         /\ LeaveTiming(r).cq = r.cq
         /\ LeaveTiming(r).pop = r.pop
<1>1. r.tm \in ListName
  BY DEF Session, ListName
<1>2. QED
  BY <1>1, LeaveFacts DEF LeaveTiming

\* esq_session_change_to_no_timing_list moves a waiting session to the list
\* without timeouts.
LEMMA ChangeFacts ==
  ASSUME NEW r \in Session, r.on = {r.tm}
  PROVE  /\ ChangeToNoTiming(r) \in Session
         /\ SameKin(ChangeToNoTiming(r), r)
         /\ ChangeToNoTiming(r).type = r.type
         /\ ChangeToNoTiming(r).lc = r.lc
         /\ ChangeToNoTiming(r).fd = r.fd
         /\ ChangeToNoTiming(r).tm = "none"
         /\ ChangeToNoTiming(r).on = {"none"}
         /\ ChangeToNoTiming(r).poll = r.poll
         /\ ChangeToNoTiming(r).cq = r.cq
         /\ ChangeToNoTiming(r).pop = r.pop
<1>1. CASE r.tm = "none"
  BY <1>1 DEF ChangeToNoTiming, SameKin
<1>2. CASE r.tm # "none"
  <2> DEFINE q == LeaveTiming(r)
             n == [q EXCEPT !.tm = "none"]
  <2>1. /\ q \in Session /\ SameKin(q, r) /\ q.on = {}
        /\ q.type = r.type /\ q.lc = r.lc /\ q.fd = r.fd
        /\ q.poll = r.poll /\ q.cq = r.cq /\ q.pop = r.pop
    BY LeaveTimingFacts
  <2>2. /\ n \in Session /\ SameKin(n, q) /\ n.on = {} /\ n.tm = "none"
        /\ n.type = q.type /\ n.lc = q.lc /\ n.fd = q.fd
        /\ n.poll = q.poll /\ n.cq = q.cq /\ n.pop = q.pop
    BY <2>1, NoTimeFacts
  <2>3. ChangeToNoTiming(r) = JoinTiming(n)
    BY <1>2 DEF ChangeToNoTiming
  <2> HIDE DEF q, n
  <2>4. QED
    BY <2>1, <2>2, <2>3, JoinTimingFacts DEF SameKin
<1>3. QED
  BY <1>1, <1>2

\* Waking a waiting session moves it to the active list.
LEMMA WakeFacts ==
  ASSUME NEW r \in Session, r.on = {r.tm}
  PROVE  /\ Wake(r) \in Session
         /\ SameKin(Wake(r), r)
         /\ Wake(r).type = r.type
         /\ Wake(r).lc = "active"
         /\ Wake(r).fd = r.fd
         /\ Wake(r).tm = r.tm
         /\ Wake(r).on = {"active"}
         /\ Wake(r).poll = r.poll
         /\ Wake(r).cq = r.cq
         /\ Wake(r).pop = r.pop
BY DEF SameKin, Session, Wake, Goto, Join, LeaveTiming, Leave, Class, Label

----------------------------------------------------------------------------
(* The labels of the single shot socket.                                   *)

\* Starting a protothread resets a session that is on no list.
LEMMA BeginFits ==
  ASSUME NEW r \in Session, r.on = {}, NEW a, Sane(a),
         a.type \in {"ADD_SOCK_FD_SINGLE", "ADD_SOCK_FD_MULTI"}
  PROVE  Fit(SingleBegin(r, a)) /\ Fit(MultiBegin(r, a))
<1>1. a.fd \in {-1, 0, 1} /\ a.tm \in Class
  BY DEF Sane
<1>2. SingleBegin(r, a) \in Session /\ SingleBegin(r, a).on = {} /\ SingleBegin(r, a).lc = "initial"
  BY <1>1 DEF SingleBegin, Goto, Session, Label
<1>3. MultiBegin(r, a) \in Session /\ MultiBegin(r, a).on = {} /\ MultiBegin(r, a).lc = "initial"
  <2>1. "none" \in Class
    BY DEF Class
  <2>2. QED
    BY <1>1, <2>1 DEF MultiBegin, Goto, Session, Label
<1>4. QED
  BY <1>2, <1>3 DEF Fit, Homes

\* __initial: winding up joins a list of new sessions.
LEMMA InitialFits ==
  ASSUME NEW r \in Session, r.on = {}, r.lc = "initial", r.type \in {"single", "multi"},
         NEW a, Sane(a)
  PROVE  Fit(SingleInitial(r, a)) /\ Fit(MultiInitial(r, a))
<1>1. "new" \in ListName /\ "global_new" \in ListName /\ "wait_for_cpu" \in Label
  BY DEF ListName, Label
<1>2. CASE a.type = "WIND_UP"
  BY <1>1, <1>2, JoinFacts, GotoFacts DEF SingleInitial, MultiInitial, Fit, Homes
<1>3. CASE a.type = "WIND_UP_RR"
  BY <1>1, <1>3, JoinFacts, GotoFacts DEF SingleInitial, MultiInitial, Fit, Homes
<1>4. CASE a.type = "SET_PARENT"
  <2>1. Fit(MultiInitial(r, a))
    BY <1>4, AskFacts DEF MultiInitial, InvalidAction, Fit, Homes
  <2>2. CASE r.bundled
    BY <1>4, <2>1, <2>2, AskFacts DEF SingleInitial, InvalidAction, Fit, Homes
  <2>3. CASE ~r.bundled
    <3> DEFINE q == [r EXCEPT !.bundled = TRUE, !.parent = a.parent]
    <3>1. a.parent \in Sessions
      BY <1>4 DEF Sane
    <3>2. q \in Session /\ q.on = {} /\ q.lc = "initial"
      BY <3>1 DEF Session
    <3>3. SingleInitial(r, a) = q
      BY <1>4, <2>3 DEF SingleInitial
    <3> HIDE DEF q
    <3>4. QED
      BY <2>1, <3>2, <3>3 DEF Fit, Homes
  <2>4. QED
    BY <2>2, <2>3
<1>5. CASE a.type \notin {"WIND_UP", "WIND_UP_RR", "SET_PARENT"}
  BY <1>5, AskFacts DEF SingleInitial, MultiInitial, InvalidAction, Fit, Homes
<1>6. QED
  BY <1>2, <1>3, <1>4, <1>5

\* __install_fd of both protothreads: the session waits on its timing list.
LEMMA InstallFits ==
  ASSUME NEW r \in Session, r.on = {}, r.type \in {"single", "multi"}, NEW k \in {"one", "multi"}
  PROVE  Fit(Goto(JoinTiming(IF r.fd > 0 THEN AddPoll(r, k) ELSE r), "winded_up"))
<1> DEFINE q == IF r.fd > 0 THEN AddPoll(r, k) ELSE r
<1>1. q \in Session /\ q.on = {} /\ q.type = r.type /\ q.tm = r.tm
  BY AddPollFacts
<1>2. "winded_up" \in Label
  BY DEF Label
<1> HIDE DEF q
<1>3. /\ JoinTiming(q) \in Session
      /\ JoinTiming(q).on = {q.tm}
      /\ JoinTiming(q).type = q.type
      /\ JoinTiming(q).tm = q.tm
  BY <1>1, JoinTimingFacts
<1>4. Fit(Goto(JoinTiming(q), "winded_up"))
  BY <1>1, <1>2, <1>3, GotoFacts DEF Fit, Homes
<1>5. QED
  BY <1>4 DEF q

\* A session that has just been taken off a list of new sessions takes PICK_UP.
LEMMA PickUpFits ==
  ASSUME NEW r \in Session, r.on = {}, r.type \in {"single", "multi"}, r.lc = "wait_for_cpu"
  PROVE  Fit(Dispatch(r, Act("PICK_UP")))
<1>1. Act("PICK_UP").type = "PICK_UP"
  BY DEF Act
<1>2. CASE r.type = "single"
  <2>1. Dispatch(r, Act("PICK_UP")) =
          Goto(JoinTiming(IF r.fd > 0 THEN AddPoll(r, "one") ELSE r), "winded_up")
    BY <1>1, <1>2 DEF Dispatch, PtSingle, SingleWaitForCpu, SingleInstall
  <2>2. QED
    BY <2>1, InstallFits
<1>3. CASE r.type = "multi"
  <2>1. Dispatch(r, Act("PICK_UP")) =
          Goto(JoinTiming(IF r.fd > 0 THEN AddPoll(r, "multi") ELSE r), "winded_up")
    BY <1>1, <1>3 DEF Dispatch, PtMulti, MultiWaitForCpu
  <2>2. QED
    BY <2>1, InstallFits
<1>4. QED
  BY <1>2, <1>3

\* __remove_fd_then_active: the session waits without a timeout for ECANCELED,
\* or becomes active at once when nothing was polled.
LEMMA RemoveThenActiveFits ==
  ASSUME NEW r \in Session, r.on = {r.tm}, r.type = "single"
  PROVE  Fit(SingleRemoveThenActive(r))
<1>1. CASE r.fd > 0
  <2> DEFINE q == [RemovePoll(r) EXCEPT !.fd = 0]
             n == ChangeToNoTiming(q)
  <2>1. q \in Session /\ q.on = {q.tm} /\ q.type = "single"
    <3>1. /\ RemovePoll(r) \in Session /\ RemovePoll(r).on = {RemovePoll(r).tm}
          /\ RemovePoll(r).type = "single"
      BY RemovePollFacts
    <3>2. QED
      BY <3>1, SetFdFacts
  <2> HIDE DEF q
  <2>2. n \in Session /\ n.on = {n.tm} /\ n.type = "single"
    BY <2>1, ChangeFacts
  <2>3. SingleRemoveThenActive(r) = Goto(n, "wait_for_removed_then_active")
    BY <1>1 DEF SingleRemoveThenActive, q
  <2>4. "wait_for_removed_then_active" \in Label
    BY DEF Label
  <2> HIDE DEF n
  <2>5. QED
    BY <2>2, <2>3, <2>4, GotoFacts DEF Fit, Homes
<1>2. CASE ~(r.fd > 0)
  BY <1>2, WakeFacts DEF SingleRemoveThenActive, Fit, Homes
<1>3. QED
  BY <1>1, <1>2

\* __winded_up
LEMMA SingleWindedUpFits ==
  ASSUME NEW r \in Session, r.on = {r.tm}, r.type = "single", r.lc = "winded_up",
         NEW a, Sane(a)
  PROVE  Fit(SingleWindedUp(r, a))
<1>1. {"timeout"} \in SUBSET Event /\ {"exit"} \in SUBSET Event
  BY DEF Event
<1>2. CASE a.type = "NOTIFY_EVENT"
  BY <1>2, AddBitsFacts, WakeFacts DEF SingleWindedUp, Sane, Fit, Homes
<1>3. CASE a.type = "NOTIFY_TIMEOUT"
  BY <1>1, <1>3, AddBitsFacts, RemoveThenActiveFits DEF SingleWindedUp
<1>4. CASE a.type = "NOTIFY_EXIT"
  BY <1>1, <1>4, AddBitsFacts, RemoveThenActiveFits DEF SingleWindedUp
<1>5. CASE a.type \notin {"NOTIFY_EVENT", "NOTIFY_TIMEOUT", "NOTIFY_EXIT"}
  BY <1>5, AskFacts DEF SingleWindedUp, InvalidAction, Fit, Homes
<1>6. QED
  BY <1>2, <1>3, <1>4, <1>5

\* __wait_for_removed_then_active
LEMMA SingleWaitForRemovedFits ==
  ASSUME NEW r \in Session, r.on = {r.tm}, r.type = "single",
         r.lc = "wait_for_removed_then_active", NEW a, Sane(a)
  PROVE  Fit(SingleWaitForRemoved(r, a))
<1>1. {"exit"} \in SUBSET Event
  BY DEF Event
<1>2. CASE a.type = "NOTIFY_AIO_REMOVED"
  BY <1>2, WakeFacts DEF SingleWaitForRemoved, Fit, Homes
<1>3. CASE a.type = "NOTIFY_EXIT"
  BY <1>1, <1>3, AddBitsFacts DEF SingleWaitForRemoved, Fit, Homes
<1>4. CASE a.type \notin {"NOTIFY_AIO_REMOVED", "NOTIFY_EXIT"}
  BY <1>4, AskFacts DEF SingleWaitForRemoved, InvalidAction, Fit, Homes
<1>5. QED
  BY <1>2, <1>3, <1>4

\* __active
LEMMA SingleActiveFits ==
  ASSUME NEW r \in Session, r.on = {"active"}, r.type = "single", r.lc = "active",
         NEW a, Sane(a)
  PROVE  Fit(SingleActive(r, a))
<1>1. {"exit"} \in SUBSET Event /\ "active" \in ListName /\ "execute_cb" \in Label
  BY DEF Event, ListName, Label
<1>2. CASE a.type = "NOTIFY_EVENT"
  BY <1>2, AddBitsFacts DEF SingleActive, Sane, Fit, Homes
<1>3. CASE a.type = "NOTIFY_EXIT"
  BY <1>1, <1>3, AddBitsFacts DEF SingleActive, Fit, Homes
<1>4. CASE a.type = "EXECUTE_CB"
  BY <1>1, <1>4, LeaveFacts, GotoFacts DEF SingleActive, Fit, Homes
<1>5. CASE a.type \notin {"NOTIFY_EVENT", "NOTIFY_EXIT", "EXECUTE_CB"}
  BY <1>5, AskFacts DEF SingleActive, InvalidAction, Fit, Homes
<1>6. QED
  BY <1>2, <1>3, <1>4, <1>5

\* __execute_cb
LEMMA SingleExecuteCbFits ==
  ASSUME NEW r \in Session, r.on = {}, r.type = "single", r.lc = "execute_cb",
         NEW a, Sane(a)
  PROVE  Fit(SingleExecuteCb(r, a))
<1>1. {"exit"} \in SUBSET Event /\ "die" \in Label /\ "wait_for_reinstall" \in Label
  BY DEF Event, Label
<1>2. CASE a.type = "WIND_UP"
  BY <1>1, <1>2, GotoFacts, AskFacts DEF SingleExecuteCb, Fit, Homes
<1>3. CASE a.type = "ADD_SOCK_FD_MULTI"
  BY <1>3, BeginFits DEF SingleExecuteCb
<1>4. CASE a.type = "ADD_CHILD"
  <2> DEFINE q == [r EXCEPT !.kids = @ \cup {a.child}]
  <2>1. a.child \in Sessions
    BY <1>4 DEF Sane
  <2>2. q \in Session /\ q.on = {} /\ q.lc = "execute_cb"
    BY <2>1 DEF Session
  <2>3. SingleExecuteCb(r, a) = q
    BY <1>4 DEF SingleExecuteCb
  <2> HIDE DEF q
  <2>4. QED
    BY <2>2, <2>3 DEF Fit, Homes
<1>5. CASE a.type = "ADD_SOCK_FD_SINGLE"
  <2> DEFINE q == [r EXCEPT !.fd = a.fd, !.tm = a.tm]
  <2>1. a.fd \in {-1, 0, 1} /\ a.tm \in Class
    BY <1>5 DEF Sane
  <2>2. q \in Session /\ q.on = {} /\ q.type = "single"
    BY <2>1 DEF Session
  <2>3. SingleExecuteCb(r, a) = Goto(q, "wait_for_reinstall")
    BY <1>5 DEF SingleExecuteCb
  <2> HIDE DEF q
  <2>4. QED
    BY <1>1, <2>2, <2>3, GotoFacts DEF Fit, Homes
<1>6. CASE a.type = "NOTIFY_EXIT"
  BY <1>1, <1>6, AddBitsFacts DEF SingleExecuteCb, Fit, Homes
<1>7. CASE a.type = "NOTIFY_EVENT"
  BY <1>7, AddBitsFacts DEF SingleExecuteCb, Sane, Fit, Homes
<1>8. CASE a.type \notin {"WIND_UP", "ADD_SOCK_FD_MULTI", "ADD_CHILD", "ADD_SOCK_FD_SINGLE",
                          "NOTIFY_EXIT", "NOTIFY_EVENT"}
  BY <1>8, AskFacts DEF SingleExecuteCb, InvalidAction, Fit, Homes
<1>9. QED
  BY <1>2, <1>3, <1>4, <1>5, <1>6, <1>7, <1>8

\* __wait_for_reinstall
LEMMA SingleWaitForReinstallFits ==
  ASSUME NEW r \in Session, r.on = {}, r.type = "single", r.lc = "wait_for_reinstall",
         NEW a, Sane(a)
  PROVE  Fit(SingleWaitForReinstall(r, a))
<1>1. {"exit"} \in SUBSET Event
  BY DEF Event
<1>2. CASE a.type = "WIND_UP"
  BY <1>2, InstallFits DEF SingleWaitForReinstall, SingleInstall
<1>3. CASE a.type = "NOTIFY_EXIT"
  BY <1>1, <1>3, AddBitsFacts DEF SingleWaitForReinstall, Fit, Homes
<1>4. CASE a.type = "NOTIFY_EVENT"
  BY <1>4, AddBitsFacts DEF SingleWaitForReinstall, Sane, Fit, Homes
<1>5. CASE a.type \notin {"WIND_UP", "NOTIFY_EXIT", "NOTIFY_EVENT"}
  BY <1>5, AskFacts DEF SingleWaitForReinstall, InvalidAction, Fit, Homes
<1>6. QED
  BY <1>2, <1>3, <1>4, <1>5

----------------------------------------------------------------------------
(* The labels of the multi shot socket.                                    *)

\* __winded_up
LEMMA MultiWindedUpFits ==
  ASSUME NEW r \in Session, r.on = {r.tm}, r.type = "multi", r.lc = "winded_up",
         NEW a, Sane(a)
  PROVE  Fit(MultiWindedUp(r, a))
<1>1. {"exit"} \in SUBSET Event
  BY DEF Event
<1>2. CASE a.type = "NOTIFY_EVENT"
  BY <1>2, AddBitsFacts, WakeFacts DEF MultiWindedUp, Sane, Fit, Homes
<1>3. CASE a.type = "NOTIFY_EXIT"
  BY <1>1, <1>3, AddBitsFacts, WakeFacts DEF MultiWindedUp, Fit, Homes
<1>4. CASE a.type \notin {"NOTIFY_EVENT", "NOTIFY_EXIT"}
  BY <1>4, AskFacts DEF MultiWindedUp, InvalidAction, Fit, Homes
<1>5. QED
  BY <1>2, <1>3, <1>4

\* __active
LEMMA MultiActiveFits ==
  ASSUME NEW r \in Session, r.on = {"active"}, r.type = "multi", r.lc = "active",
         NEW a, Sane(a)
  PROVE  Fit(MultiActive(r, a))
<1>1. {"exit"} \in SUBSET Event /\ "active" \in ListName /\ "execute_cb" \in Label
  BY DEF Event, ListName, Label
<1>2. CASE a.type = "NOTIFY_EVENT"
  BY <1>2, AddBitsFacts DEF MultiActive, Sane, Fit, Homes
<1>3. CASE a.type = "NOTIFY_EXIT"
  BY <1>1, <1>3, AddBitsFacts DEF MultiActive, Fit, Homes
<1>4. CASE a.type = "EXECUTE_CB"
  <2> DEFINE q == Leave(r, "active")
             n == [q EXCEPT !.bits2 = {}]
  <2>1. q \in Session /\ q.on = {} /\ q.type = "multi"
    BY <1>1, LeaveFacts
  <2> HIDE DEF q
  <2>2. n \in Session /\ n.on = {} /\ n.type = "multi"
    BY <2>1 DEF Session
  <2>3. MultiActive(r, a) = Goto(n, "execute_cb")
    BY <1>4 DEF MultiActive, q
  <2> HIDE DEF n
  <2>4. QED
    BY <1>1, <2>2, <2>3, GotoFacts DEF Fit, Homes
<1>5. CASE a.type \notin {"NOTIFY_EVENT", "NOTIFY_EXIT", "EXECUTE_CB"}
  BY <1>5, AskFacts DEF MultiActive, InvalidAction, Fit, Homes
<1>6. QED
  BY <1>2, <1>3, <1>4, <1>5

\* ACTION_WIND_UP in __execute_cb: free, run again, or wait.
LEMMA MultiWindUpFits ==
  ASSUME NEW r \in Session, r.on = {}, r.type = "multi", r.lc = "execute_cb"
  PROVE  Fit(MultiWindUp(r))
<1>1. "active" \in ListName /\ "active" \in Label /\ "winded_up" \in Label
  BY DEF ListName, Label
<1>2. CASE r.fd = 0
  BY <1>2, AskFacts DEF MultiWindUp, Fit, Homes
<1>3. CASE r.fd # 0 /\ r.bits2 # {}
  <2> DEFINE q == [r EXCEPT !.bits = r.bits2]
  <2>1. q \in Session /\ q.on = {} /\ q.type = "multi"
    BY DEF Session
  <2>2. MultiWindUp(r) = Goto(Join(q, "active"), "active")
    BY <1>3 DEF MultiWindUp
  <2> HIDE DEF q
  <2>3. /\ Join(q, "active") \in Session /\ Join(q, "active").on = {"active"}
        /\ Join(q, "active").type = "multi"
    BY <1>1, <2>1, JoinFacts
  <2>4. QED
    BY <1>1, <2>2, <2>3, GotoFacts DEF Fit, Homes
<1>4. CASE r.fd # 0 /\ r.bits2 = {}
  <2>1. MultiWindUp(r) = Goto(JoinTiming(r), "winded_up")
    BY <1>4 DEF MultiWindUp
  <2>2. /\ JoinTiming(r) \in Session /\ JoinTiming(r).on = {JoinTiming(r).tm}
        /\ JoinTiming(r).type = "multi"
    BY JoinTimingFacts
  <2>3. QED
    BY <1>1, <2>1, <2>2, GotoFacts DEF Fit, Homes
<1>5. QED
  BY <1>2, <1>3, <1>4

\* ACTION_REMOVE_FD in __execute_cb: the session joins the timing list while
\* its callback is still running.
LEMMA MultiRemoveFdFits ==
  ASSUME NEW r \in Session, r.on = {}, r.type = "multi", r.lc = "execute_cb"
  PROVE  Fit(MultiRemoveFd(r))
<1>1. CASE r.fd > 0
  <2> DEFINE q == [RemovePoll(r) EXCEPT !.fd = 0]
             n == JoinTiming(q)
  <2>1. q \in Session /\ q.on = {} /\ q.type = "multi"
    <3>1. RemovePoll(r) \in Session /\ RemovePoll(r).on = {} /\ RemovePoll(r).type = "multi"
      BY RemovePollFacts
    <3>2. QED
      BY <3>1, SetFdFacts
  <2> HIDE DEF q
  <2>2. n \in Session /\ n.on = {n.tm} /\ n.type = "multi"
    BY <2>1, JoinTimingFacts
  <2>3. MultiRemoveFd(r) = Goto(n, "wait_for_removed_and_wind_up")
    BY <1>1 DEF MultiRemoveFd, q
  <2>4. "wait_for_removed_and_wind_up" \in Label
    BY DEF Label
  <2> HIDE DEF n
  <2>5. QED
    BY <2>2, <2>3, <2>4, GotoFacts DEF Fit, Homes
<1>2. CASE ~(r.fd > 0)
  <2> DEFINE q == [r EXCEPT !.fd = 0]
  <2>1. q \in Session /\ q.on = {} /\ q.lc = "execute_cb"
    BY DEF Session
  <2>2. MultiRemoveFd(r) = q
    BY <1>2 DEF MultiRemoveFd
  <2> HIDE DEF q
  <2>3. QED
    BY <2>1, <2>2 DEF Fit, Homes
<1>3. QED
  BY <1>1, <1>2

\* __execute_cb
LEMMA MultiExecuteCbFits ==
  ASSUME NEW r \in Session, r.on = {}, r.type = "multi", r.lc = "execute_cb",
         NEW a, Sane(a)
  PROVE  Fit(MultiExecuteCb(r, a))
<1>1. {"exit"} \in SUBSET Event
  BY DEF Event
<1>2. CASE a.type = "WIND_UP"
  BY <1>2, MultiWindUpFits DEF MultiExecuteCb
<1>3. CASE a.type = "REMOVE_FD"
  BY <1>3, MultiRemoveFdFits DEF MultiExecuteCb
<1>4. CASE a.type = "NOTIFY_EVENT"
  BY <1>4, AddBits2Facts DEF MultiExecuteCb, Sane, Fit, Homes
<1>5. CASE a.type = "NOTIFY_EXIT"
  BY <1>1, <1>5, AddBits2Facts DEF MultiExecuteCb, Fit, Homes
<1>6. CASE a.type \notin {"WIND_UP", "REMOVE_FD", "NOTIFY_EVENT", "NOTIFY_EXIT"}
  BY <1>6, AskFacts DEF MultiExecuteCb, InvalidAction, Fit, Homes
<1>7. QED
  BY <1>2, <1>3, <1>4, <1>5, <1>6

\* Leaving the timing list to die is fit to be freed.
LEMMA DieFits ==
  ASSUME NEW r \in Session, r.on = {r.tm}, r.type = "multi"
  PROVE  Fit(Ask(Goto(LeaveTiming(r), "die"), "free"))
<1>1. LeaveTiming(r) \in Session /\ LeaveTiming(r).on = {} /\ LeaveTiming(r).type = "multi"
  BY LeaveTimingFacts
<1>2. "die" \in Label
  BY DEF Label
<1>3. QED
  BY <1>1, <1>2, GotoFacts, AskFacts DEF Fit, Homes

\* __wait_for_removed_and_wind_up, __wait_for_removed, __wait_for_wind_up
LEMMA MultiRemovalFits ==
  ASSUME NEW r \in Session, r.on = {r.tm}, r.type = "multi", NEW a, Sane(a)
  PROVE  /\ r.lc = "wait_for_removed_and_wind_up" => Fit(MultiWaitForRemovedAndWindUp(r, a))
         /\ r.lc = "wait_for_removed" => Fit(MultiWaitForRemoved(r, a))
         /\ r.lc = "wait_for_wind_up" => Fit(MultiWaitForWindUp(r, a))
<1>1. "wait_for_wind_up" \in Label /\ "wait_for_removed" \in Label
  BY DEF Label
<1>2. ASSUME NEW q \in Session, q.on = {q.tm}, q.type = "multi",
             q.lc \in {"wait_for_removed_and_wind_up", "wait_for_removed", "wait_for_wind_up"}
      PROVE  Fit(q)
  BY <1>2 DEF Fit, Homes
<1>3. /\ Fit(Goto(r, "wait_for_wind_up"))
      /\ Fit(Goto(r, "wait_for_removed"))
  BY <1>1, <1>2, GotoFacts
<1>4. Fit(Ask(Goto(LeaveTiming(r), "die"), "free"))
  BY DieFits
<1>5. ASSUME r.lc \in {"wait_for_removed_and_wind_up", "wait_for_removed", "wait_for_wind_up"}
      PROVE  Fit(r) /\ Fit(InvalidAction(r))
  BY <1>2, <1>5, AskFacts DEF InvalidAction
<1>6. ASSUME r.lc = "wait_for_removed_and_wind_up"
      PROVE  Fit(MultiWaitForRemovedAndWindUp(r, a))
  BY <1>3, <1>5, <1>6, Zenon DEF MultiWaitForRemovedAndWindUp
<1>7. ASSUME r.lc = "wait_for_removed"
      PROVE  Fit(MultiWaitForRemoved(r, a))
  BY <1>4, <1>5, <1>7, Zenon DEF MultiWaitForRemoved
<1>8. ASSUME r.lc = "wait_for_wind_up"
      PROVE  Fit(MultiWaitForWindUp(r, a))
  BY <1>4, <1>5, <1>8, Zenon DEF MultiWaitForWindUp
<1>9. QED
  BY <1>6, <1>7, <1>8

----------------------------------------------------------------------------
(* The chassis.                                                            *)

\* The protothread of a session that has just been allocated.
LEMMA NoFdFits ==
  ASSUME NEW r \in Session, r.on = {}, r.type = "new", NEW a, Sane(a)
  PROVE  Fit(PtNoFd(r, a))
<1>1. CASE a.type = "WIND_UP"
  BY <1>1, AskFacts DEF PtNoFd, Fit, Homes
<1>2. CASE a.type \in {"ADD_SOCK_FD_MULTI", "ADD_SOCK_FD_SINGLE"}
  BY <1>2, BeginFits DEF PtNoFd
<1>3. CASE a.type \notin {"WIND_UP", "ADD_SOCK_FD_MULTI", "ADD_SOCK_FD_SINGLE"}
  BY <1>3, AskFacts DEF PtNoFd, InvalidAction, Fit, Homes
<1>4. QED
  BY <1>1, <1>2, <1>3

\* INVALID_ACTION_TYPE leaves the session where it is.
LEMMA InvalidFits ==
  ASSUME NEW r, Fit(r)
  PROVE  Fit(InvalidAction(r))
<1> DEFINE q == Ask(r, "exit")
<1>1. r \in Session /\ r.on \in Homes(r)
  BY DEF Fit
<1>2. q \in Session /\ q.on = r.on /\ q.type = r.type /\ q.lc = r.lc /\ q.tm = r.tm
  BY <1>1, AskFacts
<1> HIDE DEF q
<1>3. Homes(q) = Homes(r)
  BY <1>2 DEF Homes
<1>4. QED
  BY <1>1, <1>2, <1>3 DEF Fit, InvalidAction, q

\* Every action but PICK_UP, for which a session is first taken off its list,
\* leaves a session on the list its label says.
LEMMA DispatchFits ==
  ASSUME NEW r, Fit(r), NEW a, Sane(a), a.type # "PICK_UP"
  PROVE  Fit(Dispatch(r, a))
<1>0. r \in Session /\ r.on \in Homes(r) /\ r.lc \in Label
  BY DEF Fit, Session
<1>1. CASE r.type = "new"
  <2>1. r.on = {}
    BY <1>0, <1>1 DEF Homes
  <2>2. QED
    BY <1>0, <1>1, <2>1, NoFdFits DEF Dispatch
<1>2. CASE r.type = "single"
  <2>0. Dispatch(r, a) = PtSingle(r, a)
    BY <1>2 DEF Dispatch
  <2>1. CASE r.lc = "initial"
    BY <1>0, <1>2, <2>0, <2>1, InitialFits DEF PtSingle, Homes
  <2>2. CASE r.lc = "wait_for_cpu"
    BY <1>0, <1>2, <2>0, <2>2, AskFacts DEF PtSingle, SingleWaitForCpu, InvalidAction, Fit, Homes
  <2>3. CASE r.lc = "winded_up"
    BY <1>0, <1>2, <2>0, <2>3, SingleWindedUpFits DEF PtSingle, Homes
  <2>4. CASE r.lc = "wait_for_removed_then_active"
    BY <1>0, <1>2, <2>0, <2>4, SingleWaitForRemovedFits DEF PtSingle, Homes
  <2>5. CASE r.lc = "active"
    BY <1>0, <1>2, <2>0, <2>5, SingleActiveFits DEF PtSingle, Homes
  <2>6. CASE r.lc = "execute_cb"
    BY <1>0, <1>2, <2>0, <2>6, SingleExecuteCbFits DEF PtSingle, Homes
  <2>7. CASE r.lc = "wait_for_reinstall"
    BY <1>0, <1>2, <2>0, <2>7, SingleWaitForReinstallFits DEF PtSingle, Homes
  <2>8. CASE r.lc \notin {"initial", "wait_for_cpu", "winded_up", "wait_for_removed_then_active",
                          "active", "execute_cb", "wait_for_reinstall"}
    BY <1>0, <1>2, <2>0, <2>8, InvalidFits DEF PtSingle
  <2>9. QED
    BY <2>1, <2>2, <2>3, <2>4, <2>5, <2>6, <2>7, <2>8
<1>3. CASE r.type = "multi"
  <2>0. Dispatch(r, a) = PtMulti(r, a)
    BY <1>3 DEF Dispatch
  <2>1. CASE r.lc = "initial"
    BY <1>0, <1>3, <2>0, <2>1, InitialFits DEF PtMulti, Homes
  <2>2. CASE r.lc = "wait_for_cpu"
    BY <1>0, <1>3, <2>0, <2>2, AskFacts DEF PtMulti, MultiWaitForCpu, InvalidAction, Fit, Homes
  <2>3. CASE r.lc = "winded_up"
    BY <1>0, <1>3, <2>0, <2>3, MultiWindedUpFits DEF PtMulti, Homes
  <2>4. CASE r.lc = "active"
    BY <1>0, <1>3, <2>0, <2>4, MultiActiveFits DEF PtMulti, Homes
  <2>5. CASE r.lc = "execute_cb"
    BY <1>0, <1>3, <2>0, <2>5, MultiExecuteCbFits DEF PtMulti, Homes
  <2>6. CASE r.lc \in {"wait_for_removed_and_wind_up", "wait_for_removed", "wait_for_wind_up"}
    BY <1>0, <1>3, <2>0, <2>6, MultiRemovalFits DEF PtMulti, Homes
  <2>7. CASE r.lc \notin {"initial", "wait_for_cpu", "winded_up", "active", "execute_cb",
                   "wait_for_removed_and_wind_up", "wait_for_removed", "wait_for_wind_up"}
    BY <1>0, <1>3, <2>0, <2>7, InvalidFits DEF PtMulti
  <2>8. QED
    BY <2>1, <2>2, <2>3, <2>4, <2>5, <2>6, <2>7
<1>4. CASE r.type \in {"none", "freed"}
  BY <1>4 DEF Dispatch
<1>5. QED
  BY <1>0, <1>1, <1>2, <1>3, <1>4 DEF Session

\* All sessions are on the lists their labels say.
AllFit(f) == f \in [Sessions -> Session] /\ \A x \in Sessions : Fit(f[x])

\* Changing one session keeps the others fit.
LEMMA OneFits ==
  ASSUME NEW f, AllFit(f), NEW s \in Sessions, NEW r, Fit(r)
  PROVE  AllFit([f EXCEPT ![s] = r])
<1>1. r \in Session
  BY DEF Fit
<1>2. QED
  BY <1>1 DEF AllFit

\* A freed session is on no list.
LEMMA JustFreedFits ==
  ASSUME NEW r \in Session
  PROVE  Fit(Freed(r))
<1>1. NoRecord \in Session /\ NoRecord.on = {}
  BY DEF NoRecord, Session, Label, Class
<1>2. r.bundled \in BOOLEAN /\ r.poll \in {"no", "one", "multi", "two"}
      /\ r.cq \in Seq(FdEvents \cup {"canceled"}) /\ r.dones \in Nat
  BY DEF Session
<1>3. Freed(r) \in Session /\ Freed(r).type = "freed" /\ Freed(r).on = {}
  BY <1>1, <1>2, ZenonT(30) DEF Freed, Session
<1>4. QED
  BY <1>3 DEF Fit, Homes

\* free() takes a session off nothing, because it is on no list.
LEMMA FreedFits ==
  ASSUME NEW r \in Session
  PROVE  Fit(FreedAfterDoneCb(r))
<1> DEFINE n == r.dones + 1
           q == [r EXCEPT !.dones = n]
<1>1. n \in Nat
  BY DEF Session
<1> HIDE DEF n
<1>2. q \in Session
  BY <1>1 DEF Session
<1>3. FreedAfterDoneCb(r) = Freed(q)
  BY DEF FreedAfterDoneCb, n
<1> HIDE DEF q
<1>4. QED
  BY <1>2, <1>3, JustFreedFits

\* esq_unhook_child_session touches no list.
LEMMA UnhookFits ==
  ASSUME NEW f, AllFit(f), NEW s \in Sessions
  PROVE  AllFit(Unhook(f, s))
<1>1. DOMAIN f = Sessions
  BY DEF AllFit
<1>2. ASSUME NEW x \in Sessions
      PROVE  Fit(Unhook(f, s)[x])
  <2>0. f[x] \in Session /\ Fit(f[x]) /\ f[s] \in Session /\ Fit(f[s])
    BY DEF AllFit
  <2>1. CASE x = s
    <3>1. Unhook(f, s)[x] = Childless(f[s])
      BY <1>1, <2>1 DEF Unhook
    <3> DEFINE r == f[s]
               q == Childless(r)
    <3>2. /\ q \in Session /\ q.on = r.on /\ q.type = r.type /\ q.lc = r.lc /\ q.tm = r.tm
      BY <2>0 DEF Session, Childless
    <3> HIDE DEF q
    <3>3. Homes(q) = Homes(r)
      BY <3>2 DEF Homes
    <3>4. QED
      BY <2>0, <3>1, <3>2, <3>3 DEF Fit, q
  <2>2. CASE x # s /\ x \in f[s].kids
    <3>1. Unhook(f, s)[x] = Orphaned(f[x])
      BY <1>1, <2>2 DEF Unhook
    <3> DEFINE r == f[x]
               q == Orphaned(r)
    <3>2. /\ q \in Session /\ q.on = r.on /\ q.type = r.type /\ q.lc = r.lc /\ q.tm = r.tm
      BY <2>0 DEF Session, Orphaned
    <3> HIDE DEF q
    <3>3. Homes(q) = Homes(r)
      BY <3>2 DEF Homes
    <3>4. QED
      BY <2>0, <3>1, <3>2, <3>3 DEF Fit, q
  <2>3. CASE x # s /\ x \notin f[s].kids /\ x \in f[s].fin
    <3>1. Unhook(f, s)[x] = FreedAfterDoneCb(f[x])
      BY <1>1, <2>3 DEF Unhook
    <3>2. QED
      BY <2>0, <3>1, FreedFits
  <2>4. CASE x # s /\ x \notin f[s].kids /\ x \notin f[s].fin
    <3>1. Unhook(f, s)[x] = f[x]
      BY <1>1, <2>4 DEF Unhook
    <3>2. QED
      BY <2>0, <3>1
  <2>5. QED
    BY <2>1, <2>2, <2>3, <2>4
<1>3. Unhook(f, s) = [x \in Sessions |-> Unhook(f, s)[x]]
  BY <1>1 DEF Unhook
<1>4. QED
  BY <1>2, <1>3 DEF AllFit, Fit

\* POP_FREE_SESSION
LEMMA FreeFits ==
  ASSUME NEW f, AllFit(f), NEW s \in Sessions
  PROVE  AllFit(Free(f, s))
<1> DEFINE u == Unhook(f, s)
           p == f[s].parent
<1>1. AllFit(u)
  BY UnhookFits
<1>2. f[s].bundled \in BOOLEAN /\ p \in Sessions \cup {NoSession}
  BY DEF AllFit, Session
<1>3. u[s] \in Session
  BY <1>1 DEF AllFit
<1>4. CASE ~f[s].bundled
  <2>1. Free(f, s) = [u EXCEPT ![s] = Freed(u[s])]
    BY <1>4 DEF Free
  <2> HIDE DEF u
  <2>2. Fit(Freed(u[s]))
    BY <1>3, JustFreedFits
  <2>3. AllFit([u EXCEPT ![s] = Freed(u[s])])
    BY <1>1, <2>2, OneFits
  <2>4. QED
    BY <2>1, <2>3
<1>5. CASE f[s].bundled /\ p = NoSession
  <2>1. Free(f, s) = [u EXCEPT ![s] = FreedAfterDoneCb(u[s])]
    BY <1>5 DEF Free
  <2> HIDE DEF u
  <2>2. Fit(FreedAfterDoneCb(u[s]))
    BY <1>3, FreedFits
  <2>3. AllFit([u EXCEPT ![s] = FreedAfterDoneCb(u[s])])
    BY <1>1, <2>2, OneFits
  <2>4. QED
    BY <2>1, <2>3
<1>6. CASE f[s].bundled /\ p # NoSession
  <2> DEFINE r == u[p]
             q == Finish(r, s)
             a == NotifyEvent({"task_done"})
  <2>1. p \in Sessions
    BY <1>2, <1>6
  <2>2. Free(f, s) = [u EXCEPT ![p] = Dispatch(q, a)]
    BY <1>6 DEF Free
  <2>3. Sane(a) /\ a.type # "PICK_UP"
    BY DEF Sane, NotifyEvent, Event
  <2> HIDE DEF u, p, a
  <2>4. r \in Session /\ Fit(r)
    BY <1>1, <2>1 DEF AllFit
  <2>5. q \in Session /\ q.on = r.on /\ q.type = r.type /\ q.lc = r.lc /\ q.tm = r.tm
    BY <2>4 DEF Session, Finish
  <2> HIDE DEF q, r
  <2>6. Homes(q) = Homes(r)
    BY <2>5 DEF Homes
  <2>7. Fit(q)
    BY <2>4, <2>5, <2>6 DEF Fit
  <2>8. QED
    <3>1. Fit(Dispatch(q, a))
      BY <2>3, <2>7, DispatchFits
    <3>2. AllFit([u EXCEPT ![p] = Dispatch(q, a)])
      BY <1>1, <2>1, <3>1, OneFits
    <3>3. QED
      BY <2>2, <3>2
<1>7. QED
  BY <1>2, <1>4, <1>5, <1>6

\* __esq_session_take_action leaves every session on the list its label says.
LEMMA TakeActionFits ==
  ASSUME NEW f, AllFit(f), NEW s \in Sessions, NEW a, Sane(a), a.type # "PICK_UP"
  PROVE  AllFit(TakeAction(f, s, a))
<1> DEFINE r == Dispatch(f[s], a)
           next == [f EXCEPT ![s] = r]
<1>1. Fit(r)
  BY DispatchFits DEF AllFit
<1>2. AllFit(next)
  BY <1>1, OneFits
<1>3. TakeAction(f, s, a) = IF r.pop = "free" THEN Free(next, s) ELSE next
  BY DEF TakeAction
<1> HIDE DEF r, next
<1>4. QED
  BY <1>2, <1>3, FreeFits

----------------------------------------------------------------------------
(* The worker keeps its types and no list of sessions is corrupted.        *)

\* The two invariants that are proved together.
Inv == TypeOK /\ ListMatchesState

\* In terms of the lemmas on single sessions.
LEMMA InvAllFit ==
  ASSUME Inv
  PROVE  AllFit(ss)
BY DEF Inv, TypeOK, ListMatchesState, AllFit, Fit

\* The actions that callbacks and the worker send are well formed.
LEMMA SaneActions ==
  /\ \A t : t \notin {"ADD_SOCK_FD_SINGLE", "ADD_SOCK_FD_MULTI", "NOTIFY_EVENT", "SET_PARENT",
                      "ADD_CHILD"} => Sane(Act(t)) /\ Act(t).type = t
  /\ \A fd \in {-1, 0, 1}, tm \in Class, t \in {"ADD_SOCK_FD_SINGLE", "ADD_SOCK_FD_MULTI"} :
       Sane(AddFd(t, fd, tm)) /\ AddFd(t, fd, tm).type = t
  /\ \A b \in SUBSET Event : Sane(NotifyEvent(b)) /\ NotifyEvent(b).type = "NOTIFY_EVENT"
  /\ \A p \in Sessions : Sane(SetParent(p)) /\ SetParent(p).type = "SET_PARENT"
  /\ \A c \in Sessions : Sane(AddChild(c)) /\ AddChild(c).type = "ADD_CHILD"
<1>1. ASSUME NEW t, t \notin {"ADD_SOCK_FD_SINGLE", "ADD_SOCK_FD_MULTI", "NOTIFY_EVENT",
                              "SET_PARENT", "ADD_CHILD"}
      PROVE  Sane(Act(t)) /\ Act(t).type = t
  BY <1>1 DEF Sane, Act
<1>2. ASSUME NEW fd \in {-1, 0, 1}, NEW tm \in Class,
             NEW t \in {"ADD_SOCK_FD_SINGLE", "ADD_SOCK_FD_MULTI"}
      PROVE  Sane(AddFd(t, fd, tm)) /\ AddFd(t, fd, tm).type = t
  BY DEF Sane, AddFd
<1>3. ASSUME NEW b \in SUBSET Event
      PROVE  Sane(NotifyEvent(b)) /\ NotifyEvent(b).type = "NOTIFY_EVENT"
  BY DEF Sane, NotifyEvent
<1>4. ASSUME NEW p \in Sessions
      PROVE  /\ Sane(SetParent(p)) /\ SetParent(p).type = "SET_PARENT"
             /\ Sane(AddChild(p)) /\ AddChild(p).type = "ADD_CHILD"
  BY DEF Sane, SetParent, AddChild
<1>5. QED
  BY <1>1, <1>2, <1>3, <1>4

\* esq_session_update_polling_interval finds one of the classes, and none of the timed lists
\* that are not empty has a shorter one.
LEMMA ShortestIsLeast ==
  ASSUME NEW f
  PROVE  /\ Shortest(f) \in Class
         /\ \A s \in DOMAIN f, c \in Timed : c \in f[s].on =>
              Shortest(f) # "none" /\ WaitMax[Shortest(f)] <= WaitMax[c]
<1> DEFINE busy == {c \in Timed : \E s \in DOMAIN f : c \in f[s].on}
<1>1. CASE busy = {}
  BY <1>1 DEF Shortest, Class
<1>2. CASE busy # {}
  <2>1. busy \subseteq {"t0", "t100ms", "t1s", "t10s"}
    BY DEF Timed, Class
  <2>2. /\ WaitMax["t0"] = 5 /\ WaitMax["t100ms"] = 50
        /\ WaitMax["t1s"] = 500 /\ WaitMax["t10s"] = 5000
    BY DEF WaitMax
  <2>3. Shortest(f) = CHOOSE c \in busy : \A d \in busy : WaitMax[c] <= WaitMax[d]
    BY <1>2 DEF Shortest
  <2> HIDE DEF busy
  <2>4. \E c \in busy : \A d \in busy : WaitMax[c] <= WaitMax[d]
    <3>1. CASE "t0" \in busy
      BY <2>1, <2>2, <3>1
    <3>2. CASE "t0" \notin busy /\ "t100ms" \in busy
      BY <2>1, <2>2, <3>2
    <3>3. CASE "t0" \notin busy /\ "t100ms" \notin busy /\ "t1s" \in busy
      BY <2>1, <2>2, <3>3
    <3>4. CASE busy \subseteq {"t10s"}
      <4>1. busy = {"t10s"}
        BY <1>2, <3>4
      <4>2. QED
        BY <2>2, <4>1
    <3>5. QED
      BY <2>1, <3>1, <3>2, <3>3, <3>4
  <2>5. Shortest(f) \in busy /\ \A d \in busy : WaitMax[Shortest(f)] <= WaitMax[d]
    BY <2>3, <2>4
  <2>6. Shortest(f) # "none" /\ Shortest(f) \in Class
    BY <2>1, <2>5 DEF Class
  <2>7. \A s \in DOMAIN f, c \in Timed : c \in f[s].on => c \in busy
    BY DEF busy
  <2>8. QED
    BY <2>5, <2>6, <2>7
<1>3. QED
  BY <1>1, <1>2

\* The interval of the wait is one of the classes.
LEMMA ShortestIsClass ==
  ASSUME NEW f
  PROVE  Shortest(f) \in Class
BY ShortestIsLeast

\* Becomes either installs the new sessions or halts.
LEMMA BecomesFits ==
  ASSUME AllFit(ss), NEW f, AllFit(f), NEW pc, Becomes(f, pc)
  PROVE  AllFit(ss') /\ wpc' \in {pc, "halted"}
BY DEF Becomes

\* What sessions are owed are events.
LEMMA OweType ==
  ASSUME owed \in [Sessions -> SUBSET Event], NEW f, NEW W, NEW e \in Event
  PROVE  Owe(f, W, e) \in [Sessions -> SUBSET Event]
BY DEF Owe

\* The sessions on a list of new sessions are at wait_for_cpu, and on no list
\* once they have been taken off it.
LEMMA NewIsAtCpu ==
  ASSUME NEW r, Fit(r), NEW l \in {"new", "global_new"}, l \in r.on
  PROVE  Fit(Dispatch(Leave(r, l), Act("PICK_UP")))
<1>1. /\ r \in Session /\ r.type \in {"single", "multi"} /\ r.lc = "wait_for_cpu"
      /\ r.on = {l}
  BY DEF Fit, Homes, Session, Class
<1>2. l \in ListName
  BY DEF ListName
<1>3. /\ Leave(r, l) \in Session /\ Leave(r, l).on = {}
      /\ Leave(r, l).type = r.type /\ Leave(r, l).lc = r.lc
  BY <1>1, <1>2, LeaveFacts
<1>4. QED
  BY <1>1, <1>3, PickUpFits

\* esq_worker_notify_exit_to_all_sessions leaves the lists in order.
LEMMA NotifiedFits ==
  ASSUME AllFit(ss)
  PROVE  AllFit(Notified)
<1>1. ASSUME NEW s \in Sessions
      PROVE  Fit(IF s \in Listed THEN Dispatch(ss[s], Act("NOTIFY_EXIT")) ELSE ss[s])
  <2>1. Sane(Act("NOTIFY_EXIT")) /\ Act("NOTIFY_EXIT").type # "PICK_UP"
    BY SaneActions
  <2>2. Fit(ss[s])
    BY DEF AllFit
  <2>3. QED
    BY <2>1, <2>2, DispatchFits
<1>2. QED
  BY <1>1 DEF Notified, AllFit, Fit

\* A step that starts a session keeps all sessions fit.
LEMMA StartFits ==
  ASSUME AllFit(ss), NEW s \in Sessions, ss[s].type = "none",
         NEW kind, NEW fd \in {-1, 0, 1}, NEW tm \in Class
  PROVE  AllFit(Started(s, NewAction(kind, fd, tm)))
<1> DEFINE q == Malloced(ss[s])
           a == NewAction(kind, fd, tm)
           f == [ss EXCEPT ![s] = q]
<1>1. ss[s] \in Session /\ ss[s].on = {}
  BY DEF AllFit, Fit, Homes
<1>2. q \in Session /\ q.type = "new" /\ q.on = {}
  BY <1>1 DEF Malloced, Session
<1>3. Sane(a) /\ a.type # "PICK_UP"
  BY SaneActions DEF NewAction
<1>4. Started(s, a) = TakeAction(f, s, a)
  BY DEF Started
<1> HIDE DEF q, a
<1>5. Fit(q)
  BY <1>2 DEF Fit, Homes
<1>6. AllFit(f)
  BY <1>5, OneFits
<1> HIDE DEF f
<1>7. AllFit(TakeAction(f, s, a))
  BY <1>3, <1>6, TakeActionFits
<1>8. QED
  BY <1>4, <1>7 DEF a

\* The rest of the type invariant.
Scalars ==
  /\ wpc \in {"loop", "cb", "timing", "check", "exited", "halted"}
  /\ cur \in Sessions \cup {NoSession}
  /\ (wpc = "cb") => (cur \in Sessions)
  /\ interval \in Class
  /\ stopSession \in BOOLEAN /\ stopFlag \in BOOLEAN
  /\ owed \in [Sessions -> SUBSET Event]

\* The program starts with no session on any list.
LEMMA InitInv == Init => Inv
<1> SUFFICES ASSUME Init PROVE Inv
  OBVIOUS
<1>1. NoRecord \in Session /\ NoRecord.on = {} /\ NoRecord.type = "none"
  BY DEF NoRecord, Session, Label, Class
<1>2. NoRecord.on \in Homes(NoRecord)
  BY <1>1 DEF Homes
<1>3. ss \in [Sessions -> Session] /\ ListMatchesState
  BY <1>1, <1>2 DEF Init, ListMatchesState
<1>4. QED
  BY <1>3 DEF Init, Inv, TypeOK, Class

\* The calls a callback makes, and a start by the main thread.
LEMMA CallsFit ==
  ASSUME AllFit(ss), Scalars,
         \/ \E s \in Sessions, kind \in {"single", "multi"}, fd \in Fds, tm \in TimeClasses :
              StartRR(s, kind, fd, tm)
         \/ Callback
  PROVE  AllFit(ss') /\ Scalars'
<1>0. Fds \subseteq {-1, 0, 1} /\ TimeClasses \subseteq Class
  BY WorkerAssumption
<1>1. ASSUME NEW s \in Sessions, NEW kind \in {"single", "multi"}, NEW fd \in Fds,
             NEW tm \in TimeClasses, StartRR(s, kind, fd, tm)
      PROVE  AllFit(ss') /\ Scalars'
  <2> DEFINE f == Started(s, NewAction(kind, fd, tm))
  <2>1. AllFit(f)
    BY <1>0, <1>1, StartFits DEF StartRR
  <2>2. Sane(Act("WIND_UP_RR")) /\ Act("WIND_UP_RR").type # "PICK_UP"
    BY SaneActions
  <2>3. ss' = TakeAction(f, s, Act("WIND_UP_RR"))
    BY <1>1 DEF StartRR
  <2>4. Scalars'
    BY <1>1 DEF StartRR, Scalars
  <2> HIDE DEF f
  <2>5. QED
    BY <2>1, <2>2, <2>3, <2>4, TakeActionFits
<1>2. ASSUME NEW s \in Sessions, NEW kind \in {"single", "multi"}, NEW fd \in Fds,
             NEW tm \in TimeClasses, StartLocal(s, kind, fd, tm)
      PROVE  AllFit(ss') /\ Scalars'
  <2> DEFINE f == Started(s, NewAction(kind, fd, tm))
  <2>1. AllFit(f)
    BY <1>0, <1>2, StartFits DEF StartLocal
  <2>2. Sane(Act("WIND_UP")) /\ Act("WIND_UP").type # "PICK_UP"
    BY SaneActions
  <2>3. ss' = TakeAction(f, s, Act("WIND_UP"))
    BY <1>2 DEF StartLocal
  <2>4. Scalars'
    BY <1>2 DEF StartLocal, Scalars
  <2> HIDE DEF f
  <2>5. QED
    BY <2>1, <2>2, <2>3, <2>4, TakeActionFits
<1>3. ASSUME NEW s \in Sessions, NEW fd \in Fds, NEW tm \in TimeClasses, StartChild(s, fd, tm)
      PROVE  AllFit(ss') /\ Scalars'
  <2> DEFINE new    == Started(s, NewAction("single", fd, tm))
             bound  == TakeAction(new, s, SetParent(cur))
             linked == TakeAction(bound, cur, AddChild(s))
  <2>0. cur \in Sessions
    BY <1>3 DEF StartChild, InCallback, Scalars
  <2>1. AllFit(new)
    BY <1>0, <1>3, StartFits DEF StartChild
  <2>2. /\ Sane(SetParent(cur)) /\ SetParent(cur).type # "PICK_UP"
        /\ Sane(AddChild(s)) /\ AddChild(s).type # "PICK_UP"
        /\ Sane(Act("WIND_UP")) /\ Act("WIND_UP").type # "PICK_UP"
    BY <2>0, SaneActions
  <2>3. ss' = TakeAction(linked, s, Act("WIND_UP"))
    BY <1>3 DEF StartChild
  <2>4. Scalars'
    BY <1>3 DEF StartChild, Scalars
  <2> HIDE DEF new
  <2>5. AllFit(bound)
    BY <2>1, <2>2, TakeActionFits
  <2> HIDE DEF bound
  <2>6. AllFit(linked)
    BY <2>0, <2>2, <2>5, TakeActionFits
  <2> HIDE DEF linked
  <2>7. QED
    BY <2>2, <2>3, <2>4, <2>6, TakeActionFits
<1>4. ASSUME NEW fd \in Fds, NEW tm \in TimeClasses, WaitAgain(fd, tm)
      PROVE  AllFit(ss') /\ Scalars'
  <2>1. cur \in Sessions /\ Scalars'
    BY <1>4 DEF WaitAgain, InCallback, Scalars
  <2> DEFINE a == AddFd("ADD_SOCK_FD_SINGLE", fd, tm)
  <2>2. Sane(a) /\ a.type # "PICK_UP"
    BY <1>0, SaneActions
  <2>3. ss' = TakeAction(ss, cur, a)
    BY <1>4 DEF WaitAgain
  <2> HIDE DEF a
  <2>4. QED
    BY <2>1, <2>2, <2>3, TakeActionFits
<1>5. ASSUME NEW fd \in Fds, BecomeMulti(fd)
      PROVE  AllFit(ss') /\ Scalars'
  <2>1. cur \in Sessions /\ Scalars'
    BY <1>5 DEF BecomeMulti, InCallback, Scalars
  <2> DEFINE a == AddFd("ADD_SOCK_FD_MULTI", fd, "none")
  <2>2. Sane(a) /\ a.type # "PICK_UP"
    BY <1>0, SaneActions DEF Class
  <2>3. ss' = TakeAction(ss, cur, a)
    BY <1>5 DEF BecomeMulti
  <2> HIDE DEF a
  <2>4. QED
    BY <2>1, <2>2, <2>3, TakeActionFits
<1>6. ASSUME RemoveReq
      PROVE  AllFit(ss') /\ Scalars'
  <2>1. cur \in Sessions /\ Scalars' /\ ss' = TakeAction(ss, cur, Act("REMOVE_FD"))
    BY <1>6 DEF RemoveReq, InCallback, Scalars
  <2>2. Sane(Act("REMOVE_FD")) /\ Act("REMOVE_FD").type # "PICK_UP"
    BY SaneActions
  <2>3. QED
    BY <2>1, <2>2, TakeActionFits
<1>7. ASSUME DoneCbs
      PROVE  AllFit(ss') /\ Scalars'
  <2>1. Scalars'
    BY <1>7 DEF DoneCbs, Scalars
  <2>2. ASSUME NEW s \in Sessions
        PROVE  Fit(IF s = cur THEN NoneFinished(ss[s])
                   ELSE IF s \in ss[cur].fin THEN FreedAfterDoneCb(ss[s]) ELSE ss[s])
    <3> DEFINE r == ss[s]
               q == NoneFinished(r)
    <3>1. r \in Session /\ Fit(r)
      BY DEF AllFit
    <3> HIDE DEF r
    <3>2. q \in Session /\ q.on = r.on /\ q.type = r.type /\ q.lc = r.lc /\ q.tm = r.tm
      BY <3>1 DEF NoneFinished, Session
    <3> HIDE DEF q
    <3>3. Homes(q) = Homes(r)
      BY <3>2 DEF Homes
    <3>4. Fit(q)
      BY <3>1, <3>2, <3>3 DEF Fit
    <3>5. Fit(FreedAfterDoneCb(r))
      BY <3>1, FreedFits
    <3>6. QED
      BY <3>1, <3>4, <3>5 DEF q, r
  <2>3. ss' = [s \in Sessions |-> IF s = cur THEN NoneFinished(ss[s])
                   ELSE IF s \in ss[cur].fin THEN FreedAfterDoneCb(ss[s]) ELSE ss[s]]
    BY <1>7 DEF DoneCbs
  <2>4. QED
    BY <2>1, <2>2, <2>3 DEF AllFit, Fit
<1>8. QED
  BY <1>1, <1>2, <1>3, <1>4, <1>5, <1>6, <1>7 DEF Callback

\* The turns of esq_worker_loop.
LEMMA LoopFits ==
  ASSUME AllFit(ss), Scalars, Loop \/ Return
  PROVE  AllFit(ss') /\ Scalars'
<1>0. {"exit", "timeout", "task_done"} \cup FdEvents \subseteq Event
  BY DEF Event
<1>1. ASSUME NEW s \in Sessions, Execute(s)
      PROVE  AllFit(ss') /\ Scalars'
  <2> DEFINE f == TakeAction(ss, s, Act("EXECUTE_CB"))
  <2>1. Sane(Act("EXECUTE_CB")) /\ Act("EXECUTE_CB").type # "PICK_UP"
    BY SaneActions
  <2>2. AllFit(f)
    BY <2>1, TakeActionFits
  <2>3. Becomes(f, "cb") /\ cur' = s /\ owed' = [owed EXCEPT ![s] = {}]
        /\ UNCHANGED <<interval, stopSession, stopFlag>>
    BY <1>1 DEF Execute
  <2> HIDE DEF f
  <2>4. AllFit(ss') /\ wpc' \in {"cb", "halted"}
    BY <2>2, <2>3, BecomesFits
  <2>5. QED
    BY <2>3, <2>4 DEF Scalars
<1>2. ASSUME NEW s \in Sessions, PickUpLocal(s)
      PROVE  AllFit(ss') /\ Scalars'
  <2> DEFINE r == Dispatch(Leave(ss[s], "new"), Act("PICK_UP"))
             f == [ss EXCEPT ![s] = r]
  <2>1. Fit(ss[s]) /\ "new" \in ss[s].on
    BY <1>2 DEF PickUpLocal, AllFit
  <2>2. Fit(r)
    BY <2>1, NewIsAtCpu
  <2>3. Becomes(f, "loop") /\ interval' \in {Shortest(f), interval}
        /\ UNCHANGED <<cur, stopSession, stopFlag, owed>>
    BY <1>2 DEF PickUpLocal
  <2> HIDE DEF r
  <2>4. AllFit(f)
    BY <2>2, OneFits
  <2> HIDE DEF f
  <2>5. AllFit(ss') /\ wpc' \in {"loop", "halted"}
    BY <2>3, <2>4, BecomesFits
  <2>6. QED
    BY <2>3, <2>5, ShortestIsClass DEF Scalars
<1>3. ASSUME NEW s \in Sessions, Receive(s)
      PROVE  AllFit(ss') /\ Scalars'
  <2> DEFINE r    == ss[s]
             q    == Seen(r)
             what == Head(r.cq)
             act  == IF what = "canceled" THEN Act("NOTIFY_AIO_REMOVED") ELSE NotifyEvent({what})
             g    == [ss EXCEPT ![s] = q]
             f    == TakeAction(g, s, act)
  <2>1. r \in Session /\ Fit(r) /\ r.cq \in Seq(FdEvents \cup {"canceled"}) /\ r.cq # <<>>
    BY <1>3 DEF Receive, AllFit, Session
  <2>2. what \in FdEvents \cup {"canceled"} /\ Tail(r.cq) \in Seq(FdEvents \cup {"canceled"})
    BY <2>1
  <2>3. Becomes(f, "check") /\ interval' = Shortest(f)
        /\ owed' = (IF what = "canceled" THEN Owe(f, Parents(f), "task_done")
                     ELSE Owe(f, {s}, what))
        /\ UNCHANGED <<cur, stopSession, stopFlag>>
    BY <1>3 DEF Receive
  <2> HIDE DEF r
  <2>4. q \in Session /\ q.on = r.on /\ q.type = r.type /\ q.lc = r.lc /\ q.tm = r.tm
    BY <2>1, <2>2 DEF Seen, Session
  <2> HIDE DEF q, what
  <2>5. Homes(q) = Homes(r)
    BY <2>4 DEF Homes
  <2>6. Fit(q)
    BY <2>1, <2>4, <2>5 DEF Fit
  <2>7. AllFit(g)
    BY <2>6, OneFits
  <2>8. Sane(act) /\ act.type # "PICK_UP"
    <3>1. what # "canceled" => {what} \in SUBSET Event
      BY <1>0, <2>2
    <3>2. QED
      BY <3>1, SaneActions
  <2> HIDE DEF g, act
  <2>9. AllFit(f)
    BY <2>7, <2>8, TakeActionFits
  <2> HIDE DEF f
  <2>10. AllFit(ss') /\ wpc' \in {"check", "halted"}
    BY <2>3, <2>9, BecomesFits
  <2>11. owed' \in [Sessions -> SUBSET Event]
    <3>1. owed \in [Sessions -> SUBSET Event]
      BY DEF Scalars
    <3>2. what # "canceled" => what \in Event
      BY <1>0, <2>2
    <3>3. QED
      BY <1>0, <2>3, <3>1, <3>2, OweType
  <2>12. QED
    BY <2>3, <2>10, <2>11, ShortestIsClass DEF Scalars
<1>4. ASSUME PickUpGlobal
      PROVE  AllFit(ss') /\ Scalars'
  <2> DEFINE f == [s \in Sessions |->
                     IF s \in OnList("global_new")
                     THEN Dispatch(Leave(ss[s], "global_new"), Act("PICK_UP")) ELSE ss[s]]
  <2>1. ASSUME NEW s \in Sessions
        PROVE  Fit(f[s])
    <3>1. Fit(ss[s])
      BY DEF AllFit
    <3>2. CASE s \in OnList("global_new")
      <4>1. "global_new" \in ss[s].on /\ f[s] = Dispatch(Leave(ss[s], "global_new"), Act("PICK_UP"))
        BY <3>2 DEF OnList
      <4>2. QED
        BY <3>1, <4>1, NewIsAtCpu
    <3>3. CASE s \notin OnList("global_new")
      BY <3>1, <3>3
    <3>4. QED
      BY <3>2, <3>3
  <2>2. Becomes(f, "loop") /\ interval' \in {Shortest(f), interval}
        /\ UNCHANGED <<cur, stopSession, stopFlag, owed>>
    BY <1>4 DEF PickUpGlobal
  <2>3. f = [s \in Sessions |-> f[s]]
    OBVIOUS
  <2> HIDE DEF f
  <2>4. AllFit(f)
    BY <2>1, <2>3 DEF AllFit, Fit
  <2>5. AllFit(ss') /\ wpc' \in {"loop", "halted"}
    BY <2>2, <2>4, BecomesFits
  <2>6. QED
    BY <2>2, <2>5, ShortestIsClass DEF Scalars
<1>5. ASSUME StopSessions
      PROVE  AllFit(ss') /\ Scalars'
  <2>1. Becomes(Notified, "loop") /\ owed' = Owe(Notified, Listed, "exit") /\ stopSession' = FALSE
        /\ UNCHANGED <<cur, interval, stopFlag>>
    BY <1>5 DEF StopSessions
  <2>2. AllFit(ss') /\ wpc' \in {"loop", "halted"}
    BY <2>1, NotifiedFits, BecomesFits
  <2>3. owed' \in [Sessions -> SUBSET Event]
    BY <1>0, <2>1, OweType DEF Scalars
  <2>4. QED
    BY <2>1, <2>2, <2>3 DEF Scalars
<1>6. ASSUME NEW late \in SUBSET Sessions, Timing(late)
      PROVE  AllFit(ss') /\ Scalars'
  <2> DEFINE f == [s \in Sessions |-> IF s \in late THEN Dispatch(ss[s], Act("NOTIFY_TIMEOUT"))
                                      ELSE ss[s]]
  <2>1. ASSUME NEW s \in Sessions
        PROVE  Fit(f[s])
    <3>1. Fit(ss[s])
      BY DEF AllFit
    <3>2. Sane(Act("NOTIFY_TIMEOUT")) /\ Act("NOTIFY_TIMEOUT").type # "PICK_UP"
      BY SaneActions
    <3>3. QED
      BY <3>1, <3>2, DispatchFits
  <2>2. Becomes(f, "check") /\ interval' = Shortest(f) /\ owed' = Owe(f, late, "timeout")
        /\ UNCHANGED <<cur, stopSession, stopFlag>>
    BY <1>6 DEF Timing
  <2>3. f = [s \in Sessions |-> f[s]]
    OBVIOUS
  <2> HIDE DEF f
  <2>4. AllFit(f)
    BY <2>1, <2>3 DEF AllFit, Fit
  <2>5. AllFit(ss') /\ wpc' \in {"check", "halted"}
    BY <2>2, <2>4, BecomesFits
  <2>6. owed' \in [Sessions -> SUBSET Event]
    BY <1>0, <2>2, OweType DEF Scalars
  <2>7. QED
    BY <2>2, <2>5, <2>6, ShortestIsClass DEF Scalars
<1>7. ASSUME Check
      PROVE  AllFit(ss') /\ Scalars'
  <2>1. CASE wpc' \in {"loop", "exited"} /\ UNCHANGED <<ss, why, owed>>
    BY <1>7, <2>1 DEF Check, Scalars
  <2>2. CASE Becomes(Notified, "loop") /\ owed' = Owe(Notified, Listed, "exit")
    <3>1. AllFit(ss') /\ wpc' \in {"loop", "halted"}
      BY <2>2, NotifiedFits, BecomesFits
    <3>2. owed' \in [Sessions -> SUBSET Event]
      BY <1>0, <2>2, OweType DEF Scalars
    <3>3. QED
      BY <1>7, <3>1, <3>2 DEF Check, Scalars
  <2>3. QED
    BY <1>7, <2>1, <2>2 DEF Check
<1>8. ASSUME Return
      PROVE  AllFit(ss') /\ Scalars'
  <2> DEFINE f == TakeAction(ss, cur, Act("WIND_UP"))
  <2>1. cur \in Sessions
    BY <1>8 DEF Return, Scalars
  <2>2. Sane(Act("WIND_UP")) /\ Act("WIND_UP").type # "PICK_UP"
    BY SaneActions
  <2>3. AllFit(f)
    BY <2>1, <2>2, TakeActionFits
  <2>4. Becomes(f, "loop") /\ interval' \in {Shortest(f), interval} /\ cur' = NoSession
        /\ owed' = Owe(f, Parents(f), "task_done") /\ UNCHANGED <<stopSession, stopFlag>>
    BY <1>8 DEF Return
  <2> HIDE DEF f
  <2>5. AllFit(ss') /\ wpc' \in {"loop", "halted"}
    BY <2>3, <2>4, BecomesFits
  <2>6. owed' \in [Sessions -> SUBSET Event]
    BY <1>0, <2>4, OweType DEF Scalars
  <2>7. QED
    BY <2>4, <2>5, <2>6, ShortestIsClass DEF Scalars
<1>9. QED
  BY <1>1, <1>2, <1>3, <1>4, <1>5, <1>6, <1>7, <1>8 DEF Loop

\* The kernel and the main thread.
LEMMA OthersFit ==
  ASSUME AllFit(ss), Scalars,
         \/ Interrupted \/ WaitTimedOut \/ RequestSessionsExit \/ StopServer
         \/ \E s \in Sessions, e \in FdEvents : Fire(s, e)
  PROVE  AllFit(ss') /\ Scalars'
<1>1. ASSUME NEW s \in Sessions, NEW e \in FdEvents, Fire(s, e)
      PROVE  AllFit(ss') /\ Scalars'
  <2> DEFINE r == ss[s]
             q == Fired(r, e)
  <2>1. r \in Session /\ Fit(r) /\ r.cq \in Seq(FdEvents \cup {"canceled"})
    BY DEF AllFit, Session
  <2>2. Append(r.cq, e) \in Seq(FdEvents \cup {"canceled"})
    BY <2>1
  <2>3. ss' = [ss EXCEPT ![s] = q] /\ Scalars'
    BY <1>1 DEF Fire, Scalars
  <2> HIDE DEF r
  <2>4. q \in Session /\ q.on = r.on /\ q.type = r.type /\ q.lc = r.lc /\ q.tm = r.tm
    BY <2>1, <2>2 DEF Fired, Session
  <2> HIDE DEF q
  <2>5. Homes(q) = Homes(r)
    BY <2>4 DEF Homes
  <2>6. Fit(q)
    BY <2>1, <2>4, <2>5 DEF Fit
  <2>7. QED
    BY <2>3, <2>6, OneFits
<1>2. ASSUME Interrupted \/ WaitTimedOut
      PROVE  AllFit(ss') /\ Scalars'
  BY <1>2 DEF Interrupted, WaitTimedOut, Scalars
<1>3. ASSUME RequestSessionsExit \/ StopServer
      PROVE  AllFit(ss') /\ Scalars'
  BY <1>3 DEF RequestSessionsExit, StopServer, Scalars
<1>4. QED
  BY <1>1, <1>2, <1>3

\* Every step of the worker, its callbacks, the kernel and the main thread
\* keeps the invariant.
LEMMA NextInv == Inv /\ [Next]_vars => Inv'
<1> SUFFICES ASSUME Inv, [Next]_vars PROVE Inv'
  OBVIOUS
<1>1. AllFit(ss) /\ Scalars
  BY InvAllFit DEF Inv, TypeOK, Scalars
<1>2. AllFit(ss') /\ Scalars'
  <2>1. CASE UNCHANGED vars
    BY <1>1, <2>1 DEF vars, Scalars
  <2>2. CASE Next
    BY <1>1, <2>2, CallsFit, LoopFits, OthersFit DEF Next
  <2>3. QED
    BY <2>1, <2>2
<1>3. TypeOK'
  BY <1>2 DEF TypeOK, AllFit, Scalars
<1>4. ListMatchesState'
  BY <1>2 DEF ListMatchesState, AllFit, Fit
<1>5. QED
  BY <1>3, <1>4 DEF Inv

\* The type invariant of the worker, for any number of sessions.
THEOREM TypeCorrect == Spec => []TypeOK
<1>1. Inv => TypeOK
  BY DEF Inv
<1>2. QED
  BY <1>1, InitInv, NextInv, PTL DEF Spec

\* The memory safety of the worker's lists, for any number of sessions: a
\* session has one pair of links, and is always on the one list its label
\* says, whatever the order of completions, timeouts, exits and callbacks.
THEOREM ListsStayIntact == Spec => []ListMatchesState
<1>1. Inv => ListMatchesState
  BY DEF Inv
<1>2. QED
  BY <1>1, InitInv, NextInv, PTL DEF Spec

-----------------------------------------------------------------------------
(* Families, polls and races. *)

Kinds == {"single", "multi"}

\* Where a session is while nobody calls it.
AtRest == {"wait_for_cpu", "winded_up", "wait_for_removed_then_active", "active",
           "wait_for_removed"}

\* Type and label of the session whose callback runs.
InCb == {<<"single", "execute_cb">>, <<"single", "wait_for_reinstall">>, <<"multi", "initial">>,
         <<"multi", "execute_cb">>, <<"multi", "wait_for_removed_and_wind_up">>}

\* The session is on the finished list of its parent.
Finished(f, x) == \E p \in Sessions : x \in f[p].fin

-----------------------------------------------------------------------------
(* The inductive invariants. *)

\* A session by itself: nothing is asked of the chassis, and its done callback
\* was called if it is freed and had a parent.
Decent(r) ==
  /\ r.pop = "no" /\ r.type # "new"
  /\ r.type = "none" => ~r.bundled
  /\ r.dones = IF r.type = "freed" /\ r.bundled THEN 1 ELSE 0

\* Parents and children.  A finished child has no children itself and is where
\* it ended.
Kin(f) ==
  \A s \in Sessions :
    /\ \A c \in f[s].kids \cup f[s].fin : f[c].type \in Kinds /\ f[c].bundled /\ f[c].parent = s
    /\ f[s].parent # NoSession => s \in f[f[s].parent].kids \cup f[f[s].parent].fin
    /\ f[s].parent # s
    /\ f[s].kids \cap f[s].fin = {}
    /\ f[s].kids \cup f[s].fin # {} => f[s].type \in Kinds
    /\ \A c \in f[s].fin : f[c].kids = {} /\ f[c].fin = {} /\ f[c].lc \in {"die", "execute_cb"}

\* Every session but c, and those that are finished, rests.
Placed(f, c) ==
  \A s \in Sessions : f[s].type \in Kinds /\ s # c /\ ~Finished(f, s) => f[s].lc \in AtRest

Related(f) == AllFit(f) /\ (\A s \in Sessions : Decent(f[s])) /\ Kin(f)

FamilyInv ==
  /\ Scalars /\ Related(ss)
  /\ wpc = "cb" => ~Finished(ss, cur) /\ <<ss[cur].type, ss[cur].lc>> \in InCb
  /\ wpc # "halted" => Placed(ss, IF wpc = "cb" THEN cur ELSE NoSession)
  /\ wpc \in {"timing", "check"} => OnList("new") = {}
  /\ ExitLeavesNothing

\* What the kernel has of a session.
Quiet(r) == r.poll = "no" /\ r.cq = <<>>
Events(q) == \A i \in 1 .. Len(q) : q[i] \in FdEvents
Removing(q) == q # <<>> /\ q[Len(q)] = "canceled" /\ \A i \in 1 .. Len(q) - 1 : q[i] \in FdEvents

\* A session that waits for one event has one poll, or its completion.
SingleWatched(r) ==
  /\ r.lc \in {"initial", "wait_for_cpu", "winded_up", "wait_for_removed_then_active", "active",
               "execute_cb", "wait_for_reinstall", "die"}
  /\ r.lc \notin {"winded_up", "wait_for_removed_then_active"} => Quiet(r)
  /\ r.lc = "winded_up" /\ r.fd <= 0 => Quiet(r)
  /\ r.lc = "winded_up" /\ r.fd > 0 =>
       \/ r.poll = "one" /\ r.cq = <<>>
       \/ r.poll = "no" /\ Len(r.cq) = 1 /\ Events(r.cq)
  /\ r.lc = "wait_for_removed_then_active" => r.poll = "no" /\ Len(r.cq) = 1 /\ r.tm = "none"
  /\ r.lc \in {"initial", "wait_for_cpu"} => r.kids = {} /\ r.fin = {}
  /\ r.lc \in {"wait_for_reinstall", "winded_up"} /\ r.fd > 0 => r.kids = {} /\ r.fin = {}

\* A session that waits for many keeps its poll until it has it removed; the
\* confirmation of the removal is the last completion.
MultiWatched(r) ==
  /\ r.tm = "none"
  /\ r.lc \in {"initial", "wait_for_cpu", "winded_up", "active", "execute_cb",
               "wait_for_removed_and_wind_up", "wait_for_removed", "die"}
  /\ r.lc \in {"initial", "wait_for_cpu", "die"} => Quiet(r)
  /\ r.lc \in {"winded_up", "active", "execute_cb"} =>
       IF r.fd > 0 THEN r.poll = "multi" /\ Events(r.cq) ELSE Quiet(r)
  /\ r.lc \in {"wait_for_removed_and_wind_up", "wait_for_removed"} =>
       r.poll = "no" /\ Removing(r.cq)

Watched(r) ==
  CASE r.type = "single" -> SingleWatched(r)
    [] r.type = "multi"  -> MultiWatched(r)
    [] OTHER -> Quiet(r) /\ r.lc = "initial"

\* Nothing of the kernel refers to a finished session.
Settled(f) == \A s \in Sessions : IF Finished(f, s) THEN Quiet(f[s]) ELSE Watched(f[s])

\* The interval of the wait covers every timed list that is not empty.
Polled(f, i) ==
  \A s \in Sessions, c \in Timed : c \in f[s].on => i # "none" /\ WaitMax[i] <= WaitMax[c]

PollInv ==
  /\ FamilyInv /\ Settled(ss)
  /\ wpc # "halted" => Polled(ss, interval)
  /\ InvalidOnlyByRace

-----------------------------------------------------------------------------
(* What each action does to one session. *)

\* Everything but label, links and event bits is as before.
Same(q, r) ==
  /\ SameKin(q, r)
  /\ q.type = r.type /\ q.fd = r.fd /\ q.tm = r.tm /\ q.poll = r.poll /\ q.cq = r.cq
  /\ q.pop = r.pop

\* The labels that take an event, and those that take the notice of the exit.
Hears(r) ==
  r.lc \in {"winded_up", "active", "execute_cb"} \/ (r.type = "single" /\ r.lc = "wait_for_reinstall")
Obeys(r) ==
  \/ r.lc \in {"winded_up", "active", "execute_cb"}
  \/ r.type = "single" /\ r.lc \in {"wait_for_reinstall", "wait_for_removed_then_active"}
  \/ r.type = "multi" /\ r.lc \in {"wait_for_removed", "wait_for_wind_up"}

\* A session that waits becomes active, any other stays where it is.
Woken(q, r) == Same(q, r) /\ q.lc = IF r.lc = "winded_up" THEN "active" ELSE r.lc

\* A session that has its poll removed.
Unpolled(q, r) ==
  /\ SameKin(q, r) /\ q.type = r.type /\ q.pop = r.pop
  /\ q.fd = 0 /\ q.poll = (IF r.poll = "two" THEN "one" ELSE "no")
  /\ q.cq = IF r.poll = "no" THEN r.cq ELSE Append(r.cq, "canceled")

\* A session that waits is on the list of its timeout.
LEMMA WaitsOnList ==
  ASSUME NEW r, Fit(r), r.type \in Kinds,
         r.lc \in {"winded_up", "wait_for_removed_then_active", "wait_for_removed",
                   "wait_for_removed_and_wind_up", "wait_for_wind_up"}
  PROVE  r \in Session /\ r.on = {r.tm}
BY DEF Fit, Homes, Kinds

\* An invalid action changes nothing but what is asked of the chassis.
LEMMA InvalidAsks ==
  ASSUME NEW r \in Session
  PROVE  InvalidAction(r).pop = "exit"
BY AskFacts DEF InvalidAction

\* NOTIFY_EVENT
LEMMA EventStep ==
  ASSUME NEW r, Fit(r), r.type \in Kinds, NEW b \in SUBSET Event
  PROVE  LET q == Dispatch(r, NotifyEvent(b))
         IN  IF Hears(r) THEN Woken(q, r) ELSE q.pop = "exit"
<1> DEFINE a == NotifyEvent(b)
           q == Dispatch(r, a)
           n == AddBits(r, b)
           m == AddBits2(r, b)
<1>0. r \in Session /\ r.lc \in Label
  BY DEF Fit, Session
<1>1. a.type = "NOTIFY_EVENT" /\ a.bits = b
  BY DEF NotifyEvent
<1>2. n \in Session /\ Same(n, r) /\ n.lc = r.lc /\ n.on = r.on
  BY <1>0, AddBitsFacts DEF Same
<1>3. m \in Session /\ Same(m, r) /\ m.lc = r.lc /\ m.on = r.on
  BY <1>0, AddBits2Facts DEF Same
<1> HIDE DEF a
<1>4. CASE ~Hears(r)
  <2>1. q = InvalidAction(r)
    BY <1>1, <1>4 DEF Hears, Kinds, Dispatch, PtSingle, PtMulti, SingleInitial, SingleWaitForCpu,
       SingleWaitForRemoved, MultiInitial, MultiWaitForCpu, MultiWaitForRemovedAndWindUp,
       MultiWaitForRemoved, MultiWaitForWindUp
  <2>2. QED
    BY <1>0, <1>4, <2>1, InvalidAsks DEF a
<1>5. CASE r.lc = "winded_up"
  <2>1. r.on = {r.tm}
    BY <1>5, WaitsOnList
  <2>2. q = Wake(n)
    BY <1>1, <1>5 DEF Kinds, Dispatch, PtSingle, PtMulti, SingleWindedUp, MultiWindedUp
  <2> HIDE DEF n, q
  <2>3. n.on = {n.tm}
    BY <1>2, <2>1 DEF Same
  <2>4. Same(q, n) /\ q.lc = "active"
    BY <1>2, <2>2, <2>3, WakeFacts DEF Same
  <2>5. Woken(q, r)
    BY <1>2, <1>5, <2>4 DEF Woken, Same, SameKin
  <2>6. QED
    BY <1>5, <2>5 DEF Hears, q, a
<1>6. CASE Hears(r) /\ r.lc # "winded_up"
  <2>1. q = n \/ q = m
    BY <1>1, <1>6 DEF Hears, Kinds, Dispatch, PtSingle, PtMulti, SingleActive, SingleExecuteCb,
       SingleWaitForReinstall, MultiActive, MultiExecuteCb
  <2> HIDE DEF n, m, q
  <2>2. Woken(q, r)
    BY <1>2, <1>3, <1>6, <2>1 DEF Woken
  <2>3. QED
    BY <1>6, <2>2 DEF q, a
<1>7. QED
  BY <1>4, <1>5, <1>6 DEF Hears

\* __remove_fd_then_active
LEMMA RemoveStep ==
  ASSUME NEW r \in Session, r.on = {r.tm}, r.type = "single", r.lc = "winded_up"
  PROVE  LET q == SingleRemoveThenActive(r)
         IN  IF r.fd > 0
             THEN Unpolled(q, r) /\ q.lc = "wait_for_removed_then_active" /\ q.tm = "none"
             ELSE Woken(q, r)
<1>1. CASE r.fd > 0
  <2> DEFINE p == RemovePoll(r)
             n == [p EXCEPT !.fd = 0]
             c == ChangeToNoTiming(n)
             q == SingleRemoveThenActive(r)
  <2>1. /\ p \in Session /\ p.on = {p.tm} /\ SameKin(p, r) /\ p.type = r.type /\ p.pop = r.pop
        /\ p.poll = (IF r.poll = "two" THEN "one" ELSE "no")
        /\ p.cq = IF r.poll = "no" THEN r.cq ELSE Append(r.cq, "canceled")
    BY RemovePollFacts
  <2> HIDE DEF p
  <2>2. /\ n \in Session /\ n.on = {n.tm} /\ SameKin(n, p) /\ n.type = p.type /\ n.pop = p.pop
        /\ n.poll = p.poll /\ n.cq = p.cq /\ n.fd = 0
    BY <2>1, SetFdFacts
  <2>3. q = Goto(c, "wait_for_removed_then_active")
    BY <1>1 DEF SingleRemoveThenActive, p
  <2> HIDE DEF n, q
  <2>4. /\ c \in Session /\ SameKin(c, n) /\ c.type = n.type /\ c.pop = n.pop
        /\ c.poll = n.poll /\ c.cq = n.cq /\ c.fd = 0 /\ c.tm = "none"
    BY <2>2, ChangeFacts
  <2> HIDE DEF c
  <2>5. "wait_for_removed_then_active" \in Label
    BY DEF Label
  <2>6. /\ q.lc = "wait_for_removed_then_active" /\ SameKin(q, c) /\ q.type = c.type
        /\ q.pop = c.pop /\ q.poll = c.poll /\ q.cq = c.cq /\ q.fd = c.fd /\ q.tm = c.tm
    BY <2>3, <2>4, <2>5, GotoFacts
  <2>7. SameKin(q, r)
    BY <2>1, <2>2, <2>4, <2>6 DEF SameKin
  <2>8. Unpolled(q, r)
    BY <2>1, <2>2, <2>4, <2>6, <2>7 DEF Unpolled
  <2>9. QED
    BY <1>1, <2>4, <2>6, <2>8 DEF q
<1>2. CASE ~(r.fd > 0)
  <2>1. SingleRemoveThenActive(r) = Wake(r)
    BY <1>2 DEF SingleRemoveThenActive
  <2>2. QED
    BY <1>2, <2>1, WakeFacts DEF Woken, Same
<1>3. QED
  BY <1>1, <1>2

\* What NOTIFY_EXIT and NOTIFY_TIMEOUT make of a session that takes them.
Roused(q, r) ==
  IF r.type = "single" /\ r.lc = "winded_up" /\ r.fd > 0
  THEN Unpolled(q, r) /\ q.lc = "wait_for_removed_then_active" /\ q.tm = "none"
  ELSE Woken(q, r)

\* NOTIFY_EXIT
LEMMA ExitStep ==
  ASSUME NEW r, Fit(r), r.type \in Kinds
  PROVE  LET q == Dispatch(r, Act("NOTIFY_EXIT"))
         IN  IF Obeys(r) THEN Roused(q, r) ELSE q.pop = "exit"
<1> DEFINE a == Act("NOTIFY_EXIT")
           q == Dispatch(r, a)
           n == AddBits(r, {"exit"})
           m == AddBits2(r, {"exit"})
<1>0. r \in Session /\ r.lc \in Label /\ {"exit"} \in SUBSET Event
  BY DEF Fit, Session, Event
<1>1. a.type = "NOTIFY_EXIT"
  BY DEF Act
<1>2. n \in Session /\ Same(n, r) /\ n.lc = r.lc /\ n.on = r.on
  BY <1>0, AddBitsFacts DEF Same
<1>3. m \in Session /\ Same(m, r) /\ m.lc = r.lc /\ m.on = r.on
  BY <1>0, AddBits2Facts DEF Same
<1> HIDE DEF a
<1>4. CASE ~Obeys(r)
  <2>1. q = InvalidAction(r)
    BY <1>1, <1>4 DEF Obeys, Kinds, Dispatch, PtSingle, PtMulti, SingleInitial, SingleWaitForCpu,
       MultiInitial, MultiWaitForCpu, MultiWaitForRemovedAndWindUp
  <2>2. QED
    BY <1>0, <1>4, <2>1, InvalidAsks DEF a
<1>5. CASE r.lc = "winded_up" /\ r.type = "multi"
  <2>1. r.on = {r.tm}
    BY <1>5, WaitsOnList
  <2>2. q = Wake(n)
    BY <1>1, <1>5 DEF Dispatch, PtMulti, MultiWindedUp
  <2> HIDE DEF n, q
  <2>3. n.on = {n.tm}
    BY <1>2, <2>1 DEF Same
  <2>4. Same(q, n) /\ q.lc = "active"
    BY <1>2, <2>2, <2>3, WakeFacts DEF Same
  <2>5. Woken(q, r)
    BY <1>2, <1>5, <2>4 DEF Woken, Same, SameKin
  <2>6. QED
    BY <1>5, <2>5 DEF Obeys, Roused, q, a
<1>6. CASE r.lc = "winded_up" /\ r.type = "single"
  <2>1. r.on = {r.tm}
    BY <1>6, WaitsOnList
  <2>2. q = SingleRemoveThenActive(n)
    BY <1>1, <1>6 DEF Dispatch, PtSingle, SingleWindedUp
  <2> HIDE DEF n, q
  <2>3. n.on = {n.tm} /\ n.type = "single" /\ n.lc = "winded_up" /\ n.fd = r.fd
    BY <1>2, <1>6, <2>1 DEF Same
  <2>4. IF n.fd > 0
        THEN Unpolled(q, n) /\ q.lc = "wait_for_removed_then_active" /\ q.tm = "none"
        ELSE Woken(q, n)
    BY <1>2, <2>2, <2>3, RemoveStep
  <2>5. Unpolled(q, n) => Unpolled(q, r)
    BY <1>2 DEF Unpolled, Same, SameKin
  <2>6. Woken(q, n) => Woken(q, r)
    BY <1>2 DEF Woken, Same, SameKin
  <2>7. Roused(q, r)
    BY <1>6, <2>3, <2>4, <2>5, <2>6 DEF Roused
  <2>8. QED
    BY <1>6, <2>7 DEF Obeys, q, a
<1>7. CASE Obeys(r) /\ r.lc # "winded_up"
  <2>1. q = n \/ q = m \/ q = r
    BY <1>1, <1>7 DEF Obeys, Kinds, Dispatch, PtSingle, PtMulti, SingleActive, SingleExecuteCb,
       SingleWaitForReinstall, SingleWaitForRemoved, MultiActive, MultiExecuteCb,
       MultiWaitForRemoved, MultiWaitForWindUp
  <2>2. Same(r, r)
    BY DEF Same, SameKin
  <2> HIDE DEF n, m, q
  <2>3. Woken(q, r)
    BY <1>2, <1>3, <1>7, <2>1, <2>2 DEF Woken
  <2>4. QED
    BY <1>7, <2>3 DEF Roused, q, a
<1>8. QED
  BY <1>4, <1>5, <1>6, <1>7 DEF Obeys, Kinds

\* NOTIFY_TIMEOUT
LEMMA TimeoutStep ==
  ASSUME NEW r, Fit(r), r.type \in Kinds
  PROVE  LET q == Dispatch(r, Act("NOTIFY_TIMEOUT"))
         IN  IF r.type = "single" /\ r.lc = "winded_up" THEN Roused(q, r) ELSE q.pop = "exit"
<1> DEFINE a == Act("NOTIFY_TIMEOUT")
           q == Dispatch(r, a)
           n == AddBits(r, {"timeout"})
<1>0. r \in Session /\ r.lc \in Label /\ {"timeout"} \in SUBSET Event
  BY DEF Fit, Session, Event
<1>1. a.type = "NOTIFY_TIMEOUT"
  BY DEF Act
<1>2. n \in Session /\ Same(n, r) /\ n.lc = r.lc /\ n.on = r.on
  BY <1>0, AddBitsFacts DEF Same
<1> HIDE DEF a
<1>4. CASE ~(r.type = "single" /\ r.lc = "winded_up")
  <2>1. q = InvalidAction(r)
    BY <1>1, <1>4 DEF Kinds, Dispatch, PtSingle, PtMulti, SingleInitial, SingleWaitForCpu,
       SingleWaitForRemoved, SingleActive, SingleExecuteCb, SingleWaitForReinstall,
       MultiInitial, MultiWaitForCpu, MultiWaitForRemovedAndWindUp, MultiWindedUp, MultiActive,
       MultiExecuteCb, MultiWaitForRemoved, MultiWaitForWindUp
  <2>2. QED
    BY <1>0, <1>4, <2>1, InvalidAsks DEF a
<1>6. CASE r.lc = "winded_up" /\ r.type = "single"
  <2>1. r.on = {r.tm}
    BY <1>6, WaitsOnList
  <2>2. q = SingleRemoveThenActive(n)
    BY <1>1, <1>6 DEF Dispatch, PtSingle, SingleWindedUp
  <2> HIDE DEF n, q
  <2>3. n.on = {n.tm} /\ n.type = "single" /\ n.lc = "winded_up" /\ n.fd = r.fd
    BY <1>2, <1>6, <2>1 DEF Same
  <2>4. IF n.fd > 0
        THEN Unpolled(q, n) /\ q.lc = "wait_for_removed_then_active" /\ q.tm = "none"
        ELSE Woken(q, n)
    BY <1>2, <2>2, <2>3, RemoveStep
  <2>5. Unpolled(q, n) => Unpolled(q, r)
    BY <1>2 DEF Unpolled, Same, SameKin
  <2>6. Woken(q, n) => Woken(q, r)
    BY <1>2 DEF Woken, Same, SameKin
  <2>7. Roused(q, r)
    BY <1>6, <2>3, <2>4, <2>5, <2>6 DEF Roused
  <2>8. QED
    BY <1>6, <2>7 DEF q, a
<1>8. QED
  BY <1>4, <1>6

\* A session that asks to be freed, at the label l.
Dying(q, r, l) ==
  /\ SameKin(q, r) /\ q.type = r.type /\ q.fd = r.fd /\ q.poll = r.poll /\ q.cq = r.cq
  /\ q.pop = "free" /\ q.lc = l

\* The end of a multi shot session.
LEMMA DieStep ==
  ASSUME NEW r \in Session, r.on = {r.tm}
  PROVE  Dying(Ask(Goto(LeaveTiming(r), "die"), "free"), r, "die")
<1> DEFINE n == LeaveTiming(r)
           m == Goto(n, "die")
           q == Ask(m, "free")
<1>1. n \in Session /\ Same(n, r)
  BY LeaveTimingFacts DEF Same
<1> HIDE DEF n
<1>2. "die" \in Label
  BY DEF Label
<1>3. m \in Session /\ Same(m, n) /\ m.lc = "die"
  BY <1>1, <1>2, GotoFacts DEF Same
<1> HIDE DEF m
<1>4. Dying(q, m, "die")
  BY <1>3, AskFacts DEF Dying
<1> HIDE DEF q
<1>5. Dying(q, r, "die")
  BY <1>1, <1>3, <1>4 DEF Dying, Same, SameKin
<1>6. QED
  BY <1>5 DEF q, m, n

\* NOTIFY_AIO_REMOVED
LEMMA RemovedStep ==
  ASSUME NEW r, Fit(r), r.type \in Kinds
  PROVE  LET q == Dispatch(r, Act("NOTIFY_AIO_REMOVED"))
         IN  \/ r.type = "single" /\ r.lc = "wait_for_removed_then_active"
                /\ Same(q, r) /\ q.lc = "active"
             \/ r.type = "multi" /\ r.lc = "wait_for_removed" /\ Dying(q, r, "die")
             \/ r.type = "multi" /\ r.lc = "wait_for_removed_and_wind_up"
             \/ /\ <<r.type, r.lc>> # <<"single", "wait_for_removed_then_active">>
                /\ <<r.type, r.lc>> # <<"multi", "wait_for_removed">>
                /\ q.pop = "exit"
<1> DEFINE a == Act("NOTIFY_AIO_REMOVED")
           q == Dispatch(r, a)
<1>0. r \in Session /\ r.lc \in Label
  BY DEF Fit, Session
<1>1. a.type = "NOTIFY_AIO_REMOVED"
  BY DEF Act
<1> HIDE DEF a
<1>2. CASE r.type = "single" /\ r.lc = "wait_for_removed_then_active"
  <2>1. r.on = {r.tm}
    BY <1>2, WaitsOnList
  <2>2. q = Wake(r)
    BY <1>1, <1>2 DEF Dispatch, PtSingle, SingleWaitForRemoved
  <2>3. Same(q, r) /\ q.lc = "active"
    BY <1>0, <2>1, <2>2, WakeFacts DEF Same
  <2>4. QED
    BY <1>2, <2>3 DEF a
<1>3. CASE r.type = "multi" /\ r.lc = "wait_for_removed"
  <2>1. r.on = {r.tm}
    BY <1>3, WaitsOnList
  <2>2. q = Ask(Goto(LeaveTiming(r), "die"), "free")
    BY <1>1, <1>3 DEF Dispatch, PtMulti, MultiWaitForRemoved
  <2>3. Dying(q, r, "die")
    BY <1>0, <2>1, <2>2, DieStep
  <2>4. QED
    BY <1>3, <2>3 DEF a
<1>4. CASE r.type = "multi" /\ r.lc = "wait_for_removed_and_wind_up"
  BY <1>4
<1>5. CASE /\ ~(r.type = "single" /\ r.lc = "wait_for_removed_then_active")
           /\ ~(r.type = "multi" /\ r.lc \in {"wait_for_removed", "wait_for_removed_and_wind_up"})
  <2>1. q = InvalidAction(r)
    BY <1>1, <1>5 DEF Kinds, Dispatch, PtSingle, PtMulti, SingleInitial, SingleWaitForCpu,
       SingleWindedUp, SingleActive, SingleExecuteCb, SingleWaitForReinstall,
       MultiInitial, MultiWaitForCpu, MultiWindedUp, MultiActive, MultiExecuteCb, MultiWaitForWindUp
  <2>2. q.pop = "exit"
    BY <1>0, <2>1, InvalidAsks
  <2>3. QED
    BY <1>5, <2>2 DEF a
<1>6. QED
  BY <1>2, <1>3, <1>4, <1>5

\* EXECUTE_CB, for a session of the active list.
LEMMA ExecuteStep ==
  ASSUME NEW r, Fit(r), "active" \in r.on
  PROVE  LET q == Dispatch(r, Act("EXECUTE_CB"))
         IN  r.type \in Kinds /\ r.lc = "active" /\ Same(q, r) /\ q.lc = "execute_cb"
<1> DEFINE a == Act("EXECUTE_CB")
           q == Dispatch(r, a)
           n == Leave(r, "active")
           m == [n EXCEPT !.bits2 = {}]
<1>0. r \in Session /\ r.type \in Kinds /\ r.lc = "active"
  BY DEF Fit, Homes, Session, Class, Kinds
<1>1. a.type = "EXECUTE_CB"
  BY DEF Act
<1>2. "active" \in ListName /\ "execute_cb" \in Label
  BY DEF ListName, Label
<1>3. n \in Session /\ Same(n, r)
  BY <1>0, <1>2, LeaveFacts DEF Same
<1> HIDE DEF a, n
<1>4. m \in Session /\ Same(m, n)
  BY <1>3 DEF Session, Same, SameKin
<1>5. q = Goto(n, "execute_cb") \/ q = Goto(m, "execute_cb")
  BY <1>0, <1>1 DEF Kinds, Dispatch, PtSingle, PtMulti, SingleActive, MultiActive, n
<1> HIDE DEF m, q
<1>6. q.lc = "execute_cb" /\ (Same(q, n) \/ Same(q, m))
  BY <1>2, <1>3, <1>4, <1>5, GotoFacts DEF Same
<1>7. Same(q, r)
  BY <1>3, <1>4, <1>6 DEF Same, SameKin
<1>8. QED
  BY <1>0, <1>6, <1>7 DEF q, a

\* A session that begins to wait, with a poll of kind k.
Installed(q, r, k) ==
  /\ SameKin(q, r) /\ q.type = r.type /\ q.fd = r.fd /\ q.tm = r.tm /\ q.cq = r.cq /\ q.pop = r.pop
  /\ q.poll = (IF r.fd > 0 THEN IF r.poll = "no" THEN k ELSE "two" ELSE r.poll)
  /\ q.lc = "winded_up" /\ q.on = {q.tm}

\* __install_fd
LEMMA InstallStep ==
  ASSUME NEW r \in Session, r.on = {}, NEW k \in {"one", "multi"}
  PROVE  Installed(Goto(JoinTiming(IF r.fd > 0 THEN AddPoll(r, k) ELSE r), "winded_up"), r, k)
<1> DEFINE n == IF r.fd > 0 THEN AddPoll(r, k) ELSE r
           m == JoinTiming(n)
           q == Goto(m, "winded_up")
<1>1. /\ n \in Session /\ SameKin(n, r) /\ n.type = r.type /\ n.fd = r.fd /\ n.tm = r.tm
      /\ n.cq = r.cq /\ n.pop = r.pop /\ n.on = {}
      /\ n.poll = (IF r.fd > 0 THEN IF r.poll = "no" THEN k ELSE "two" ELSE r.poll)
  <2>1. CASE r.fd > 0
    BY <2>1, AddPollFacts
  <2>2. CASE ~(r.fd > 0)
    BY <2>2 DEF SameKin
  <2>3. QED
    BY <2>1, <2>2
<1> HIDE DEF n
<1>2. m \in Session /\ Same(m, n) /\ m.on = {n.tm}
  BY <1>1, JoinTimingFacts DEF Same
<1> HIDE DEF m
<1>3. "winded_up" \in Label
  BY DEF Label
<1>4. Same(q, m) /\ q.lc = "winded_up" /\ q.on = m.on
  BY <1>2, <1>3, GotoFacts DEF Same
<1> HIDE DEF q
<1>5. Installed(q, r, k)
  BY <1>1, <1>2, <1>4 DEF Installed, Same, SameKin
<1>6. QED
  BY <1>5 DEF q, m, n

\* The kind of poll a session installs.
PollKind(r) == IF r.type = "single" THEN "one" ELSE "multi"

\* PICK_UP, for a session that is taken off a list of new ones.
LEMMA PickUpStep ==
  ASSUME NEW r, Fit(r), NEW l \in {"new", "global_new"}, l \in r.on
  PROVE  LET q == Dispatch(Leave(r, l), Act("PICK_UP"))
         IN  r.type \in Kinds /\ r.lc = "wait_for_cpu" /\ Installed(q, r, PollKind(r))
<1> DEFINE a == Act("PICK_UP")
           n == Leave(r, l)
           q == Dispatch(n, a)
<1>0. r \in Session /\ r.type \in Kinds /\ r.lc = "wait_for_cpu" /\ r.on = {l} /\ l \in ListName
  BY DEF Fit, Homes, Session, Class, Kinds, ListName
<1>1. a.type = "PICK_UP"
  BY DEF Act
<1>2. n \in Session /\ Same(n, r) /\ n.lc = r.lc /\ n.on = {}
  BY <1>0, LeaveFacts DEF Same
<1> HIDE DEF a, n
<1>3. q = Goto(JoinTiming(IF n.fd > 0 THEN AddPoll(n, PollKind(r)) ELSE n), "winded_up")
  BY <1>0, <1>1, <1>2 DEF Kinds, Same, Dispatch, PtSingle, PtMulti, SingleWaitForCpu, SingleInstall,
     MultiWaitForCpu, PollKind
<1>4. PollKind(r) \in {"one", "multi"}
  BY DEF PollKind
<1>5. Installed(q, n, PollKind(r))
  BY <1>2, <1>3, <1>4, InstallStep
<1> HIDE DEF q
<1>6. Installed(q, r, PollKind(r))
  BY <1>2, <1>5 DEF Installed, Same, SameKin
<1>7. QED
  BY <1>0, <1>6 DEF q, a, n

\* What WIND_UP makes of the session whose callback returns.
Left(q, r) ==
  CASE r.type = "single" /\ r.lc = "execute_cb" -> Dying(q, r, "die")
    [] r.type = "single" /\ r.lc = "wait_for_reinstall" -> Installed(q, r, "one")
    [] r.type = "multi" /\ r.lc = "initial" -> Same(q, r) /\ q.lc = "wait_for_cpu"
    [] r.type = "multi" /\ r.lc = "execute_cb" /\ r.fd = 0 -> Dying(q, r, "execute_cb")
    [] r.type = "multi" /\ r.lc = "execute_cb" /\ r.fd # 0 ->
         Same(q, r) /\ q.lc \in {"active", "winded_up"}
    [] r.type = "multi" /\ r.lc = "wait_for_removed_and_wind_up" ->
         Same(q, r) /\ q.lc = "wait_for_removed"

\* WIND_UP after a callback
LEMMA WindUpStep ==
  ASSUME NEW r, Fit(r), <<r.type, r.lc>> \in InCb
  PROVE  Left(Dispatch(r, Act("WIND_UP")), r)
<1> DEFINE a == Act("WIND_UP")
           q == Dispatch(r, a)
<1>0. /\ r \in Session /\ "die" \in Label /\ "wait_for_cpu" \in Label /\ "active" \in Label
      /\ "winded_up" \in Label /\ "wait_for_removed" \in Label
  BY DEF Fit, Label
<1>1. a.type = "WIND_UP"
  BY DEF Act
<1>2. \/ r.type = "single" /\ r.lc \in {"execute_cb", "wait_for_reinstall"}
      \/ r.type = "multi" /\ r.lc \in {"initial", "execute_cb", "wait_for_removed_and_wind_up"}
  BY DEF InCb
<1>3. r.lc # "wait_for_removed_and_wind_up" => r.on = {}
  BY <1>2 DEF Fit, Homes
<1>4. "new" \in ListName /\ "active" \in ListName
  BY DEF ListName
<1> HIDE DEF a
<1>5. CASE r.type = "single" /\ r.lc = "execute_cb"
  <2> DEFINE n == Goto(r, "die")
  <2>1. q = Ask(n, "free")
    BY <1>1, <1>5 DEF Dispatch, PtSingle, SingleExecuteCb
  <2>2. n \in Session /\ Same(n, r) /\ n.lc = "die"
    BY <1>0, GotoFacts DEF Same
  <2> HIDE DEF n, q
  <2>3. Dying(q, n, "die")
    BY <2>1, <2>2, AskFacts DEF Dying
  <2>4. Dying(q, r, "die")
    BY <2>2, <2>3 DEF Dying, Same, SameKin
  <2>5. QED
    BY <1>5, <2>4 DEF Left, q, a
<1>6. CASE r.type = "single" /\ r.lc = "wait_for_reinstall"
  <2>1. q = Goto(JoinTiming(IF r.fd > 0 THEN AddPoll(r, "one") ELSE r), "winded_up")
    BY <1>1, <1>6 DEF Dispatch, PtSingle, SingleWaitForReinstall, SingleInstall
  <2>2. r.on = {}
    BY <1>3, <1>6
  <2> HIDE DEF q
  <2>3. Installed(q, r, "one")
    BY <1>0, <2>1, <2>2, InstallStep
  <2>4. QED
    BY <1>6, <2>3 DEF Left, q, a
<1>7. CASE r.type = "multi" /\ r.lc = "initial"
  <2> DEFINE n == Join(r, "new")
  <2>1. q = Goto(n, "wait_for_cpu")
    BY <1>1, <1>7 DEF Dispatch, PtMulti, MultiInitial
  <2>2. n \in Session /\ Same(n, r)
    BY <1>0, <1>4, JoinFacts DEF Same
  <2> HIDE DEF n, q
  <2>3. Same(q, n) /\ q.lc = "wait_for_cpu"
    BY <1>0, <2>1, <2>2, GotoFacts DEF Same
  <2>4. Same(q, r)
    BY <2>2, <2>3 DEF Same, SameKin
  <2>5. QED
    BY <1>7, <2>3, <2>4 DEF Left, q, a
<1>8. CASE r.type = "multi" /\ r.lc = "execute_cb" /\ r.fd = 0
  <2>1. q = Ask(r, "free")
    BY <1>1, <1>8 DEF Dispatch, PtMulti, MultiExecuteCb, MultiWindUp
  <2>2. Dying(q, r, "execute_cb")
    BY <1>0, <1>8, <2>1, AskFacts DEF Dying
  <2> HIDE DEF q
  <2>3. QED
    BY <1>8, <2>2 DEF Left, q, a
<1>9. CASE r.type = "multi" /\ r.lc = "execute_cb" /\ r.fd # 0
  <2> DEFINE b == [r EXCEPT !.bits = r.bits2]
             n == Join(b, "active")
             m == JoinTiming(r)
  <2>1. q = Goto(n, "active") \/ q = Goto(m, "winded_up")
    BY <1>1, <1>9 DEF Dispatch, PtMulti, MultiExecuteCb, MultiWindUp
  <2>2. b \in Session /\ Same(b, r)
    BY <1>0 DEF Session, Same, SameKin
  <2> HIDE DEF b
  <2>3. n \in Session /\ Same(n, b)
    BY <1>4, <2>2, JoinFacts DEF Same
  <2>4. m \in Session /\ Same(m, r)
    BY <1>0, <1>3, <1>9, JoinTimingFacts DEF Same
  <2> HIDE DEF n, m, q
  <2> DEFINE j == Goto(n, "active")
             k == Goto(m, "winded_up")
  <2>5. j.lc = "active" /\ Same(j, n)
    BY <1>0, <2>3, GotoFacts DEF Same
  <2>6. k.lc = "winded_up" /\ Same(k, m)
    BY <1>0, <2>4, GotoFacts DEF Same
  <2> HIDE DEF j, k
  <2>7. Same(j, r) /\ Same(k, r)
    BY <2>2, <2>3, <2>4, <2>5, <2>6 DEF Same, SameKin
  <2>8. Same(q, r) /\ q.lc \in {"active", "winded_up"}
    BY <2>1, <2>5, <2>6, <2>7 DEF j, k
  <2>9. QED
    BY <1>9, <2>8 DEF Left, q, a
<1>10. CASE r.type = "multi" /\ r.lc = "wait_for_removed_and_wind_up"
  <2>1. q = Goto(r, "wait_for_removed")
    BY <1>1, <1>10 DEF Dispatch, PtMulti, MultiWaitForRemovedAndWindUp
  <2> DEFINE n == Goto(r, "wait_for_removed")
  <2>2. Same(n, r) /\ n.lc = "wait_for_removed"
    BY <1>0, GotoFacts DEF Same
  <2> HIDE DEF n, q
  <2>3. Same(q, r) /\ q.lc = "wait_for_removed"
    BY <2>1, <2>2 DEF n
  <2>4. QED
    BY <1>10, <2>3 DEF Left, q, a
<1>11. QED
  BY <1>2, <1>5, <1>6, <1>7, <1>8, <1>9, <1>10

-----------------------------------------------------------------------------
(* Relatives. *)

\* The relatives of a session are sessions.
LEMMA KinTypes ==
  ASSUME NEW f, AllFit(f), NEW s \in Sessions
  PROVE  /\ f[s] \in Session /\ f[s].kids \subseteq Sessions /\ f[s].fin \subseteq Sessions
         /\ f[s].parent \in Sessions \cup {NoSession} /\ f[s].bundled \in BOOLEAN
         /\ f[s].dones \in Nat /\ f[s].lc \in Label
         /\ f[s].type \in {"none", "new", "single", "multi", "freed"}
         /\ f[s].pop \in {"no", "free", "exit"}
BY DEF AllFit, Session

\* From f to g no session gains or loses a relative, and those that are finished
\* stay where they are.
Alike(f, g) ==
  \A s \in Sessions :
    /\ SameKin(g[s], f[s]) /\ (f[s].type \in Kinds => g[s].type \in Kinds) /\ Decent(g[s])
    /\ Finished(f, s) => g[s].lc = f[s].lc

\* Such a step keeps the relations.
LEMMA AlikeRelated ==
  ASSUME NEW f, NEW g, Related(f), AllFit(g), Alike(f, g)
  PROVE  Related(g) /\ \A s \in Sessions : Finished(g, s) <=> Finished(f, s)
<1>1. \A s \in Sessions : /\ g[s].kids = f[s].kids /\ g[s].fin = f[s].fin
                          /\ g[s].parent = f[s].parent /\ g[s].bundled = f[s].bundled
                          /\ f[s].type \in Kinds => g[s].type \in Kinds
  BY DEF Alike, SameKin
<1>2. \A s \in Sessions : Finished(g, s) <=> Finished(f, s)
  BY <1>1 DEF Finished
<1>3. AllFit(f) /\ Kin(f)
  BY DEF Related
<1>4. \A s \in Sessions : /\ f[s].kids \subseteq Sessions /\ f[s].fin \subseteq Sessions
                          /\ f[s].parent \in Sessions \cup {NoSession}
  BY <1>3, KinTypes
<1>5. ASSUME NEW s \in Sessions
      PROVE  /\ \A c \in g[s].kids \cup g[s].fin :
                  g[c].type \in Kinds /\ g[c].bundled /\ g[c].parent = s
             /\ g[s].parent # NoSession => s \in g[g[s].parent].kids \cup g[g[s].parent].fin
             /\ g[s].parent # s
             /\ g[s].kids \cap g[s].fin = {}
             /\ g[s].kids \cup g[s].fin # {} => g[s].type \in Kinds
  BY <1>1, <1>3, <1>4 DEF Kin
<1>6. ASSUME NEW s \in Sessions, NEW c \in g[s].fin
      PROVE  g[c].kids = {} /\ g[c].fin = {} /\ g[c].lc \in {"die", "execute_cb"}
  <2>1. c \in Sessions /\ c \in f[s].fin
    BY <1>1, <1>4
  <2>2. f[c].kids = {} /\ f[c].fin = {} /\ f[c].lc \in {"die", "execute_cb"}
    BY <1>3, <2>1 DEF Kin
  <2>3. g[c].lc = f[c].lc
    BY <2>1 DEF Alike, Finished
  <2>4. QED
    BY <1>1, <2>1, <2>2, <2>3
<1>7. Kin(g)
  BY <1>5, <1>6 DEF Kin
<1>8. QED
  BY <1>2, <1>7 DEF Related, Alike

\* The same for a step of one session that is not finished.
LEMMA OneRelated ==
  ASSUME NEW f, Related(f), NEW s \in Sessions, ~Finished(f, s), NEW q, Fit(q), SameKin(q, f[s]),
         f[s].type \in Kinds => q.type \in Kinds, Decent(q)
  PROVE  LET g == [f EXCEPT ![s] = q]
         IN  Related(g) /\ \A x \in Sessions : Finished(g, x) <=> Finished(f, x)
<1> DEFINE g == [f EXCEPT ![s] = q]
<1>1. AllFit(f) /\ f \in [Sessions -> Session]
  BY DEF Related, AllFit
<1>2. AllFit(g)
  BY <1>1, OneFits
<1>3. g[s] = q /\ \A x \in Sessions \ {s} : g[x] = f[x]
  BY <1>1
<1>4. \A x \in Sessions : Decent(f[x]) /\ SameKin(f[x], f[x])
  BY DEF Related, SameKin
<1> HIDE DEF g
<1>5. Alike(f, g)
  BY <1>3, <1>4 DEF Alike
<1>6. Related(g) /\ \A x \in Sessions : Finished(g, x) <=> Finished(f, x)
  BY <1>2, <1>5, AlikeRelated
<1>7. QED
  BY <1>6 DEF g

\* From h to u the children of s have been seen to: those that run have lost their
\* parent, and the finished ones are freed.
Orphan(q, r) ==
  /\ q.parent = NoSession
  /\ q.type = r.type /\ q.lc = r.lc /\ q.fd = r.fd /\ q.tm = r.tm /\ q.on = r.on /\ q.poll = r.poll
  /\ q.cq = r.cq /\ q.bundled = r.bundled /\ q.kids = r.kids /\ q.fin = r.fin /\ q.dones = r.dones
  /\ q.pop = r.pop
Ended(q, r, n) ==
  /\ q.type = "freed" /\ q.lc = "initial" /\ q.on = {} /\ q.kids = {} /\ q.fin = {}
  /\ q.parent = NoSession /\ q.bundled = r.bundled /\ q.dones = n /\ q.pop = "no"
  /\ q.poll = r.poll /\ q.cq = r.cq

\* free(), with or without the done callback
LEMMA EndedFacts ==
  ASSUME NEW r \in Session
  PROVE  /\ Ended(Freed(r), r, r.dones)
         /\ Ended(FreedAfterDoneCb(r), r, r.dones + 1)
<1>1. ASSUME NEW t \in Session
      PROVE  Ended(Freed(t), t, t.dones)
  BY DEF Ended, Freed, NoRecord
<1> DEFINE n == r.dones + 1
           t == [r EXCEPT !.dones = n]
<1>2. n \in Nat
  BY DEF Session
<1> HIDE DEF n
<1>3. /\ t \in Session /\ t.dones = n /\ t.bundled = r.bundled
      /\ t.poll = r.poll /\ t.cq = r.cq
  BY <1>2 DEF Session
<1>4. FreedAfterDoneCb(r) = Freed(t)
  BY DEF FreedAfterDoneCb, t, n
<1> HIDE DEF t
<1>5. Ended(Freed(t), r, n)
  BY <1>1, <1>3 DEF Ended
<1>6. QED
  BY <1>1, <1>4, <1>5 DEF n

\* A running child that loses its parent.
LEMMA OrphanFacts ==
  ASSUME NEW r \in Session
  PROVE  Orphan(Orphaned(r), r)
BY DEF Orphan, Orphaned, Session

-----------------------------------------------------------------------------
(* The calls of callbacks. *)

\* An action that frees nothing changes only the session that takes it.
LEMMA TakeOne ==
  ASSUME NEW f \in [Sessions -> Session], NEW s \in Sessions, NEW a, Dispatch(f[s], a).pop # "free"
  PROVE  TakeAction(f, s, a) = [f EXCEPT ![s] = Dispatch(f[s], a)]
BY DEF TakeAction

\* A session that has just been given its descriptor.
Fresh(q, r, kind, fd, tm) ==
  /\ SameKin(q, r) /\ q.type = kind /\ q.lc = "initial" /\ q.fd = fd
  /\ q.tm = (IF kind = "single" THEN tm ELSE "none")
  /\ q.on = r.on /\ q.poll = r.poll /\ q.cq = r.cq /\ q.pop = r.pop

\* The first segments of the two protothreads.
LEMMA BeginStep ==
  ASSUME NEW r \in Session, NEW fd \in {-1, 0, 1}, NEW tm \in Class,
         NEW t \in {"ADD_SOCK_FD_SINGLE", "ADD_SOCK_FD_MULTI"}
  PROVE  LET a == AddFd(t, fd, tm)
         IN  /\ SingleBegin(r, a) \in Session /\ Fresh(SingleBegin(r, a), r, "single", fd, tm)
             /\ MultiBegin(r, a) \in Session /\ Fresh(MultiBegin(r, a), r, "multi", fd, tm)
<1> DEFINE a == AddFd(t, fd, tm)
           b == [r EXCEPT !.type = "single", !.fd = fd, !.tm = tm, !.bits = {}]
           c == [r EXCEPT !.type = "multi", !.fd = fd, !.tm = "none", !.bits = {}]
<1>1. a.fd = fd /\ a.tm = tm /\ "initial" \in Label /\ "none" \in Class
  BY DEF AddFd, Label, Class
<1>2. /\ b \in Session /\ SameKin(b, r) /\ b.type = "single" /\ b.fd = fd /\ b.tm = tm
      /\ b.on = r.on /\ b.poll = r.poll /\ b.cq = r.cq /\ b.pop = r.pop
  BY DEF Session, SameKin
<1>3. /\ c \in Session /\ SameKin(c, r) /\ c.type = "multi" /\ c.fd = fd /\ c.tm = "none"
      /\ c.on = r.on /\ c.poll = r.poll /\ c.cq = r.cq /\ c.pop = r.pop
  BY <1>1 DEF Session, SameKin
<1>4. SingleBegin(r, a) = Goto(b, "initial") /\ MultiBegin(r, a) = Goto(c, "initial")
  BY <1>1 DEF SingleBegin, MultiBegin
<1> HIDE DEF a, b, c
<1> DEFINE x == Goto(b, "initial")
           y == Goto(c, "initial")
<1>5. x \in Session /\ Same(x, b) /\ x.lc = "initial" /\ x.on = b.on
  BY <1>1, <1>2, GotoFacts DEF Same
<1>6. y \in Session /\ Same(y, c) /\ y.lc = "initial" /\ y.on = c.on
  BY <1>1, <1>3, GotoFacts DEF Same
<1> HIDE DEF x, y
<1>7. Fresh(x, r, "single", fd, tm)
  BY <1>2, <1>5 DEF Fresh, Same, SameKin
<1>8. Fresh(y, r, "multi", fd, tm)
  BY <1>3, <1>6 DEF Fresh, Same, SameKin
<1>9. QED
  BY <1>4, <1>5, <1>6, <1>7, <1>8 DEF a, x, y

\* esq_session_new, esq_session_set_socket_fd(_multi)
LEMMA NewStep ==
  ASSUME NEW r \in Session, NEW kind \in Kinds, NEW fd \in {-1, 0, 1}, NEW tm \in Class
  PROVE  LET m == Dispatch(Malloced(r), NewAction(kind, fd, tm))
         IN  m \in Session /\ Fresh(m, r, kind, fd, tm)
<1> DEFINE n == Malloced(r)
           t == IF kind = "single" THEN "ADD_SOCK_FD_SINGLE" ELSE "ADD_SOCK_FD_MULTI"
           a == AddFd(t, fd, tm)
           m == Dispatch(n, a)
<1>1. /\ n \in Session /\ SameKin(n, r) /\ n.type = "new" /\ n.on = r.on /\ n.poll = r.poll
      /\ n.cq = r.cq /\ n.pop = r.pop
  BY DEF Session, SameKin, Malloced
<1>2. NewAction(kind, fd, tm) = a
  BY DEF NewAction
<1>3. a.type = t
  BY DEF AddFd
<1>4. t \in {"ADD_SOCK_FD_SINGLE", "ADD_SOCK_FD_MULTI"}
      /\ (kind = "single" <=> t = "ADD_SOCK_FD_SINGLE")
  OBVIOUS
<1> HIDE DEF n, t
<1>5. m = IF kind = "single" THEN SingleBegin(n, a) ELSE MultiBegin(n, a)
  BY <1>1, <1>3, <1>4 DEF Dispatch, PtNoFd
<1>6. /\ SingleBegin(n, a) \in Session /\ Fresh(SingleBegin(n, a), n, "single", fd, tm)
      /\ MultiBegin(n, a) \in Session /\ Fresh(MultiBegin(n, a), n, "multi", fd, tm)
  BY <1>1, <1>4, BeginStep
<1> HIDE DEF a, m
<1>7. m \in Session /\ Fresh(m, n, kind, fd, tm)
  BY <1>5, <1>6 DEF Kinds
<1>8. Fresh(m, r, kind, fd, tm)
  BY <1>1, <1>7 DEF Fresh, SameKin
<1>9. QED
  BY <1>2, <1>7, <1>8 DEF m, n

\* A session that waits to be picked up.
Queued(q, r, l) == Same(q, r) /\ q.lc = "wait_for_cpu" /\ q.on = {l}

\* esq_session_wind_up and esq_session_wind_up_rr, for a new session.
LEMMA InitialStep ==
  ASSUME NEW r \in Session, r.type \in Kinds, r.lc = "initial", r.on = {}
  PROVE  /\ Queued(Dispatch(r, Act("WIND_UP")), r, "new")
         /\ Queued(Dispatch(r, Act("WIND_UP_RR")), r, "global_new")
<1> DEFINE n == Join(r, "new")
           m == Join(r, "global_new")
           p == Goto(n, "wait_for_cpu")
           q == Goto(m, "wait_for_cpu")
<1>1. Act("WIND_UP").type = "WIND_UP" /\ Act("WIND_UP_RR").type = "WIND_UP_RR"
  BY DEF Act
<1>2. "new" \in ListName /\ "global_new" \in ListName /\ "wait_for_cpu" \in Label
  BY DEF ListName, Label
<1>3. Dispatch(r, Act("WIND_UP")) = p /\ Dispatch(r, Act("WIND_UP_RR")) = q
  BY <1>1 DEF Kinds, Dispatch, PtSingle, PtMulti, SingleInitial, MultiInitial
<1>4. n \in Session /\ Same(n, r) /\ n.on = {"new"}
  BY <1>2, JoinFacts DEF Same
<1>5. m \in Session /\ Same(m, r) /\ m.on = {"global_new"}
  BY <1>2, JoinFacts DEF Same
<1> HIDE DEF n, m
<1>6. Queued(p, n, "new")
  BY <1>2, <1>4, GotoFacts DEF Queued, Same
<1>7. Queued(q, m, "global_new")
  BY <1>2, <1>5, GotoFacts DEF Queued, Same
<1> HIDE DEF p, q
<1>8. Queued(p, r, "new") /\ Queued(q, r, "global_new")
  BY <1>4, <1>5, <1>6, <1>7 DEF Queued, Same, SameKin
<1>9. QED
  BY <1>3, <1>8

-----------------------------------------------------------------------------
(* POP_FREE_SESSION *)

\* A session that stays, woken perhaps; its relatives apart.
Kept(q, r) ==
  /\ q.type = r.type /\ q.fd = r.fd /\ q.tm = r.tm /\ q.poll = r.poll /\ q.cq = r.cq
  /\ q.bundled = r.bundled /\ q.dones = r.dones /\ q.pop = r.pop
  /\ q.lc = r.lc \/ (r.lc = "winded_up" /\ q.lc = "active")

\* What is left of s: its parent has it on the finished list, if it has one.
Leftover(q, r) ==
  /\ q.kids = {} /\ q.fin = {} /\ q.parent = r.parent /\ Decent(q)
  /\ q.poll = r.poll /\ q.cq = r.cq
  /\ IF r.parent = NoSession THEN q.type = "freed" /\ q.lc = "initial"
     ELSE q.type = r.type /\ q.bundled /\ q.lc \in {"die", "execute_cb"}

\* The sessions after s has been freed.
AfterFree(g, h, s) ==
  /\ Leftover(g[s], h[s])
  /\ \A x \in h[s].fin : Ended(g[x], h[x], 1)
  /\ \A x \in Sessions \ ({s} \cup h[s].fin) :
       /\ Kept(g[x], h[x])
       /\ g[x].parent = (IF x \in h[s].kids THEN NoSession ELSE h[x].parent)
       /\ g[x].kids = h[x].kids \ {s}
       /\ g[x].fin = (IF x = h[s].parent THEN h[x].fin \cup {s} ELSE h[x].fin)
       /\ x # h[s].parent => g[x].lc = h[x].lc

\* The children have lost their parent s, which is at l.
Unhooked(u, h, s, l) ==
  /\ u \in [Sessions -> Session]
  /\ u[s].kids = {} /\ u[s].fin = {} /\ u[s].pop = "no" /\ u[s].lc = l
  /\ u[s].type = h[s].type /\ u[s].parent = h[s].parent /\ u[s].bundled = h[s].bundled
  /\ u[s].dones = h[s].dones /\ u[s].poll = h[s].poll /\ u[s].cq = h[s].cq
  /\ \A x \in h[s].kids \ {s} : Orphan(u[x], h[x])
  /\ \A x \in h[s].fin : Ended(u[x], h[x], 1)
  /\ \A x \in Sessions \ ({s} \cup h[s].kids \cup h[s].fin) : u[x] = h[x]

\* The children of a session that ends.
LEMMA UnhookStep ==
  ASSUME NEW h, Related(h), NEW s \in Sessions, ~Finished(h, s), NEW q \in Session,
         NEW l, Dying(q, h[s], l)
  PROVE  Unhooked(Unhook([h EXCEPT ![s] = q], s), h, s, l)
<1> DEFINE f == [h EXCEPT ![s] = q]
           u == Unhook(f, s)
           n == Childless(q)
<1>1. AllFit(h) /\ h \in [Sessions -> Session] /\ Kin(h) /\ \A x \in Sessions : Decent(h[x])
  BY DEF Related, AllFit
<1>2. AllFit(h) /\ h[s].kids \subseteq Sessions /\ h[s].fin \subseteq Sessions
      /\ \A x \in Sessions : h[x] \in Session
  BY <1>1, KinTypes
<1>3. f \in [Sessions -> Session] /\ f[s] = q /\ \A x \in Sessions \ {s} : f[x] = h[x]
  BY <1>1
<1>4. q.kids = h[s].kids /\ q.fin = h[s].fin
  BY DEF Dying, SameKin
<1>5. /\ n \in Session /\ n.kids = {} /\ n.fin = {} /\ n.pop = "no" /\ n.lc = q.lc /\ n.type = q.type
      /\ n.parent = q.parent /\ n.bundled = q.bundled /\ n.dones = q.dones
      /\ n.poll = q.poll /\ n.cq = q.cq
  BY DEF Childless, Session
<1>6. u = [x \in Sessions |-> IF x = s THEN n
                              ELSE IF x \in h[s].kids THEN Orphaned(f[x])
                              ELSE IF x \in h[s].fin THEN FreedAfterDoneCb(f[x])
                              ELSE f[x]]
  BY <1>3, <1>4 DEF Unhook
<1>7. s \notin h[s].fin
  BY DEF Finished
<1>8. h[s].kids \cap h[s].fin = {}
  BY <1>1 DEF Kin
<1> HIDE DEF f, n, u
<1>9. /\ u[s] = n
      /\ \A x \in h[s].kids \ {s} : u[x] = Orphaned(h[x])
      /\ \A x \in h[s].fin : u[x] = FreedAfterDoneCb(h[x])
      /\ \A x \in Sessions \ ({s} \cup h[s].kids \cup h[s].fin) : u[x] = h[x]
  BY <1>2, <1>3, <1>6, <1>7, <1>8
<1>10. ASSUME NEW x \in h[s].kids \ {s}
       PROVE  Orphan(u[x], h[x])
  BY <1>2, <1>9, OrphanFacts
<1>11. ASSUME NEW x \in h[s].fin
       PROVE  Ended(u[x], h[x], 1)
  <2>1. h[x] \in Session /\ Decent(h[x]) /\ h[x].type \in Kinds
    BY <1>1, <1>2 DEF Kin
  <2>2. h[x].dones + 1 = 1
    BY <2>1 DEF Decent, Kinds
  <2>3. QED
    BY <1>9, <2>1, <2>2, EndedFacts
<1>12. u \in [Sessions -> Session]
  <2>1. AllFit(h) /\ \A x \in Sessions : f[x] \in Session
    BY <1>1, <1>3
  <2>2. \A x \in Sessions : Orphaned(f[x]) \in Session /\ FreedAfterDoneCb(f[x]) \in Session
    <3>1. ASSUME NEW r \in Session
          PROVE  Orphaned(r) \in Session
      BY DEF Orphaned, Session
    <3>2. ASSUME NEW r \in Session
          PROVE  FreedAfterDoneCb(r) \in Session
      BY FreedFits DEF Fit
    <3>3. QED
      BY <2>1, <3>1, <3>2
  <2>3. QED
    BY <1>5, <1>6, <2>1, <2>2
<1>13. QED
  BY <1>5, <1>9, <1>10, <1>11, <1>12 DEF u, f, Dying, SameKin, Unhooked

\* A session with other relatives is where it was.
LEMMA FinishStep ==
  ASSUME NEW r, Fit(r), NEW s \in Sessions
  PROVE  LET v == Finish(r, s)
         IN  /\ Fit(v) /\ Kept(v, r) /\ v.lc = r.lc /\ v.parent = r.parent
             /\ v.kids = r.kids \ {s} /\ v.fin = r.fin \cup {s}
<1> DEFINE v == Finish(r, s)
<1>1. r \in Session /\ r.on \in Homes(r)
  BY DEF Fit
<1>2. /\ v \in Session /\ Kept(v, r) /\ v.lc = r.lc /\ v.on = r.on /\ v.parent = r.parent
      /\ v.kids = r.kids \ {s} /\ v.fin = r.fin \cup {s}
  BY <1>1 DEF Finish, Session, Kept
<1> HIDE DEF v
<1>3. Homes(v) = Homes(r)
  BY <1>2 DEF Homes, Kept
<1>4. QED
  BY <1>1, <1>2, <1>3 DEF Fit, v

\* Freeing a session that has no parent.
LEMMA FreeAlone ==
  ASSUME NEW h, Related(h), NEW s \in Sessions, ~Finished(h, s), h[s].type \in Kinds,
         h[s].parent = NoSession, NEW q \in Session, NEW l, Dying(q, h[s], l)
  PROVE  AfterFree(Free([h EXCEPT ![s] = q], s), h, s)
<1> DEFINE f == [h EXCEPT ![s] = q]
           u == Unhook(f, s)
           g == Free(f, s)
<1>1. AllFit(h) /\ h \in [Sessions -> Session] /\ Kin(h) /\ Decent(h[s])
  BY DEF Related, AllFit
<1>u. Unhooked(u, h, s, l)
  BY UnhookStep
<1> HIDE DEF u
<1>2. /\ u \in [Sessions -> Session]
      /\ u[s].kids = {} /\ u[s].fin = {} /\ u[s].pop = "no" /\ u[s].lc = l
      /\ u[s].type = h[s].type /\ u[s].parent = h[s].parent /\ u[s].bundled = h[s].bundled
      /\ u[s].dones = h[s].dones /\ u[s].poll = h[s].poll /\ u[s].cq = h[s].cq
      /\ \A x \in h[s].kids \ {s} : Orphan(u[x], h[x])
      /\ \A x \in h[s].fin : Ended(u[x], h[x], 1)
      /\ \A x \in Sessions \ ({s} \cup h[s].kids \cup h[s].fin) : u[x] = h[x]
  BY <1>u DEF Unhooked
<1>3. f[s].parent = NoSession /\ f[s].bundled = h[s].bundled
  BY <1>1 DEF Dying, SameKin
<1> DEFINE n == IF h[s].bundled THEN FreedAfterDoneCb(u[s]) ELSE Freed(u[s])
<1>4. g = [u EXCEPT ![s] = n]
  <2>1. h[s].bundled \in BOOLEAN
    BY <1>1, KinTypes
  <2>2. QED
    BY <1>3, <2>1 DEF Free, u
<1>5. u[s] \in Session /\ h[s].dones = 0
  BY <1>1, <1>2 DEF Decent, Kinds
<1>6. Ended(n, h[s], IF h[s].bundled THEN 1 ELSE 0)
  <2>1. Ended(Freed(u[s]), u[s], 0) /\ Ended(FreedAfterDoneCb(u[s]), u[s], 1)
    BY <1>2, <1>5, EndedFacts
  <2>2. QED
    BY <1>2, <2>1 DEF Ended
<1> HIDE DEF f, u, g, n
<1>7. g[s] = n /\ \A x \in Sessions \ {s} : g[x] = u[x]
  BY <1>2, <1>4
<1>8. Leftover(g[s], h[s])
  BY <1>6, <1>7 DEF Leftover, Ended, Decent
<1>9. s \notin h[s].fin /\ h[s].kids \cap h[s].fin = {} /\ h[s].fin \subseteq Sessions
      /\ h[s].kids \subseteq Sessions
  BY <1>1, KinTypes DEF Kin, Finished
<1>10. \A x \in h[s].fin : Ended(g[x], h[x], 1)
  BY <1>2, <1>7, <1>9
<1>11. ASSUME NEW x \in Sessions \ ({s} \cup h[s].fin)
       PROVE  /\ Kept(g[x], h[x])
              /\ g[x].parent = (IF x \in h[s].kids THEN NoSession ELSE h[x].parent)
              /\ g[x].kids = h[x].kids \ {s}
              /\ g[x].fin = h[x].fin
              /\ g[x].lc = h[x].lc
  <2>1. s \notin h[x].kids
    BY <1>1, WorkerAssumption DEF Kin
  <2>2. CASE x \in h[s].kids
    BY <1>2, <1>7, <2>1, <2>2 DEF Orphan, Kept
  <2>3. CASE x \notin h[s].kids
    BY <1>2, <1>7, <2>1, <2>3 DEF Kept
  <2>4. QED
    BY <2>2, <2>3
<1>12. \A x \in Sessions : x # h[s].parent
  BY WorkerAssumption
<1>13. QED
  BY <1>8, <1>10, <1>11, <1>12 DEF AfterFree, g, f

\* Freeing s ends the process: the parent cannot take the event.
FreedBadly(g, h, s) ==
  LET p == h[s].parent
  IN  /\ p \in Sessions /\ s \in h[p].kids /\ p # s /\ h[p].type \in Kinds /\ ~Finished(h, p)
      /\ ~Hears(h[p]) /\ g[p].pop = "exit" /\ \A x \in Sessions \ {p} : g[x].pop = "no"

\* Freeing a session whose parent is there.
LEMMA FreeChild ==
  ASSUME NEW h, Related(h), NEW s \in Sessions, ~Finished(h, s), h[s].type \in Kinds,
         h[s].parent # NoSession, NEW q, Fit(q), NEW l \in {"die", "execute_cb"},
         Dying(q, h[s], l)
  PROVE  \/ AfterFree(Free([h EXCEPT ![s] = q], s), h, s)
         \/ FreedBadly(Free([h EXCEPT ![s] = q], s), h, s)
<1> DEFINE f == [h EXCEPT ![s] = q]
           p == h[s].parent
           u == Unhook(f, s)
           v == Finish(u[p], s)
           w == Dispatch(v, NotifyEvent({"task_done"}))
           g == Free(f, s)
<1>1. AllFit(h) /\ h \in [Sessions -> Session] /\ Kin(h) /\ (\A x \in Sessions : Decent(h[x]))
      /\ q \in Session
  BY DEF Related, AllFit, Fit
<1>2. p \in Sessions /\ s \in h[p].kids /\ p # s /\ h[p].type \in Kinds /\ h[s].bundled
  <2>1. p \in Sessions
    BY <1>1, KinTypes
  <2>2. s \in h[p].kids \cup h[p].fin /\ p # s
    BY <1>1 DEF Kin
  <2>3. s \in h[p].kids
    BY <2>1, <2>2 DEF Finished
  <2>4. QED
    BY <1>1, <2>1, <2>2, <2>3 DEF Kin
<1>3. ~Finished(h, p)
  BY <1>1, <1>2 DEF Finished, Kin
<1>u. Unhooked(u, h, s, l)
  BY <1>1, UnhookStep
<1>a. Fit(u[p])
  <2>1. AllFit([h EXCEPT ![s] = q])
    BY <1>1, OneFits
  <2>2. AllFit(u)
    BY <2>1, UnhookFits
  <2>3. QED
    BY <1>2, <2>2 DEF AllFit
<1> HIDE DEF u
<1>4. /\ u \in [Sessions -> Session]
      /\ u[s].kids = {} /\ u[s].fin = {} /\ u[s].pop = "no" /\ u[s].lc = l
      /\ u[s].type = h[s].type /\ u[s].parent = h[s].parent /\ u[s].bundled = h[s].bundled
      /\ u[s].dones = h[s].dones /\ u[s].poll = h[s].poll /\ u[s].cq = h[s].cq
      /\ \A x \in h[s].kids \ {s} : Orphan(u[x], h[x])
      /\ \A x \in h[s].fin : Ended(u[x], h[x], 1)
      /\ \A x \in Sessions \ ({s} \cup h[s].kids \cup h[s].fin) : u[x] = h[x]
  BY <1>u DEF Unhooked
<1>5. f[s].parent = p /\ f[s].bundled
  BY <1>1, <1>2 DEF Dying, SameKin
<1>6. g = [u EXCEPT ![p] = w]
  BY <1>2, <1>4, <1>5 DEF Free, u
<1>8. /\ Fit(v) /\ Kept(v, u[p]) /\ v.lc = u[p].lc /\ v.parent = u[p].parent
      /\ v.kids = u[p].kids \ {s} /\ v.fin = u[p].fin \cup {s}
  BY <1>a, FinishStep
<1>9. p \notin h[s].fin /\ s \notin h[s].fin /\ h[s].kids \cap h[s].fin = {}
      /\ h[s].fin \subseteq Sessions /\ h[s].kids \subseteq Sessions
  BY <1>1, <1>3, KinTypes DEF Kin, Finished
<1>10. /\ Kept(u[p], h[p]) /\ u[p].lc = h[p].lc /\ u[p].kids = h[p].kids /\ u[p].fin = h[p].fin
       /\ u[p].parent = (IF p \in h[s].kids THEN NoSession ELSE h[p].parent)
  <2>1. CASE p \in h[s].kids
    BY <1>2, <1>4, <2>1 DEF Orphan, Kept
  <2>2. CASE p \notin h[s].kids
    BY <1>2, <1>4, <1>9, <2>2 DEF Kept
  <2>3. QED
    BY <2>1, <2>2
<1> HIDE DEF f, u, v
<1>11. v.type \in Kinds /\ (Hears(v) <=> Hears(h[p])) /\ {"task_done"} \in SUBSET Event
  BY <1>2, <1>8, <1>10 DEF Kept, Hears, Event
<1>12. IF Hears(h[p]) THEN Woken(w, v) ELSE w.pop = "exit"
  BY <1>8, <1>11, EventStep
<1> HIDE DEF w, g
<1>13. g[p] = w /\ g[s] = u[s] /\ \A x \in Sessions \ {p} : g[x] = u[x]
  BY <1>2, <1>4, <1>6
<1>14. Leftover(g[s], h[s])
  BY <1>1, <1>2, <1>4, <1>13 DEF Leftover, Decent, Kinds
<1>15. \A x \in h[s].fin : Ended(g[x], h[x], 1)
  BY <1>4, <1>9, <1>13
<1>16. ASSUME NEW x \in Sessions \ ({s, p} \cup h[s].fin)
       PROVE  /\ Kept(g[x], h[x]) /\ g[x].pop = "no"
              /\ g[x].parent = (IF x \in h[s].kids THEN NoSession ELSE h[x].parent)
              /\ g[x].kids = h[x].kids \ {s}
              /\ g[x].fin = h[x].fin
              /\ g[x].lc = h[x].lc
  <2>1. s \notin h[x].kids /\ h[x].pop = "no"
    BY <1>1 DEF Kin, Decent
  <2>2. CASE x \in h[s].kids
    BY <1>4, <1>13, <2>1, <2>2 DEF Orphan, Kept
  <2>3. CASE x \notin h[s].kids
    BY <1>4, <1>13, <2>1, <2>3 DEF Kept
  <2>4. QED
    BY <2>2, <2>3
<1>17. ASSUME Hears(h[p])
       PROVE  /\ Kept(g[p], h[p])
              /\ g[p].parent = (IF p \in h[s].kids THEN NoSession ELSE h[p].parent)
              /\ g[p].kids = h[p].kids \ {s}
              /\ g[p].fin = h[p].fin \cup {s}
  BY <1>8, <1>10, <1>12, <1>13, <1>17 DEF Woken, Same, SameKin, Kept
<1>18. Hears(h[p]) => AfterFree(g, h, s)
  BY <1>14, <1>15, <1>16, <1>17 DEF AfterFree
<1>19. \A x \in Sessions \ {p} : g[x].pop = "no"
  <2>1. g[s].pop = "no"
    BY <1>14 DEF Leftover, Decent
  <2>2. \A x \in h[s].fin : g[x].pop = "no"
    BY <1>15 DEF Ended
  <2>3. QED
    BY <1>16, <2>1, <2>2
<1>20. QED
  BY <1>2, <1>3, <1>12, <1>13, <1>18, <1>19 DEF FreedBadly, g, f

\* After a session has been freed relatives agree as before.
LEMMA FreedKin ==
  ASSUME NEW h, Related(h), NEW s \in Sessions, ~Finished(h, s), h[s].type \in Kinds,
         NEW g, AllFit(g), AfterFree(g, h, s)
  PROVE  /\ Related(g)
         /\ \A x \in Sessions : g[x].type \in Kinds /\ ~Finished(g, x) =>
              x # s /\ ~Finished(h, x) /\ Kept(g[x], h[x])
         /\ \A x \in Sessions : Finished(g, x) => x = s \/ (Finished(h, x) /\ Kept(g[x], h[x]))
<1> DEFINE p == h[s].parent
           F == h[s].fin
           K == h[s].kids
<1>1. AllFit(h) /\ Kin(h) /\ \A x \in Sessions : Decent(h[x])
  BY DEF Related
<1>2. /\ F \subseteq Sessions /\ K \subseteq Sessions /\ K \cap F = {} /\ s \notin F
      /\ p \in Sessions \cup {NoSession} /\ p # s /\ NoSession \notin Sessions
  BY <1>1, KinTypes, WorkerAssumption DEF Kin, Finished
<1>3. \A x \in Sessions : h[x].kids \subseteq Sessions /\ h[x].fin \subseteq Sessions
                          /\ h[x].parent \in Sessions \cup {NoSession}
  BY <1>1, KinTypes
<1>4. p # NoSession => s \in h[p].kids /\ p \notin F /\ h[p].type \in Kinds
  BY <1>1, <1>2 DEF Kin, Finished
<1>5. ASSUME NEW x \in Sessions \ ({s} \cup F)
      PROVE  /\ Kept(g[x], h[x])
             /\ g[x].parent = (IF x \in K THEN NoSession ELSE h[x].parent)
             /\ g[x].kids = h[x].kids \ {s}
             /\ g[x].fin = (IF x = p THEN h[x].fin \cup {s} ELSE h[x].fin)
             /\ g[x].type = h[x].type /\ g[x].bundled = h[x].bundled
  BY DEF AfterFree, Kept
<1>6. ASSUME NEW x \in F
      PROVE  /\ g[x].type = "freed" /\ g[x].kids = {} /\ g[x].fin = {} /\ g[x].parent = NoSession
             /\ g[x].bundled = h[x].bundled /\ g[x].dones = 1 /\ g[x].pop = "no"
  BY DEF AfterFree, Ended
<1>7. /\ g[s].kids = {} /\ g[s].fin = {} /\ g[s].parent = p /\ Decent(g[s])
      /\ IF p = NoSession THEN g[s].type = "freed"
         ELSE g[s].type = h[s].type /\ g[s].bundled /\ g[s].lc \in {"die", "execute_cb"}
  BY DEF AfterFree, Leftover
<1>8. \A x \in Sessions, t \in Sessions : x \in h[t].kids \cup h[t].fin =>
         h[x].type \in Kinds /\ h[x].bundled /\ h[x].parent = t
  BY <1>1 DEF Kin
<1>9. \A t \in Sessions : h[t].parent # NoSession => t \in h[h[t].parent].kids \cup h[h[t].parent].fin
  BY <1>1 DEF Kin
<1>10. \A t \in Sessions, x \in Sessions : x \in h[t].fin =>
         h[x].kids = {} /\ h[x].fin = {} /\ h[x].lc \in {"die", "execute_cb"}
  BY <1>1 DEF Kin
<1>11. \A t \in Sessions : h[t].parent # t /\ h[t].kids \cap h[t].fin = {}
         /\ (h[t].kids \cup h[t].fin # {} => h[t].type \in Kinds)
  BY <1>1 DEF Kin
<1> HIDE DEF p, F, K
<1>12. \A x \in F \cup K : h[x].parent = s
  BY <1>1 DEF F, K, Kin
<1>13. h[s].parent = p
  BY DEF p
<1>14. ASSUME NEW t \in Sessions \ ({s} \cup F), NEW x \in g[t].kids \cup g[t].fin
       PROVE  /\ x \in Sessions /\ g[x].type \in Kinds /\ g[x].bundled /\ g[x].parent = t
              /\ x \in g[t].fin => g[x].kids = {} /\ g[x].fin = {}
                                   /\ g[x].lc \in {"die", "execute_cb"}
  <2>1. CASE x = s
    <3>1. t = p
      <4>1. g[t].kids = h[t].kids \ {s} /\ g[t].fin = (IF t = p THEN h[t].fin \cup {s} ELSE h[t].fin)
        BY <1>5
      <4>2. s \in h[t].fin => h[s].parent = t
        BY <1>8
      <4>3. QED
        BY <1>13, <2>1, <4>1, <4>2
    <3>2. p # NoSession
      BY <1>2, <3>1
    <3>3. QED
      BY <1>7, <2>1, <3>1, <3>2
  <2>2. CASE x # s
    <3>1. x \in h[t].kids \cup h[t].fin /\ x \in Sessions /\ (x \in g[t].fin => x \in h[t].fin)
      BY <1>3, <1>5, <2>2
    <3>2. h[x].parent = t /\ t # s
      BY <1>8, <3>1
    <3>3. x \notin F \cup K
      BY <1>12, <3>2
    <3>4. /\ g[x].parent = t /\ g[x].type \in Kinds /\ g[x].bundled
      BY <1>5, <1>8, <2>2, <3>1, <3>2, <3>3
    <3>5. ASSUME x \in g[t].fin
          PROVE  g[x].kids = {} /\ g[x].fin = {} /\ g[x].lc \in {"die", "execute_cb"}
      <4>1. h[x].kids = {} /\ h[x].fin = {} /\ h[x].lc \in {"die", "execute_cb"}
        BY <1>10, <3>1, <3>5
      <4>2. x # p
        BY <1>2, <1>4, <3>1, <4>1
      <4>3. QED
        BY <1>5, <2>2, <3>1, <3>3, <4>1, <4>2 DEF Kept
    <3>6. QED
      BY <3>1, <3>4, <3>5
  <2>3. QED
    BY <2>1, <2>2
<1>15. ASSUME NEW t \in Sessions
       PROVE  /\ \A x \in g[t].kids \cup g[t].fin :
                   g[x].type \in Kinds /\ g[x].bundled /\ g[x].parent = t
              /\ \A x \in g[t].fin : g[x].kids = {} /\ g[x].fin = {}
                                     /\ g[x].lc \in {"die", "execute_cb"}
  BY <1>6, <1>7, <1>14
<1>16. ASSUME NEW t \in Sessions, g[t].parent # NoSession
       PROVE  t \in g[g[t].parent].kids \cup g[g[t].parent].fin /\ g[t].parent # t
  <2>1. CASE t = s
    BY <1>2, <1>4, <1>5, <1>7, <1>16, <2>1
  <2>2. CASE t \in F
    BY <1>6, <1>16, <2>2
  <2>3. CASE t \notin F /\ t # s
    <3> DEFINE m == h[t].parent
    <3>1. g[t].parent = m /\ t \notin K /\ m # NoSession /\ m \in Sessions /\ m # t
      BY <1>3, <1>5, <1>11, <1>16, <2>3
    <3>2. t \in h[m].kids \cup h[m].fin
      BY <1>9, <3>1
    <3> HIDE DEF m
    <3>3. m # s
      BY <2>3, <3>1, <3>2 DEF F, K
    <3>4. m \notin F
      BY <1>10, <3>1, <3>2 DEF F
    <3>5. t \in g[m].kids \cup g[m].fin
      BY <1>5, <2>3, <3>1, <3>2, <3>3, <3>4
    <3>6. QED
      BY <3>1, <3>5
  <2>4. QED
    BY <2>1, <2>2, <2>3
<1>17. ASSUME NEW t \in Sessions
       PROVE  /\ g[t].kids \cap g[t].fin = {}
              /\ g[t].kids \cup g[t].fin # {} => g[t].type \in Kinds
  <2>1. CASE t \in {s} \cup F
    BY <1>6, <1>7, <2>1
  <2>2. CASE t \notin {s} \cup F
    <3>1. t = p => h[t].type \in Kinds
      BY <1>2, <1>4
    <3>2. g[t].type = h[t].type
      BY <1>5, <2>2
    <3>3. QED
      BY <1>5, <1>11, <2>2, <3>1, <3>2
  <2>3. QED
    BY <2>1, <2>2
<1>18. ASSUME NEW t \in Sessions
       PROVE  Decent(g[t])
  <2>1. CASE t = s
    BY <1>7, <2>1
  <2>2. CASE t \in F
    <3>1. h[t].bundled
      BY <1>8, <2>2 DEF F
    <3>2. g[t].type = "freed" /\ g[t].bundled = h[t].bundled /\ g[t].dones = 1 /\ g[t].pop = "no"
      BY <1>6, <2>2
    <3>3. QED
      BY <3>1, <3>2 DEF Decent
  <2>3. CASE t \notin {s} \cup F
    <3>1. Decent(h[t])
      BY <1>1
    <3>2. Kept(g[t], h[t])
      BY <1>5, <2>3
    <3>3. QED
      BY <3>1, <3>2 DEF Decent, Kept
  <2>4. QED
    BY <2>1, <2>2, <2>3
<1>19. Kin(g)
  <2>1. \A t \in Sessions : g[t].parent # t
    BY <1>2, <1>16
  <2>2. QED
    BY <1>15, <1>16, <1>17, <2>1 DEF Kin
<1>20. Related(g)
  BY <1>18, <1>19 DEF Related
<1>21. ASSUME NEW x \in Sessions, Finished(h, x), x \notin F
       PROVE  Finished(g, x)
  <2>1. PICK t \in Sessions : x \in h[t].fin
    BY <1>21 DEF Finished
  <2>2. t \notin {s} \cup F
    BY <1>10, <1>21, <2>1 DEF F
  <2>3. QED
    BY <1>5, <2>1, <2>2 DEF Finished
<1>22. ASSUME NEW x \in Sessions, Finished(g, x), x # s
       PROVE  Finished(h, x) /\ Kept(g[x], h[x])
  <2>1. PICK t \in Sessions : x \in g[t].fin
    BY <1>22 DEF Finished
  <2>2. t \notin {s} \cup F
    BY <1>6, <1>7, <2>1
  <2>3. x \in h[t].fin
    BY <1>5, <1>22, <2>1, <2>2
  <2>4. x \notin F
    BY <1>8, <1>12, <2>2, <2>3
  <2>5. QED
    BY <1>5, <1>22, <2>3, <2>4 DEF Finished
<1>23. ASSUME NEW x \in Sessions, g[x].type \in Kinds, ~Finished(g, x)
       PROVE  x # s /\ ~Finished(h, x) /\ Kept(g[x], h[x])
  <2>1. x # s
    <3>1. CASE p = NoSession
      BY <1>7, <1>23, <3>1 DEF Kinds
    <3>2. CASE p # NoSession
      <4>1. p \in Sessions /\ s \in g[p].fin
        BY <1>2, <1>4, <1>5, <3>2
      <4>2. QED
        BY <1>23, <4>1 DEF Finished
    <3>3. QED
      BY <3>1, <3>2
  <2>2. x \notin F
    BY <1>6, <1>23 DEF Kinds
  <2>3. QED
    BY <1>5, <1>21, <1>23, <2>1, <2>2
<1>24. QED
  BY <1>20, <1>22, <1>23

-----------------------------------------------------------------------------
(* The steps of the worker keep the relations. *)

\* A step of one session that keeps its relatives.
LEMMA OneStep ==
  ASSUME FamilyInv, Scalars', NEW s \in Sessions, NEW q, Fit(q), ss' = [ss EXCEPT ![s] = q],
         ~Finished(ss, s), SameKin(q, ss[s]), ss[s].type \in Kinds => q.type \in Kinds, Decent(q),
         wpc' # "exited",
         wpc' = "cb" => ~Finished(ss, cur') /\ <<ss'[cur'].type, ss'[cur'].lc>> \in InCb,
         q.type \in Kinds /\ (wpc' = "cb" => s # cur') => q.lc \in AtRest,
         \A x \in Sessions \ {s} : ss[x].type \in Kinds /\ ~Finished(ss, x)
                                   /\ (wpc' = "cb" => x # cur') => ss[x].lc \in AtRest,
         wpc' \in {"timing", "check"} => /\ "new" \notin q.on
                                         /\ \A x \in Sessions \ {s} : "new" \notin ss[x].on
  PROVE  FamilyInv'
<1>1. Related(ss) /\ ss \in [Sessions -> Session]
  BY DEF FamilyInv, Related, AllFit
<1>2. Related(ss') /\ \A x \in Sessions : Finished(ss', x) <=> Finished(ss, x)
  BY <1>1, OneRelated
<1>3. ss'[s] = q /\ \A x \in Sessions \ {s} : ss'[x] = ss[x]
  BY <1>1
<1>4. wpc' = "cb" => cur' \in Sessions
  BY DEF Scalars
<1>5. wpc' = "cb" => ~Finished(ss', cur')
  BY <1>2, <1>4
<1>6. Placed(ss', IF wpc' = "cb" THEN cur' ELSE NoSession)
  <2> SUFFICES ASSUME NEW x \in Sessions, ss'[x].type \in Kinds, wpc' = "cb" => x # cur',
                      ~Finished(ss', x)
               PROVE  ss'[x].lc \in AtRest
    BY WorkerAssumption DEF Placed
  <2>1. QED
    BY <1>2, <1>3
<1>7. wpc' \in {"timing", "check"} => OnList("new")' = {}
  BY <1>3 DEF OnList
<1>8. QED
  BY <1>2, <1>5, <1>6, <1>7 DEF FamilyInv, ExitLeavesNothing

\* The worker halts.
LEMMA HaltStep ==
  ASSUME FamilyInv, Scalars', wpc' = "halted", ss' = ss
  PROVE  FamilyInv'
BY DEF FamilyInv, ExitLeavesNothing

\* A step of many sessions that keeps all relatives, in the loop.
LEMMA ManyStep ==
  ASSUME FamilyInv, Scalars', AllFit(ss'), Alike(ss, ss'), wpc # "cb", wpc # "halted",
         wpc' \in {"loop", "check", "timing"},
         \A s \in Sessions : ss'[s].type \in Kinds /\ ~Finished(ss, s) => ss'[s].lc \in AtRest,
         wpc' # "loop" => \A s \in Sessions : "new" \notin ss'[s].on
  PROVE  FamilyInv'
<1>1. Related(ss) /\ Placed(ss, NoSession)
  BY DEF FamilyInv
<1>2. Related(ss') /\ \A x \in Sessions : Finished(ss', x) <=> Finished(ss, x)
  BY <1>1, AlikeRelated
<1>3. Placed(ss', NoSession)
  BY <1>2 DEF Placed
<1>4. wpc' \in {"timing", "check"} => OnList("new")' = {}
  BY DEF OnList
<1>5. QED
  BY <1>2, <1>3, <1>4 DEF FamilyInv, ExitLeavesNothing

\* A session that does not exist yet has no relatives.
LEMMA NoneIsAlone ==
  ASSUME NEW f, Related(f), NEW s \in Sessions, f[s].type = "none"
  PROVE  /\ ~Finished(f, s) /\ f[s].kids = {} /\ f[s].fin = {} /\ f[s].parent = NoSession
         /\ ~f[s].bundled /\ f[s].dones = 0 /\ f[s].on = {} /\ f[s].pop = "no"
         /\ \A x \in Sessions : s \notin f[x].kids \cup f[x].fin
<1>1. AllFit(f) /\ Kin(f) /\ Decent(f[s])
  BY DEF Related
<1>2. f[s].kids \cup f[s].fin = {}
  BY <1>1 DEF Kin, Kinds
<1>3. \A x \in Sessions : s \notin f[x].kids \cup f[x].fin
  BY <1>1 DEF Kin, Kinds
<1>4. f[s].parent \in Sessions \cup {NoSession}
  BY <1>1, KinTypes
<1>5. f[s].parent = NoSession
  BY <1>1, <1>3, <1>4 DEF Kin
<1>6. f[s].on = {}
  BY <1>1 DEF AllFit, Fit, Homes
<1>7. QED
  BY <1>1, <1>2, <1>3, <1>5, <1>6 DEF Finished, Decent

\* Of all sessions only s, which was not there, has become m.
Begun(m, s, kind, fd, tm) ==
  /\ m \in Session /\ Fresh(m, ss[s], kind, fd, tm) /\ m.on = {} /\ m.pop = "no"
  /\ m.lc = "initial" /\ m.type = kind
  /\ Started(s, NewAction(kind, fd, tm)) = [ss EXCEPT ![s] = m]

\* esq_session_new, esq_session_set_socket_fd(_multi), seen from all sessions.
LEMMA StartedStep ==
  ASSUME Related(ss), NEW s \in Sessions, ss[s].type = "none", NEW kind \in Kinds,
         NEW fd \in {-1, 0, 1}, NEW tm \in Class
  PROVE  Begun(Dispatch(Malloced(ss[s]), NewAction(kind, fd, tm)), s, kind, fd, tm)
<1> DEFINE r == ss[s]
           n == Malloced(r)
           a == NewAction(kind, fd, tm)
           m == Dispatch(n, a)
           f == [ss EXCEPT ![s] = n]
<1>1. r \in Session /\ ss \in [Sessions -> Session] /\ r.pop = "no" /\ r.on = {}
  BY NoneIsAlone DEF Related, AllFit
<1>2. m \in Session /\ Fresh(m, r, kind, fd, tm)
  BY <1>1, NewStep
<1>3. n \in Session
  BY <1>1 DEF Malloced, Session
<1>4. Started(s, a) = TakeAction(f, s, a)
  BY DEF Started
<1> HIDE DEF a, n, r
<1>5. f \in [Sessions -> Session] /\ f[s] = n
  BY <1>1, <1>3
<1>6. m.pop = "no" /\ m.on = {} /\ m.lc = "initial" /\ m.type = kind
  BY <1>1, <1>2 DEF Fresh
<1>7. TakeAction(f, s, a) = [f EXCEPT ![s] = m]
  BY <1>5, <1>6, TakeOne
<1> HIDE DEF m
<1>8. [f EXCEPT ![s] = m] = [ss EXCEPT ![s] = m]
  BY <1>1
<1>9. QED
  BY <1>2, <1>4, <1>6, <1>7, <1>8 DEF Begun, m, a, n, r

\* Of all sessions only s, which was not there, has become q, by t.
Waits(q, s, kind, fd, tm, t) ==
  /\ Fit(q) /\ SameKin(q, ss[s]) /\ Decent(q) /\ q.type = kind
  /\ q.lc = "wait_for_cpu" /\ q.fd = fd
  /\ q.on = {IF t = "WIND_UP" THEN "new" ELSE "global_new"}
  /\ q.tm = (IF kind = "single" THEN tm ELSE "none")
  /\ q.poll = ss[s].poll /\ q.cq = ss[s].cq
  /\ TakeAction(Started(s, NewAction(kind, fd, tm)), s, Act(t)) = [ss EXCEPT ![s] = q]

\* esq_session_wind_up(_rr) of a new session, seen from all sessions.
LEMMA QueuedStep ==
  ASSUME Related(ss), NEW s \in Sessions, ss[s].type = "none", NEW kind \in Kinds,
         NEW fd \in {-1, 0, 1}, NEW tm \in Class, NEW t \in {"WIND_UP", "WIND_UP_RR"}
  PROVE  \E q : Waits(q, s, kind, fd, tm, t)
<1> DEFINE r == ss[s]
           m == Dispatch(Malloced(r), NewAction(kind, fd, tm))
           f == Started(s, NewAction(kind, fd, tm))
           q == Dispatch(m, Act(t))
           l == IF t = "WIND_UP" THEN "new" ELSE "global_new"
<1>1. /\ m \in Session /\ Fresh(m, r, kind, fd, tm) /\ m.on = {} /\ m.pop = "no"
      /\ m.lc = "initial" /\ m.type = kind /\ f = [ss EXCEPT ![s] = m]
  <2>1. Begun(m, s, kind, fd, tm)
    BY StartedStep
  <2> HIDE DEF m
  <2>2. QED
    BY <2>1 DEF Begun
<1>2. ss \in [Sessions -> Session] /\ r \in Session /\ r.type = "none" /\ ~r.bundled /\ r.dones = 0
  BY NoneIsAlone DEF Related, AllFit
<1> HIDE DEF m, r, f
<1>3. Queued(q, m, l)
  BY <1>1, InitialStep
<1>4. f[s] = m /\ f \in [Sessions -> Session]
  BY <1>1, <1>2
<1>5. q.pop = "no"
  BY <1>1, <1>3 DEF Queued, Same
<1>6. TakeAction(f, s, Act(t)) = [f EXCEPT ![s] = q]
  BY <1>4, <1>5, TakeOne
<1>7. Fit(m)
  BY <1>1 DEF Fit, Homes, Kinds
<1>8. Sane(Act(t)) /\ Act(t).type # "PICK_UP"
  BY SaneActions
<1>9. Fit(q)
  BY <1>7, <1>8, DispatchFits
<1> HIDE DEF q, l
<1>10. [f EXCEPT ![s] = q] = [ss EXCEPT ![s] = q]
  BY <1>1, <1>2
<1>11. /\ SameKin(q, r) /\ q.type = kind /\ q.lc = "wait_for_cpu" /\ q.fd = fd /\ q.on = {l}
       /\ q.tm = (IF kind = "single" THEN tm ELSE "none") /\ q.poll = r.poll /\ q.cq = r.cq
  BY <1>1, <1>3 DEF Queued, Same, Fresh, SameKin
<1>12. Decent(q)
  BY <1>2, <1>5, <1>11 DEF Decent, SameKin, Kinds
<1>13. TakeAction(f, s, Act(t)) = [ss EXCEPT ![s] = q]
  BY <1>6, <1>10
<1>14. QED
  BY <1>9, <1>11, <1>12, <1>13 DEF Waits, f, r, l

\* esq_session_set_socket_fd in a callback
Rearmed(q, r, fd, tm) ==
  /\ SameKin(q, r) /\ q.type = r.type /\ q.lc = "wait_for_reinstall" /\ q.fd = fd /\ q.tm = tm
  /\ q.poll = r.poll /\ q.cq = r.cq /\ q.pop = r.pop

\* The session is to be installed again.
LEMMA AgainStep ==
  ASSUME NEW r \in Session, r.type = "single", r.lc = "execute_cb",
         NEW fd \in {-1, 0, 1}, NEW tm \in Class
  PROVE  Rearmed(Dispatch(r, AddFd("ADD_SOCK_FD_SINGLE", fd, tm)), r, fd, tm)
<1> DEFINE a == AddFd("ADD_SOCK_FD_SINGLE", fd, tm)
           n == [r EXCEPT !.fd = fd, !.tm = tm]
           q == Goto(n, "wait_for_reinstall")
<1>1. a.type = "ADD_SOCK_FD_SINGLE" /\ a.fd = fd /\ a.tm = tm
  BY DEF AddFd
<1>2. Dispatch(r, a) = q
  BY <1>1 DEF Dispatch, PtSingle, SingleExecuteCb
<1>3. /\ n \in Session /\ SameKin(n, r) /\ n.type = r.type /\ n.fd = fd /\ n.tm = tm
      /\ n.poll = r.poll /\ n.cq = r.cq /\ n.pop = r.pop
  BY DEF Session, SameKin
<1> HIDE DEF n, a
<1>4. "wait_for_reinstall" \in Label
  BY DEF Label
<1>5. Same(q, n) /\ q.lc = "wait_for_reinstall"
  BY <1>3, <1>4, GotoFacts DEF Same
<1> HIDE DEF q
<1>6. Rearmed(q, r, fd, tm)
  BY <1>3, <1>5 DEF Rearmed, Same, SameKin
<1>7. QED
  BY <1>2, <1>6 DEF a

\* esq_session_set_socket_fd_multi in a callback
LEMMA BecomeStep ==
  ASSUME NEW r \in Session, r.type = "single", r.lc = "execute_cb", NEW fd \in {-1, 0, 1}
  PROVE  Fresh(Dispatch(r, AddFd("ADD_SOCK_FD_MULTI", fd, "none")), r, "multi", fd, "none")
<1> DEFINE a == AddFd("ADD_SOCK_FD_MULTI", fd, "none")
<1>1. a.type = "ADD_SOCK_FD_MULTI" /\ "none" \in Class
  BY DEF AddFd, Class
<1>2. Dispatch(r, a) = MultiBegin(r, a)
  BY <1>1 DEF Dispatch, PtSingle, SingleExecuteCb
<1>3. Fresh(MultiBegin(r, a), r, "multi", fd, "none")
  BY <1>1, BeginStep
<1>4. QED
  BY <1>2, <1>3

\* esq_session_remove_req in a callback
LEMMA ReqStep ==
  ASSUME NEW r, Fit(r), r.type = "multi", r.lc = "execute_cb"
  PROVE  LET q == Dispatch(r, Act("REMOVE_FD"))
         IN  IF r.fd > 0
             THEN Unpolled(q, r) /\ q.lc = "wait_for_removed_and_wind_up" /\ q.tm = r.tm
             ELSE /\ SameKin(q, r) /\ q.type = r.type /\ q.lc = r.lc /\ q.fd = 0 /\ q.tm = r.tm
                  /\ q.poll = r.poll /\ q.cq = r.cq /\ q.pop = r.pop
<1> DEFINE q == Dispatch(r, Act("REMOVE_FD"))
<1>0. r \in Session /\ r.on = {}
  BY DEF Fit, Homes
<1>1. Act("REMOVE_FD").type = "REMOVE_FD"
  BY DEF Act
<1>2. q = MultiRemoveFd(r)
  BY <1>1 DEF Dispatch, PtMulti, MultiExecuteCb
<1>3. CASE r.fd > 0
  <2> DEFINE p == RemovePoll(r)
             n == [p EXCEPT !.fd = 0]
             c == JoinTiming(n)
             w == Goto(c, "wait_for_removed_and_wind_up")
  <2>1. /\ p \in Session /\ p.on = {} /\ SameKin(p, r) /\ p.type = r.type /\ p.pop = r.pop
        /\ p.poll = (IF r.poll = "two" THEN "one" ELSE "no") /\ p.tm = r.tm
        /\ p.cq = IF r.poll = "no" THEN r.cq ELSE Append(r.cq, "canceled")
    BY <1>0, RemovePollFacts
  <2>2. q = w
    BY <1>2, <1>3 DEF MultiRemoveFd
  <2> HIDE DEF p
  <2>3. /\ n \in Session /\ n.on = {} /\ SameKin(n, p) /\ n.type = p.type /\ n.pop = p.pop
        /\ n.poll = p.poll /\ n.cq = p.cq /\ n.fd = 0 /\ n.tm = p.tm
    BY <2>1, SetFdFacts
  <2> HIDE DEF n
  <2>4. c \in Session /\ Same(c, n)
    BY <2>3, JoinTimingFacts DEF Same
  <2> HIDE DEF c
  <2>5. "wait_for_removed_and_wind_up" \in Label
    BY DEF Label
  <2>6. Same(w, c) /\ w.lc = "wait_for_removed_and_wind_up"
    BY <2>4, <2>5, GotoFacts DEF Same
  <2> HIDE DEF w, q
  <2>7. SameKin(w, r)
    BY <2>1, <2>3, <2>4, <2>6 DEF Same, SameKin
  <2>8. Unpolled(w, r) /\ w.tm = r.tm
    BY <2>1, <2>3, <2>4, <2>6, <2>7 DEF Same, Unpolled
  <2>9. QED
    BY <1>3, <2>2, <2>6, <2>8 DEF q
<1>4. CASE ~(r.fd > 0)
  <2>1. q = [r EXCEPT !.fd = 0]
    BY <1>2, <1>4 DEF MultiRemoveFd
  <2>2. QED
    BY <1>0, <1>4, <2>1, SetFdFacts
<1>5. QED
  BY <1>3, <1>4

\* A poll reports an event.
LEMMA FireStep ==
  ASSUME NEW r, Fit(r), NEW e \in FdEvents
  PROVE  LET q == Fired(r, e)
         IN  /\ Fit(q) /\ SameKin(q, r) /\ q.type = r.type /\ q.lc = r.lc /\ q.fd = r.fd
             /\ q.tm = r.tm /\ q.pop = r.pop /\ q.on = r.on /\ q.cq = Append(r.cq, e)
             /\ q.poll = IF r.poll = "two" THEN "one" ELSE IF r.poll = "one" THEN "no" ELSE r.poll
<1> DEFINE q == Fired(r, e)
<1>1. r \in Session /\ r.cq \in Seq(FdEvents \cup {"canceled"}) /\ r.on \in Homes(r)
  BY DEF Fit, Session
<1>2. Append(r.cq, e) \in Seq(FdEvents \cup {"canceled"})
  BY <1>1
<1>3. /\ q \in Session /\ SameKin(q, r) /\ q.type = r.type /\ q.lc = r.lc /\ q.fd = r.fd
      /\ q.tm = r.tm /\ q.pop = r.pop /\ q.on = r.on /\ q.cq = Append(r.cq, e)
      /\ q.poll = IF r.poll = "two" THEN "one" ELSE IF r.poll = "one" THEN "no" ELSE r.poll
  BY <1>1, <1>2 DEF Fired, Session, SameKin
<1> HIDE DEF q
<1>4. Homes(q) = Homes(r)
  BY <1>3 DEF Homes
<1>5. QED
  BY <1>1, <1>3, <1>4 DEF Fit, q

\* The parts of the invariant that the steps use.
LEMMA FamilyFacts ==
  ASSUME FamilyInv
  PROVE  /\ Scalars /\ Related(ss) /\ AllFit(ss) /\ Kin(ss) /\ ss \in [Sessions -> Session]
         /\ \A s \in Sessions : Fit(ss[s]) /\ Decent(ss[s]) /\ ss[s] \in Session
         /\ wpc = "cb" => /\ cur \in Sessions /\ ~Finished(ss, cur)
                          /\ <<ss[cur].type, ss[cur].lc>> \in InCb /\ ss[cur].type \in Kinds
         /\ wpc \notin {"halted", "cb"} =>
              \A s \in Sessions : ss[s].type \in Kinds /\ ~Finished(ss, s) => ss[s].lc \in AtRest
         /\ wpc = "cb" =>
              \A s \in Sessions \ {cur} : ss[s].type \in Kinds /\ ~Finished(ss, s) =>
                ss[s].lc \in AtRest
<1>1. Scalars /\ Related(ss) /\ AllFit(ss) /\ Kin(ss) /\ \A s \in Sessions : Decent(ss[s])
  BY DEF FamilyInv, Related
<1>2. ss \in [Sessions -> Session] /\ \A s \in Sessions : Fit(ss[s]) /\ ss[s] \in Session
  BY <1>1 DEF AllFit, Fit
<1>3. wpc = "cb" => /\ cur \in Sessions /\ ~Finished(ss, cur)
                    /\ <<ss[cur].type, ss[cur].lc>> \in InCb
  BY <1>1 DEF FamilyInv, Scalars
<1>4. wpc = "cb" => ss[cur].type \in Kinds
  BY <1>3 DEF InCb, Kinds
<1>5. wpc \notin {"halted", "cb"} =>
        \A s \in Sessions : ss[s].type \in Kinds /\ ~Finished(ss, s) => ss[s].lc \in AtRest
  BY WorkerAssumption DEF FamilyInv, Placed
<1>6. wpc = "cb" =>
        \A s \in Sessions \ {cur} : ss[s].type \in Kinds /\ ~Finished(ss, s) => ss[s].lc \in AtRest
  BY DEF FamilyInv, Placed
<1>7. QED
  BY <1>1, <1>2, <1>3, <1>4, <1>5, <1>6

\* Two ways to start a session.
LEMMA FamilyStarts ==
  ASSUME FamilyInv, Scalars', NEW s \in Sessions, NEW kind \in Kinds, NEW fd \in Fds,
         NEW tm \in TimeClasses, StartRR(s, kind, fd, tm) \/ StartLocal(s, kind, fd, tm)
  PROVE  FamilyInv'
<1> DEFINE t == IF StartRR(s, kind, fd, tm) THEN "WIND_UP_RR" ELSE "WIND_UP"
<1>0. fd \in {-1, 0, 1} /\ tm \in Class
  BY WorkerAssumption
<1>1. /\ Related(ss) /\ ss[s].type = "none" /\ t \in {"WIND_UP", "WIND_UP_RR"}
      /\ ss' = TakeAction(Started(s, NewAction(kind, fd, tm)), s, Act(t))
      /\ UNCHANGED <<wpc, cur>> /\ wpc \notin {"exited", "halted"}
      /\ t = "WIND_UP" => wpc = "cb"
  BY FamilyFacts DEF StartRR, StartLocal, Running, InCallback
<1> HIDE DEF t
<1>a. PICK q : Waits(q, s, kind, fd, tm, t)
  BY <1>0, <1>1, QueuedStep
<1>2. /\ Fit(q) /\ SameKin(q, ss[s]) /\ Decent(q) /\ q.type = kind
      /\ q.lc = "wait_for_cpu" /\ q.on = {IF t = "WIND_UP" THEN "new" ELSE "global_new"}
      /\ TakeAction(Started(s, NewAction(kind, fd, tm)), s, Act(t)) = [ss EXCEPT ![s] = q]
  BY <1>a DEF Waits
<1>3. ~Finished(ss, s) /\ ss[s].type \notin Kinds
  BY <1>1, NoneIsAlone DEF Kinds
<1>4. ss' = [ss EXCEPT ![s] = q] /\ ss \in [Sessions -> Session]
  BY <1>1, <1>2, FamilyFacts
<1>5. wpc' = "cb" => s # cur' /\ ~Finished(ss, cur') /\ <<ss'[cur'].type, ss'[cur'].lc>> \in InCb
  BY <1>1, <1>3, <1>4, FamilyFacts
<1>6. \A x \in Sessions \ {s} : ss[x].type \in Kinds /\ ~Finished(ss, x)
                                /\ (wpc' = "cb" => x # cur') => ss[x].lc \in AtRest
  BY <1>1, FamilyFacts
<1>7. q.lc \in AtRest
  BY <1>2 DEF AtRest
<1>8. wpc' \in {"timing", "check"} => /\ "new" \notin q.on
                                      /\ \A x \in Sessions \ {s} : "new" \notin ss[x].on
  BY <1>1, <1>2 DEF FamilyInv, OnList
<1>9. QED
  BY <1>1, <1>2, <1>3, <1>4, <1>5, <1>6, <1>7, <1>8, OneStep

\* The calls that change only the session whose callback runs.
LEMMA FamilyCalls ==
  ASSUME FamilyInv, Scalars', AllFit(ss'),
         \/ \E fd \in Fds, tm \in TimeClasses : WaitAgain(fd, tm)
         \/ \E fd \in Fds : BecomeMulti(fd)
         \/ RemoveReq
  PROVE  FamilyInv'
<1> DEFINE r == ss[cur]
<1>1. /\ wpc = "cb" /\ UNCHANGED <<wpc, cur>> /\ cur \in Sessions /\ ~Finished(ss, cur)
      /\ r \in Session /\ Fit(r) /\ Decent(r) /\ r.type \in Kinds /\ ss \in [Sessions -> Session]
  BY FamilyFacts DEF WaitAgain, BecomeMulti, RemoveReq, InCallback
<1>2. PICK q : /\ ss' = [ss EXCEPT ![cur] = q] /\ SameKin(q, r) /\ q.type \in Kinds
               /\ q.pop = r.pop /\ <<q.type, q.lc>> \in InCb
  <2>1. ASSUME NEW fd \in Fds, NEW tm \in TimeClasses, WaitAgain(fd, tm)
        PROVE  \E q : /\ ss' = [ss EXCEPT ![cur] = q] /\ SameKin(q, r) /\ q.type \in Kinds
                      /\ q.pop = r.pop /\ <<q.type, q.lc>> \in InCb
    <3> DEFINE a == AddFd("ADD_SOCK_FD_SINGLE", fd, tm)
               q == Dispatch(r, a)
    <3>1. r.type = "single" /\ r.lc = "execute_cb" /\ ss' = TakeAction(ss, cur, a)
      BY <2>1 DEF WaitAgain, InCallback
    <3>2. fd \in {-1, 0, 1} /\ tm \in Class
      BY WorkerAssumption
    <3>3. Rearmed(q, r, fd, tm)
      BY <1>1, <3>1, <3>2, AgainStep
    <3> HIDE DEF a
    <3>4. q.pop # "free" /\ q.pop = r.pop
      BY <1>1, <3>3 DEF Rearmed, Decent
    <3>5. ss' = [ss EXCEPT ![cur] = q]
      BY <1>1, <3>1, <3>4, TakeOne
    <3> HIDE DEF q
    <3>6. SameKin(q, r) /\ q.type \in Kinds /\ <<q.type, q.lc>> \in InCb
      BY <3>1, <3>3 DEF Rearmed, Kinds, InCb
    <3>7. QED
      BY <3>4, <3>5, <3>6
  <2>2. ASSUME NEW fd \in Fds, BecomeMulti(fd)
        PROVE  \E q : /\ ss' = [ss EXCEPT ![cur] = q] /\ SameKin(q, r) /\ q.type \in Kinds
                      /\ q.pop = r.pop /\ <<q.type, q.lc>> \in InCb
    <3> DEFINE a == AddFd("ADD_SOCK_FD_MULTI", fd, "none")
               q == Dispatch(r, a)
    <3>1. r.type = "single" /\ r.lc = "execute_cb" /\ ss' = TakeAction(ss, cur, a)
      BY <2>2 DEF BecomeMulti, InCallback
    <3>2. fd \in {-1, 0, 1}
      BY WorkerAssumption
    <3>3. Fresh(q, r, "multi", fd, "none")
      BY <1>1, <3>1, <3>2, BecomeStep
    <3> HIDE DEF a
    <3>4. q.pop # "free" /\ q.pop = r.pop
      BY <1>1, <3>3 DEF Fresh, Decent
    <3>5. ss' = [ss EXCEPT ![cur] = q]
      BY <1>1, <3>1, <3>4, TakeOne
    <3> HIDE DEF q
    <3>6. SameKin(q, r) /\ q.type \in Kinds /\ <<q.type, q.lc>> \in InCb
      BY <3>1, <3>3 DEF Fresh, Kinds, InCb
    <3>7. QED
      BY <3>4, <3>5, <3>6
  <2>3. ASSUME RemoveReq
        PROVE  \E q : /\ ss' = [ss EXCEPT ![cur] = q] /\ SameKin(q, r) /\ q.type \in Kinds
                      /\ q.pop = r.pop /\ <<q.type, q.lc>> \in InCb
    <3> DEFINE q == Dispatch(r, Act("REMOVE_FD"))
    <3>1. r.type = "multi" /\ r.lc = "execute_cb" /\ ss' = TakeAction(ss, cur, Act("REMOVE_FD"))
      BY <2>3 DEF RemoveReq, InCallback
    <3>2. IF r.fd > 0
          THEN Unpolled(q, r) /\ q.lc = "wait_for_removed_and_wind_up" /\ q.tm = r.tm
          ELSE /\ SameKin(q, r) /\ q.type = r.type /\ q.lc = r.lc /\ q.fd = 0 /\ q.tm = r.tm
               /\ q.poll = r.poll /\ q.cq = r.cq /\ q.pop = r.pop
      BY <1>1, <3>1, ReqStep
    <3>3. SameKin(q, r) /\ q.type = "multi" /\ q.pop = r.pop
          /\ q.lc \in {"execute_cb", "wait_for_removed_and_wind_up"}
      BY <3>1, <3>2 DEF Unpolled
    <3>4. ss' = [ss EXCEPT ![cur] = q]
      BY <1>1, <3>1, <3>3, TakeOne DEF Decent
    <3> HIDE DEF q
    <3>5. <<q.type, q.lc>> \in InCb /\ q.type \in Kinds
      BY <3>3 DEF InCb, Kinds
    <3>6. QED
      BY <3>3, <3>4, <3>5
  <2>4. QED
    BY <2>1, <2>2, <2>3
<1>3. ss'[cur] = q /\ Fit(q)
  BY <1>1, <1>2 DEF AllFit
<1>4. Decent(q)
  BY <1>1, <1>2 DEF Decent, SameKin, Kinds
<1>5. \A x \in Sessions \ {cur} : ss[x].type \in Kinds /\ ~Finished(ss, x)
                                  /\ (wpc' = "cb" => x # cur') => ss[x].lc \in AtRest
  BY <1>1, FamilyFacts
<1>6. QED
  BY <1>1, <1>2, <1>3, <1>4, <1>5, OneStep

\* A completion is posted.
LEMMA FamilyFire ==
  ASSUME FamilyInv, Scalars', AllFit(ss'), NEW s \in Sessions, NEW e \in FdEvents, Fire(s, e)
  PROVE  FamilyInv'
<1> DEFINE q == Fired(ss[s], e)
<1>1. /\ ss' = [ss EXCEPT ![s] = q] /\ UNCHANGED <<wpc, cur>> /\ wpc # "exited"
      /\ ss \in [Sessions -> Session] /\ Related(ss)
  BY FamilyFacts DEF Fire
<1>2. /\ SameKin(q, ss[s]) /\ q.type = ss[s].type /\ q.lc = ss[s].lc
      /\ q.pop = ss[s].pop /\ q.on = ss[s].on
  BY FamilyFacts, FireStep
<1> HIDE DEF q
<1>3. ASSUME NEW x \in Sessions
      PROVE  /\ SameKin(ss'[x], ss[x]) /\ ss'[x].type = ss[x].type /\ ss'[x].lc = ss[x].lc
             /\ ss'[x].on = ss[x].on /\ Decent(ss'[x])
  <2>1. Decent(ss[x])
    BY FamilyFacts
  <2>2. CASE x = s
    <3>1. ss'[x] = q
      BY <1>1, <2>2
    <3>2. Decent(q)
      BY <1>2, <2>1, <2>2 DEF Decent, SameKin
    <3>3. QED
      BY <1>2, <2>2, <3>1, <3>2
  <2>3. CASE x # s
    BY <1>1, <2>1, <2>3 DEF SameKin
  <2>4. QED
    BY <2>2, <2>3
<1>4. Alike(ss, ss')
  BY <1>3 DEF Alike
<1>5. Related(ss') /\ \A x \in Sessions : Finished(ss', x) <=> Finished(ss, x)
  BY <1>1, <1>4, AlikeRelated
<1>6. wpc # "halted" => Placed(ss', IF wpc = "cb" THEN cur ELSE NoSession)
  BY <1>3, <1>5 DEF FamilyInv, Placed
<1>7. wpc = "cb" => ~Finished(ss', cur) /\ <<ss'[cur].type, ss'[cur].lc>> \in InCb
  BY <1>3, <1>5, FamilyFacts
<1>8. wpc \in {"timing", "check"} => OnList("new")' = {}
  BY <1>3 DEF FamilyInv, OnList
<1>9. QED
  BY <1>1, <1>5, <1>6, <1>7, <1>8 DEF FamilyInv, ExitLeavesNothing

\* esq_session_pop_the_first_active, esq_worker_execute_session
LEMMA FamilyExecute ==
  ASSUME FamilyInv, Scalars', AllFit(ss'), NEW s \in Sessions, Execute(s)
  PROVE  FamilyInv'
<1> DEFINE r == ss[s]
           q == Dispatch(r, Act("EXECUTE_CB"))
           f == TakeAction(ss, s, Act("EXECUTE_CB"))
<1>1. wpc = "loop" /\ "active" \in r.on /\ Becomes(f, "cb") /\ cur' = s
  BY DEF Execute
<1>2. Related(ss) /\ Fit(r) /\ Decent(r) /\ ss \in [Sessions -> Session] /\ Kin(ss)
  BY FamilyFacts
<1>3. r.type \in Kinds /\ r.lc = "active" /\ Same(q, r) /\ q.lc = "execute_cb"
  BY <1>1, <1>2, ExecuteStep
<1>4. q.pop = "no"
  BY <1>2, <1>3 DEF Same, Decent
<1>5. f = [ss EXCEPT ![s] = q]
  BY <1>2, <1>4, TakeOne
<1> HIDE DEF f, q
<1>6. CASE \E x \in Sessions : f[x].pop = "exit"
  BY <1>1, <1>6, HaltStep DEF Becomes
<1>7. CASE ~\E x \in Sessions : f[x].pop = "exit"
  <2>1. ss' = [ss EXCEPT ![s] = q] /\ wpc' = "cb" /\ ss'[s] = q
    BY <1>1, <1>2, <1>5, <1>7 DEF Becomes
  <2>2. ~Finished(ss, s)
    BY <1>2, <1>3 DEF Finished, Kin
  <2>3. /\ Fit(q) /\ SameKin(q, r) /\ q.type \in Kinds /\ <<q.type, q.lc>> \in InCb
        /\ (wpc' = "cb" => s # cur') = FALSE
    <3>1. q.type \in Kinds /\ SameKin(q, r) /\ q.lc = "execute_cb"
      BY <1>3 DEF Same
    <3>2. QED
      BY <1>1, <2>1, <3>1 DEF AllFit, InCb, Kinds
  <2>4. Decent(q)
    BY <1>2, <1>3, <1>4, <2>3 DEF Decent, SameKin, Kinds
  <2>5. \A x \in Sessions \ {s} : ss[x].type \in Kinds /\ ~Finished(ss, x) => ss[x].lc \in AtRest
    BY <1>1, FamilyFacts
  <2>6. QED
    BY <1>1, <2>1, <2>2, <2>3, <2>4, <2>5, OneStep
<1>8. QED
  BY <1>6, <1>7

\* esq_worker_pick_up_from_local_list
LEMMA FamilyPickUpLocal ==
  ASSUME FamilyInv, Scalars', AllFit(ss'), NEW s \in Sessions, PickUpLocal(s)
  PROVE  FamilyInv'
<1> DEFINE r == ss[s]
           q == Dispatch(Leave(r, "new"), Act("PICK_UP"))
           f == [ss EXCEPT ![s] = q]
<1>1. wpc = "loop" /\ "new" \in r.on /\ Becomes(f, "loop")
  BY DEF PickUpLocal
<1>2. Related(ss) /\ Fit(r) /\ Decent(r) /\ ss \in [Sessions -> Session] /\ Kin(ss)
  BY FamilyFacts
<1>3. r.type \in Kinds /\ r.lc = "wait_for_cpu" /\ Installed(q, r, PollKind(r))
  BY <1>1, <1>2, PickUpStep
<1>4. SameKin(q, r) /\ q.type = r.type /\ q.pop = r.pop /\ q.lc = "winded_up"
  BY <1>3 DEF Installed
<1> HIDE DEF q
<1>6. CASE \E x \in Sessions : f[x].pop = "exit"
  <2> HIDE DEF f
  <2>1. QED
    BY <1>1, <1>6, HaltStep DEF Becomes
<1>7. CASE ~\E x \in Sessions : f[x].pop = "exit"
  <2>1. ss' = [ss EXCEPT ![s] = q] /\ wpc' = "loop"
    BY <1>1, <1>7 DEF Becomes
  <2>2. ~Finished(ss, s) /\ ss'[s] = q
    BY <1>2, <1>3, <2>1 DEF Finished, Kin
  <2>3. Fit(q) /\ q.lc \in AtRest
    BY <1>4, <2>2 DEF AllFit, AtRest
  <2>4. Decent(q)
    BY <1>2, <1>3, <1>4 DEF Decent, SameKin, Kinds
  <2>5. \A x \in Sessions \ {s} : ss[x].type \in Kinds /\ ~Finished(ss, x) => ss[x].lc \in AtRest
    BY <1>1, FamilyFacts
  <2>6. QED
    BY <1>4, <2>1, <2>2, <2>3, <2>4, <2>5, OneStep
<1>8. QED
  BY <1>6, <1>7

\* A finished session is on no list.
LEMMA FinishedOffList ==
  ASSUME FamilyInv, NEW s \in Sessions, Finished(ss, s)
  PROVE  ss[s].on = {} /\ ss[s].type \in Kinds /\ ss[s].lc \in {"die", "execute_cb"}
<1>1. Kin(ss) /\ Fit(ss[s])
  BY FamilyFacts
<1>2. ss[s].type \in Kinds /\ ss[s].lc \in {"die", "execute_cb"}
  BY <1>1 DEF Finished, Kin
<1>3. QED
  BY <1>1, <1>2 DEF Fit, Homes, Kinds

\* A session that takes an action in a step of many.
Takes(q, r) ==
  \/ q = r
  \/ q.pop = "exit"
  \/ /\ r.on # {} /\ SameKin(q, r) /\ q.type = r.type /\ q.pop = r.pop
     /\ q.lc \in AtRest \ {"wait_for_cpu"}

\* A step in which many sessions take an action.
LEMMA FamilyMany ==
  ASSUME FamilyInv, Scalars', AllFit(ss'), wpc # "cb", wpc # "halted", NEW f,
         NEW pc \in {"loop", "check"}, Becomes(f, pc), pc = "check" => wpc = "timing",
         \A s \in Sessions : Takes(f[s], ss[s])
  PROVE  FamilyInv'
<1>1. CASE \E x \in Sessions : f[x].pop = "exit"
  BY <1>1, HaltStep DEF Becomes
<1>2. CASE ~\E x \in Sessions : f[x].pop = "exit"
  <2>1. ss' = f /\ wpc' = pc
    BY <1>2 DEF Becomes
  <2>2. ASSUME NEW s \in Sessions
        PROVE  /\ SameKin(ss'[s], ss[s]) /\ ss'[s].type = ss[s].type /\ Decent(ss'[s])
               /\ Finished(ss, s) => ss'[s].lc = ss[s].lc
               /\ ss'[s].type \in Kinds /\ ~Finished(ss, s) => ss'[s].lc \in AtRest
               /\ wpc' # "loop" => "new" \notin ss'[s].on
    <3>0. Decent(ss[s]) /\ Fit(ss'[s])
      BY FamilyFacts DEF AllFit
    <3>1. CASE ss'[s] = ss[s]
      <4>1. ss[s].type \in Kinds /\ ~Finished(ss, s) => ss[s].lc \in AtRest
        BY FamilyFacts
      <4>2. wpc' # "loop" => "new" \notin ss[s].on
        BY <2>1 DEF FamilyInv, OnList
      <4>3. QED
        BY <3>0, <3>1, <4>1, <4>2 DEF SameKin
    <3>2. CASE ss'[s] # ss[s]
      <4> DEFINE q == ss'[s]
                 r == ss[s]
      <4>1. /\ r.on # {} /\ SameKin(q, r) /\ q.type = r.type /\ q.pop = r.pop
            /\ q.lc \in AtRest \ {"wait_for_cpu"}
        BY <1>2, <2>1, <3>2 DEF Takes
      <4>2. ~Finished(ss, s)
        BY <4>1, FinishedOffList
      <4>3. "new" \notin q.on
        BY <3>0, <4>1, PickUpStep
      <4>4. Decent(q)
        BY <3>0, <4>1 DEF Decent, SameKin
      <4>5. QED
        BY <4>1, <4>2, <4>3, <4>4
    <3>3. QED
      BY <3>1, <3>2
  <2>3. Alike(ss, ss')
    BY <2>2 DEF Alike
  <2>4. QED
    BY <2>1, <2>2, <2>3, ManyStep
<1>3. QED
  BY <1>1, <1>2

\* esq_worker_pick_up_from_global_list
LEMMA FamilyPickUpGlobal ==
  ASSUME FamilyInv, Scalars', AllFit(ss'), PickUpGlobal
  PROVE  FamilyInv'
<1> DEFINE f == [s \in Sessions |->
                   IF s \in OnList("global_new")
                   THEN Dispatch(Leave(ss[s], "global_new"), Act("PICK_UP")) ELSE ss[s]]
<1>1. wpc = "loop" /\ Becomes(f, "loop")
  BY DEF PickUpGlobal
<1>2. ASSUME NEW s \in Sessions
      PROVE  Takes(f[s], ss[s])
  <2> DEFINE q == Dispatch(Leave(ss[s], "global_new"), Act("PICK_UP"))
  <2>1. CASE s \in OnList("global_new")
    <3>1. f[s] = q /\ "global_new" \in ss[s].on /\ Fit(ss[s])
      BY <2>1, FamilyFacts DEF OnList
    <3>2. Installed(q, ss[s], PollKind(ss[s]))
      BY <3>1, PickUpStep
    <3> HIDE DEF q
    <3>3. QED
      BY <3>1, <3>2 DEF Installed, Takes, AtRest
  <2>2. CASE s \notin OnList("global_new")
    BY <2>2 DEF Takes
  <2>3. QED
    BY <2>1, <2>2
<1> HIDE DEF f
<1>3. QED
  BY <1>1, <1>2, FamilyMany

\* What a session makes of a notice of exit or timeout.
LEMMA RousedTakes ==
  ASSUME NEW q, NEW r, Roused(q, r), r.on # {}, r.lc \in AtRest, r.lc # "wait_for_cpu"
  PROVE  Takes(q, r)
<1>1. SameKin(q, r) /\ q.type = r.type /\ q.pop = r.pop
  BY DEF Roused, Woken, Same, Unpolled
<1>2. q.lc \in AtRest /\ q.lc # "wait_for_cpu"
  BY DEF Roused, Woken, AtRest
<1>3. QED
  BY <1>1, <1>2 DEF Takes

\* A session on a list of those that wait or are active, while no callback runs.
LEMMA ListedRests ==
  ASSUME FamilyInv, wpc \notin {"cb", "halted"}, NEW s \in Sessions,
         ss[s].on \cap (Class \cup {"active"}) # {}
  PROVE  /\ ss[s].type \in Kinds /\ ss[s].lc \in AtRest /\ ss[s].lc # "wait_for_cpu"
         /\ ss[s].on # {} /\ ~Finished(ss, s) /\ Fit(ss[s])
<1>1. Fit(ss[s]) /\ ss[s].on # {} /\ ss[s] \in Session
  BY FamilyFacts
<1>2. ~Finished(ss, s)
  BY <1>1, FinishedOffList
<1>3. ss[s].type \in Kinds /\ ss[s].lc # "wait_for_cpu"
  <2> DEFINE r == ss[s]
  <2>1. r.on \cap (Class \cup {"active"}) # {} /\ r.on \in Homes(r)
    BY <1>1 DEF Fit
  <2> HIDE DEF r
  <2>2. r.type \in Kinds /\ r.lc # "wait_for_cpu"
    BY <2>1 DEF Homes, Kinds, Class
  <2>3. QED
    BY <2>2 DEF r
<1>4. QED
  BY <1>1, <1>2, <1>3, FamilyFacts

\* esq_worker_notify_exit_to_all_sessions
LEMMA FamilyNotified ==
  ASSUME FamilyInv, Scalars', AllFit(ss'), wpc \notin {"cb", "halted"}, Becomes(Notified, "loop")
  PROVE  FamilyInv'
<1>1. ASSUME NEW s \in Sessions
      PROVE  Takes(Notified[s], ss[s])
  <2> DEFINE q == Dispatch(ss[s], Act("NOTIFY_EXIT"))
  <2>1. CASE s \in Listed
    <3>1. Notified[s] = q
      BY <2>1 DEF Notified
    <3>2. ss[s].on \cap (Class \cup {"active"}) # {}
      BY <2>1 DEF Listed
    <3>3. /\ ss[s].type \in Kinds /\ ss[s].lc \in AtRest /\ ss[s].lc # "wait_for_cpu"
          /\ ss[s].on # {} /\ Fit(ss[s])
      BY <3>2, ListedRests
    <3>4. IF Obeys(ss[s]) THEN Roused(q, ss[s]) ELSE q.pop = "exit"
      BY <3>3, ExitStep
    <3> HIDE DEF q
    <3>5. CASE Obeys(ss[s])
      BY <3>1, <3>3, <3>4, <3>5, RousedTakes
    <3>6. CASE ~Obeys(ss[s])
      BY <3>1, <3>4, <3>6 DEF Takes
    <3>7. QED
      BY <3>5, <3>6
  <2>2. CASE s \notin Listed
    BY <2>2 DEF Takes, Notified
  <2>3. QED
    BY <2>1, <2>2
<1>2. QED
  BY <1>1, FamilyMany

\* esq_session_timing
LEMMA FamilyTiming ==
  ASSUME FamilyInv, Scalars', AllFit(ss'), NEW late \in SUBSET Sessions, Timing(late)
  PROVE  FamilyInv'
<1> DEFINE f == [s \in Sessions |-> IF s \in late THEN Dispatch(ss[s], Act("NOTIFY_TIMEOUT"))
                                    ELSE ss[s]]
<1>1. wpc = "timing" /\ Becomes(f, "check") /\ \A s \in late : ss[s].on \cap Timed # {}
  BY DEF Timing
<1>2. ASSUME NEW s \in Sessions
      PROVE  Takes(f[s], ss[s])
  <2> DEFINE q == Dispatch(ss[s], Act("NOTIFY_TIMEOUT"))
  <2>1. CASE s \in late
    <3>1. f[s] = q
      BY <2>1
    <3>2. ss[s].on \cap (Class \cup {"active"}) # {}
      BY <1>1, <2>1 DEF Timed
    <3>3. /\ ss[s].type \in Kinds /\ ss[s].lc \in AtRest /\ ss[s].lc # "wait_for_cpu"
          /\ ss[s].on # {} /\ Fit(ss[s])
      BY <1>1, <3>2, ListedRests
    <3>4. Roused(q, ss[s]) \/ q.pop = "exit"
      BY <3>3, TimeoutStep
    <3> HIDE DEF q
    <3>5. QED
      BY <3>1, <3>3, <3>4, RousedTakes DEF Takes
  <2>2. CASE s \notin late
    BY <2>2 DEF Takes
  <2>3. QED
    BY <2>1, <2>2
<1> HIDE DEF f
<1>3. QED
  BY <1>1, <1>2, FamilyMany

\* The child s of the session whose callback runs, and its parent.
ChildOf(w, r, fd, tm) ==
  /\ w.bundled /\ w.parent = cur /\ w.kids = r.kids /\ w.fin = r.fin /\ w.dones = r.dones
  /\ w.type = "single" /\ w.lc = "wait_for_cpu" /\ w.fd = fd /\ w.tm = tm /\ w.on = {"new"}
  /\ w.poll = r.poll /\ w.cq = r.cq /\ w.pop = r.pop
ParentOf(k, r, s) ==
  /\ k.bundled = r.bundled /\ k.parent = r.parent /\ k.kids = r.kids \cup {s} /\ k.fin = r.fin
  /\ k.dones = r.dones /\ k.type = r.type /\ k.lc = r.lc /\ k.fd = r.fd /\ k.tm = r.tm /\ k.on = r.on
  /\ k.poll = r.poll /\ k.cq = r.cq /\ k.pop = r.pop

\* esq_session_bundle_child and esq_session_wind_up, seen from all sessions.
LEMMA ChildStep ==
  ASSUME FamilyInv, NEW s \in Sessions, NEW fd \in Fds, NEW tm \in TimeClasses,
         StartChild(s, fd, tm)
  PROVE  /\ cur \in Sessions /\ s # cur /\ ss[s].type = "none" /\ wpc = "cb"
         /\ ss[cur].type = "single" /\ ss[cur].lc = "execute_cb"
         /\ ChildOf(ss'[s], ss[s], fd, tm) /\ ParentOf(ss'[cur], ss[cur], s)
         /\ \A x \in Sessions \ {s, cur} : ss'[x] = ss[x]
<1> DEFINE r == ss[s]
           a == NewAction("single", fd, tm)
           m == Dispatch(Malloced(r), a)
           new == Started(s, a)
           b == Dispatch(m, SetParent(cur))
           bound == TakeAction(new, s, SetParent(cur))
           k == Dispatch(ss[cur], AddChild(s))
           linked == TakeAction(bound, cur, AddChild(s))
           w == Dispatch(b, Act("WIND_UP"))
<1>0. fd \in {-1, 0, 1} /\ tm \in Class /\ "single" \in Kinds
  BY WorkerAssumption DEF Kinds
<1>1. /\ wpc = "cb" /\ ss[cur].type = "single" /\ ss[cur].lc = "execute_cb" /\ r.type = "none"
      /\ ss' = TakeAction(linked, s, Act("WIND_UP"))
  BY DEF StartChild, InCallback
<1>2. /\ cur \in Sessions /\ ss \in [Sessions -> Session] /\ Related(ss) /\ Decent(ss[cur])
      /\ ss[cur] \in Session
  BY <1>1, FamilyFacts
<1>3. s # cur
  BY <1>1
<1>4. ~r.bundled /\ r.pop = "no"
  BY <1>1, <1>2, NoneIsAlone
<1>5. /\ m \in Session /\ Fresh(m, r, "single", fd, tm) /\ m.on = {} /\ m.pop = "no"
      /\ m.lc = "initial" /\ m.type = "single" /\ new = [ss EXCEPT ![s] = m]
  <2>1. Begun(m, s, "single", fd, tm)
    BY <1>0, <1>1, <1>2, StartedStep
  <2> HIDE DEF m
  <2>2. QED
    BY <2>1 DEF Begun
<1> HIDE DEF r, a, m, new
<1>6. ~m.bundled
  BY <1>4, <1>5 DEF Fresh, SameKin
<1>7. b = [m EXCEPT !.bundled = TRUE, !.parent = cur]
  <2>1. SetParent(cur).type = "SET_PARENT" /\ SetParent(cur).parent = cur
    BY DEF SetParent
  <2>2. QED
    BY <1>5, <1>6, <2>1 DEF Dispatch, PtSingle, SingleInitial
<1>8. /\ b \in Session /\ b.bundled /\ b.parent = cur /\ b.kids = m.kids /\ b.fin = m.fin
      /\ b.dones = m.dones /\ b.type = "single" /\ b.lc = "initial" /\ b.fd = m.fd /\ b.tm = m.tm
      /\ b.on = {} /\ b.poll = m.poll /\ b.cq = m.cq /\ b.pop = "no"
  BY <1>2, <1>5, <1>7 DEF Session
<1>9. k = [ss[cur] EXCEPT !.kids = ss[cur].kids \cup {s}]
  <2>1. AddChild(s).type = "ADD_CHILD" /\ AddChild(s).child = s
    BY DEF AddChild
  <2>2. QED
    BY <1>1, <2>1 DEF Dispatch, PtSingle, SingleExecuteCb
<1>10. ParentOf(k, ss[cur], s) /\ k \in Session
  BY <1>2, <1>9 DEF Session, ParentOf
<1>11. Queued(w, b, "new")
  BY <1>8, InitialStep DEF Kinds
<1>12. new[s] = m /\ new \in [Sessions -> Session]
  BY <1>2, <1>5
<1>13. bound = [new EXCEPT ![s] = b]
  BY <1>8, <1>12, TakeOne
<1> HIDE DEF b, bound
<1>14. /\ bound \in [Sessions -> Session] /\ bound[s] = b /\ bound[cur] = ss[cur]
       /\ \A x \in Sessions \ {s} : bound[x] = ss[x]
  BY <1>2, <1>3, <1>5, <1>8, <1>12, <1>13
<1>15. k.pop # "free"
  BY <1>2, <1>10 DEF ParentOf, Decent
<1>16. linked = [bound EXCEPT ![cur] = k]
  BY <1>2, <1>14, <1>15, TakeOne
<1> HIDE DEF k, linked
<1>17. /\ linked \in [Sessions -> Session] /\ linked[s] = b /\ linked[cur] = k
       /\ \A x \in Sessions \ {s, cur} : linked[x] = ss[x]
  BY <1>2, <1>3, <1>10, <1>14, <1>16
<1>18. w.pop # "free"
  BY <1>8, <1>11 DEF Queued, Same
<1>19. ss' = [linked EXCEPT ![s] = w]
  BY <1>1, <1>17, <1>18, TakeOne
<1> HIDE DEF w
<1>20. ss'[s] = w /\ ss'[cur] = k /\ \A x \in Sessions \ {s, cur} : ss'[x] = ss[x]
  BY <1>2, <1>3, <1>17, <1>19
<1>21. ChildOf(w, r, fd, tm)
  BY <1>4, <1>5, <1>8, <1>11 DEF Queued, Same, SameKin, Fresh, ChildOf
<1>22. QED
  BY <1>1, <1>2, <1>3, <1>10, <1>20, <1>21 DEF r

\* A parent has one more child.
LEMMA FamilyStartChild ==
  ASSUME FamilyInv, Scalars', AllFit(ss'), NEW s \in Sessions, NEW fd \in Fds,
         NEW tm \in TimeClasses, StartChild(s, fd, tm)
  PROVE  FamilyInv'
<1>1. /\ cur \in Sessions /\ s # cur /\ ss[s].type = "none" /\ wpc = "cb"
      /\ ss[cur].type = "single" /\ ss[cur].lc = "execute_cb"
      /\ ChildOf(ss'[s], ss[s], fd, tm) /\ ParentOf(ss'[cur], ss[cur], s)
      /\ \A x \in Sessions \ {s, cur} : ss'[x] = ss[x]
  BY ChildStep
<1>2. UNCHANGED <<wpc, cur>>
  BY DEF StartChild
<1>3. Related(ss) /\ Kin(ss) /\ AllFit(ss) /\ ~Finished(ss, cur) /\ \A x \in Sessions : Decent(ss[x])
  BY <1>1, FamilyFacts
<1>4. /\ ss[s].kids = {} /\ ss[s].fin = {} /\ ss[s].parent = NoSession
      /\ ss[s].dones = 0 /\ ss[s].pop = "no" /\ ~Finished(ss, s)
      /\ \A x \in Sessions : s \notin ss[x].kids \cup ss[x].fin
  BY <1>1, <1>3, NoneIsAlone
<1>5. /\ ss'[s].bundled /\ ss'[s].parent = cur /\ ss'[s].kids = {} /\ ss'[s].fin = {}
      /\ ss'[s].dones = 0 /\ ss'[s].type = "single" /\ ss'[s].lc = "wait_for_cpu"
      /\ ss'[s].pop = "no" /\ ss'[s].on = {"new"}
  BY <1>1, <1>4 DEF ChildOf
<1>6. /\ ss'[cur].bundled = ss[cur].bundled /\ ss'[cur].parent = ss[cur].parent
      /\ ss'[cur].kids = ss[cur].kids \cup {s} /\ ss'[cur].fin = ss[cur].fin
      /\ ss'[cur].dones = ss[cur].dones /\ ss'[cur].type = "single"
      /\ ss'[cur].lc = "execute_cb" /\ ss'[cur].pop = ss[cur].pop
  BY <1>1 DEF ParentOf
<1>7. \A x \in Sessions : /\ ss[x].kids \subseteq Sessions /\ ss[x].fin \subseteq Sessions
                          /\ ss[x].parent \in Sessions \cup {NoSession}
  BY <1>3, KinTypes
<1>8. \A x \in Sessions : Finished(ss', x) <=> Finished(ss, x)
  BY <1>1, <1>4, <1>5, <1>6 DEF Finished
<1>9. ASSUME NEW x \in Sessions
      PROVE  Decent(ss'[x])
  <2>1. CASE x = s
    BY <1>5, <2>1 DEF Decent
  <2>2. CASE x = cur
    BY <1>1, <1>3, <1>6, <2>2 DEF Decent
  <2>3. CASE x \notin {s, cur}
    BY <1>1, <1>3, <2>3
  <2>4. QED
    BY <2>1, <2>2, <2>3
<1>10. ASSUME NEW t \in Sessions, NEW c \in ss'[t].kids \cup ss'[t].fin
       PROVE  /\ c \in Sessions /\ ss'[c].type \in Kinds /\ ss'[c].bundled /\ ss'[c].parent = t
              /\ c \in ss'[t].fin => /\ ss'[c].kids = {} /\ ss'[c].fin = {}
                                     /\ ss'[c].lc \in {"die", "execute_cb"}
  <2>1. CASE t = cur /\ c = s
    <3>1. c \notin ss'[t].fin
      BY <1>1, <1>4, <1>6, <2>1
    <3>2. QED
      BY <1>5, <2>1, <3>1 DEF Kinds
  <2>2. CASE ~(t = cur /\ c = s)
    <3>1. /\ c \in Sessions /\ c \in ss[t].kids \cup ss[t].fin /\ c # s
          /\ c \in ss'[t].fin <=> c \in ss[t].fin
      BY <1>1, <1>4, <1>5, <1>6, <1>7, <2>2
    <3>2. ss[c].type \in Kinds /\ ss[c].bundled /\ ss[c].parent = t
      BY <1>3, <3>1 DEF Kin
    <3>3. c \in ss[t].fin => c # cur /\ ss[c].kids = {} /\ ss[c].fin = {}
                             /\ ss[c].lc \in {"die", "execute_cb"}
      BY <1>3, <3>1 DEF Kin, Finished
    <3>4. CASE c = cur
      BY <1>6, <3>1, <3>2, <3>3, <3>4 DEF Kinds
    <3>5. CASE c # cur
      BY <1>1, <3>1, <3>2, <3>3, <3>5
    <3>6. QED
      BY <3>4, <3>5
  <2>3. QED
    BY <2>1, <2>2
<1>11. ASSUME NEW t \in Sessions
       PROVE  /\ ss'[t].parent # NoSession =>
                   t \in ss'[ss'[t].parent].kids \cup ss'[ss'[t].parent].fin
              /\ ss'[t].parent # t /\ ss'[t].kids \cap ss'[t].fin = {}
              /\ ss'[t].kids \cup ss'[t].fin # {} => ss'[t].type \in Kinds
  <2>1. CASE t = s
    BY <1>1, <1>5, <1>6, <2>1
  <2>2. CASE t # s
    <3>1. ss'[t].parent = ss[t].parent
      BY <1>1, <1>6, <2>2
    <3>2. /\ ss[t].parent # NoSession => t \in ss[ss[t].parent].kids \cup ss[ss[t].parent].fin
          /\ ss[t].parent # t /\ ss[t].kids \cap ss[t].fin = {}
          /\ ss[t].kids \cup ss[t].fin # {} => ss[t].type \in Kinds
      BY <1>3 DEF Kin
    <3>3. \A x \in Sessions : /\ ss[x].kids \subseteq ss'[x].kids
                              /\ ss[x].fin \subseteq ss'[x].fin
      BY <1>1, <1>4, <1>6
    <3>4. ss'[t].parent # NoSession => t \in ss'[ss'[t].parent].kids \cup ss'[ss'[t].parent].fin
      BY <1>7, <3>1, <3>2, <3>3
    <3>5. /\ ss'[t].kids \cap ss'[t].fin = {}
          /\ ss'[t].kids \cup ss'[t].fin # {} => ss'[t].type \in Kinds
      <4>1. CASE t = cur
        BY <1>1, <1>4, <1>6, <3>2, <4>1 DEF Kinds
      <4>2. CASE t # cur
        BY <1>1, <2>2, <3>2, <4>2
      <4>3. QED
        BY <4>1, <4>2
    <3>6. QED
      BY <3>1, <3>2, <3>4, <3>5
  <2>3. QED
    BY <2>1, <2>2
<1>12. Related(ss')
  BY <1>9, <1>10, <1>11 DEF Related, Kin
<1>13. ~Finished(ss', cur) /\ <<ss'[cur].type, ss'[cur].lc>> \in InCb
  BY <1>1, <1>3, <1>6, <1>8 DEF InCb
<1>14. Placed(ss', cur)
  <2>1. \A x \in Sessions \ {cur} : ss[x].type \in Kinds /\ ~Finished(ss, x) => ss[x].lc \in AtRest
    BY <1>1, FamilyFacts
  <2>2. ss'[s].lc \in AtRest
    BY <1>5 DEF AtRest
  <2>3. QED
    BY <1>1, <1>8, <2>1, <2>2 DEF Placed
<1>15. QED
  BY <1>1, <1>2, <1>12, <1>13, <1>14 DEF FamilyInv, ExitLeavesNothing

\* What esq_execute_session_done_cb leaves.
LEMMA DoneStep ==
  ASSUME FamilyInv, DoneCbs
  PROVE  /\ wpc = "cb" /\ cur \in Sessions /\ ss[cur].fin \subseteq Sessions \ {cur}
         /\ ss'[cur].fin = {} /\ ss'[cur].kids = ss[cur].kids
         /\ ss'[cur].parent = ss[cur].parent /\ ss'[cur].on = ss[cur].on /\ Kept(ss'[cur], ss[cur])
         /\ ss'[cur].lc = ss[cur].lc
         /\ \A x \in ss[cur].fin : Ended(ss'[x], ss[x], 1)
         /\ \A x \in Sessions \ ({cur} \cup ss[cur].fin) : ss'[x] = ss[x]
<1> DEFINE r == ss[cur]
           q == NoneFinished(r)
<1>1. /\ wpc = "cb" /\ cur \in Sessions /\ Kin(ss) /\ r \in Session /\ r.fin \subseteq Sessions
      /\ ~Finished(ss, cur)
  BY FamilyFacts, KinTypes DEF DoneCbs
<1>2. cur \notin r.fin
  BY <1>1 DEF Finished
<1>3. ss' = [s \in Sessions |-> IF s = cur THEN q
                                ELSE IF s \in r.fin THEN FreedAfterDoneCb(ss[s]) ELSE ss[s]]
  BY DEF DoneCbs
<1>4. /\ q.fin = {} /\ q.kids = r.kids /\ q.parent = r.parent /\ q.on = r.on /\ Kept(q, r)
      /\ q.lc = r.lc
  BY <1>1 DEF NoneFinished, Session, Kept
<1> HIDE DEF q
<1>5. /\ ss'[cur] = q /\ \A x \in r.fin : ss'[x] = FreedAfterDoneCb(ss[x])
      /\ \A x \in Sessions \ ({cur} \cup r.fin) : ss'[x] = ss[x]
  BY <1>1, <1>2, <1>3
<1>6. ASSUME NEW x \in r.fin
      PROVE  Ended(ss'[x], ss[x], 1)
  <2>1. ss[x] \in Session /\ Decent(ss[x]) /\ ss[x].type \in Kinds
    BY <1>1, FamilyFacts DEF Kin
  <2>2. ss[x].dones + 1 = 1
    BY <2>1 DEF Decent, Kinds
  <2>3. QED
    BY <1>5, <2>1, <2>2, EndedFacts
<1>7. QED
  BY <1>1, <1>2, <1>4, <1>5, <1>6

\* The finished children are freed.
LEMMA FamilyDone ==
  ASSUME FamilyInv, Scalars', AllFit(ss'), DoneCbs
  PROVE  FamilyInv'
<1> DEFINE F == ss[cur].fin
<1>1. /\ wpc = "cb" /\ cur \in Sessions /\ F \subseteq Sessions \ {cur}
      /\ ss'[cur].fin = {} /\ ss'[cur].kids = ss[cur].kids
      /\ ss'[cur].parent = ss[cur].parent /\ Kept(ss'[cur], ss[cur])
      /\ ss'[cur].lc = ss[cur].lc
      /\ \A x \in F : Ended(ss'[x], ss[x], 1)
      /\ \A x \in Sessions \ ({cur} \cup F) : ss'[x] = ss[x]
  BY DoneStep
<1>2. UNCHANGED <<wpc, cur>>
  BY DEF DoneCbs
<1>3. /\ Related(ss) /\ Kin(ss) /\ AllFit(ss) /\ ~Finished(ss, cur)
      /\ (\A x \in Sessions : Decent(ss[x])) /\ <<ss[cur].type, ss[cur].lc>> \in InCb
      /\ ss[cur].type \in Kinds
  BY <1>1, FamilyFacts
<1>4. \A x \in F : /\ ss'[x].type = "freed" /\ ss'[x].kids = {} /\ ss'[x].fin = {}
                   /\ ss'[x].parent = NoSession /\ ss'[x].bundled = ss[x].bundled
                   /\ ss'[x].dones = 1 /\ ss'[x].pop = "no"
  BY <1>1 DEF Ended
<1>5. /\ ss'[cur].type = ss[cur].type /\ ss'[cur].bundled = ss[cur].bundled
      /\ ss'[cur].dones = ss[cur].dones /\ ss'[cur].pop = ss[cur].pop
  BY <1>1 DEF Kept
<1>6. \A x \in F : ss[x].bundled /\ ss[x].parent = cur /\ ss[x].kids = {} /\ ss[x].fin = {}
  BY <1>1, <1>3 DEF Kin
<1>7. \A x \in Sessions : /\ ss[x].kids \subseteq Sessions /\ ss[x].fin \subseteq Sessions
                          /\ ss[x].parent \in Sessions \cup {NoSession}
  BY <1>3, KinTypes
<1> HIDE DEF F
<1>8. ASSUME NEW x \in Sessions
      PROVE  Decent(ss'[x])
  <2>1. CASE x = cur
    BY <1>1, <1>3, <1>5, <2>1 DEF Decent
  <2>2. CASE x \in F
    <3>1. /\ ss'[x].type = "freed" /\ ss'[x].bundled /\ ss'[x].dones = 1 /\ ss'[x].pop = "no"
      BY <1>4, <1>6, <2>2
    <3>2. QED
      BY <3>1 DEF Decent
  <2>3. CASE x \notin {cur} \cup F
    BY <1>1, <1>3, <2>3
  <2>4. QED
    BY <2>1, <2>2, <2>3
<1>9. ASSUME NEW t \in Sessions, NEW c \in ss'[t].kids \cup ss'[t].fin
      PROVE  /\ c \in Sessions /\ ss'[c].type \in Kinds /\ ss'[c].bundled /\ ss'[c].parent = t
             /\ c \in ss'[t].fin => /\ ss'[c].kids = {} /\ ss'[c].fin = {}
                                    /\ ss'[c].lc \in {"die", "execute_cb"}
  <2>1. t \notin F
    BY <1>4
  <2>2. c \in Sessions /\ c \in ss[t].kids \cup ss[t].fin /\ (c \in ss'[t].fin => c \in ss[t].fin)
    BY <1>1, <1>7, <2>1
  <2>3. c \notin F
    <3>1. CASE t = cur
      <4>1. c \in ss[cur].kids /\ ss[cur].kids \cap ss[cur].fin = {}
        BY <1>1, <1>3, <3>1 DEF Kin
      <4>2. QED
        BY <4>1 DEF F
    <3>2. CASE t # cur
      BY <1>3, <1>6, <2>2, <3>2 DEF Kin
    <3>3. QED
      BY <3>1, <3>2
  <2>4. ss[c].type \in Kinds /\ ss[c].bundled /\ ss[c].parent = t
    BY <1>3, <2>2 DEF Kin
  <2>5. c \in ss[t].fin => c # cur /\ ss[c].kids = {} /\ ss[c].fin = {}
                           /\ ss[c].lc \in {"die", "execute_cb"}
    BY <1>3, <2>2 DEF Kin, Finished
  <2>6. CASE c = cur
    BY <1>1, <1>5, <2>2, <2>4, <2>5, <2>6
  <2>7. CASE c # cur
    BY <1>1, <2>2, <2>3, <2>4, <2>5, <2>7
  <2>8. QED
    BY <2>6, <2>7
<1>10. ASSUME NEW t \in Sessions
       PROVE  /\ ss'[t].parent # NoSession =>
                   t \in ss'[ss'[t].parent].kids \cup ss'[ss'[t].parent].fin
              /\ ss'[t].parent # t /\ ss'[t].kids \cap ss'[t].fin = {}
              /\ ss'[t].kids \cup ss'[t].fin # {} => ss'[t].type \in Kinds
  <2>1. CASE t \in F
    BY <1>4, <2>1, WorkerAssumption
  <2>2. CASE t \notin F
    <3> DEFINE m == ss[t].parent
    <3>1. ss'[t].parent = m /\ ss'[t].kids = ss[t].kids /\ ss'[t].type = ss[t].type
          /\ ss'[t].fin \subseteq ss[t].fin
      BY <1>1, <1>5, <2>2
    <3>2. /\ m # NoSession => m \in Sessions /\ t \in ss[m].kids \cup ss[m].fin
          /\ m # t /\ ss[t].kids \cap ss[t].fin = {}
          /\ ss[t].kids \cup ss[t].fin # {} => ss[t].type \in Kinds
      BY <1>3, <1>7 DEF Kin
    <3> HIDE DEF m
    <3>3. ASSUME m # NoSession
          PROVE  t \in ss'[m].kids \cup ss'[m].fin
      <4>1. m \notin F
        BY <1>6, <3>2, <3>3
      <4>2. CASE m = cur
        BY <1>1, <2>2, <3>2, <3>3, <4>2 DEF F
      <4>3. CASE m # cur
        BY <1>1, <3>2, <3>3, <4>1, <4>3
      <4>4. QED
        BY <4>2, <4>3
    <3>4. QED
      BY <3>1, <3>2, <3>3
  <2>3. QED
    BY <2>1, <2>2
<1>11. Related(ss')
  BY <1>8, <1>9, <1>10 DEF Related, Kin
<1>12. \A x \in Sessions : Finished(ss', x) => Finished(ss, x)
  <2>1. \A t \in Sessions : ss'[t].fin \subseteq ss[t].fin
    BY <1>1, <1>4
  <2>2. QED
    BY <2>1 DEF Finished
<1>13. \A x \in Sessions : Finished(ss, x) => x \in F \/ Finished(ss', x)
  <2> SUFFICES ASSUME NEW x \in Sessions, NEW t \in Sessions, x \in ss[t].fin, x \notin F
               PROVE  Finished(ss', x)
    BY DEF Finished
  <2>1. t # cur /\ t \notin F
    BY <1>6 DEF F
  <2>2. QED
    BY <1>1, <2>1 DEF Finished
<1>14. Placed(ss', cur)
  <2>1. \A x \in Sessions \ {cur} : ss[x].type \in Kinds /\ ~Finished(ss, x) => ss[x].lc \in AtRest
    BY <1>1, FamilyFacts
  <2>2. \A x \in F : ss'[x].type \notin Kinds
    BY <1>4 DEF Kinds
  <2>3. QED
    BY <1>1, <1>13, <2>1, <2>2 DEF Placed
<1>15. ~Finished(ss', cur) /\ <<ss'[cur].type, ss'[cur].lc>> \in InCb
  BY <1>1, <1>3, <1>5, <1>12
<1>16. QED
  BY <1>1, <1>2, <1>11, <1>14, <1>15 DEF FamilyInv, ExitLeavesNothing

\* esq_worker_still_work_to_do: a worker leaves its loop only without sessions.
LEMMA NoWorkNoSession ==
  ASSUME FamilyInv, wpc = "check", ~WorkToDo, NEW s \in Sessions
  PROVE  ~Allocated(s)
<1>1. /\ Kin(ss) /\ \A x \in Sessions : Fit(ss[x]) /\ Decent(ss[x]) /\ ss[x] \in Session
  BY FamilyFacts
<1>2. ASSUME NEW x \in Sessions, ss[x].type \in Kinds
      PROVE  Finished(ss, x)
  <2> DEFINE r == ss[x]
  <2> SUFFICES ASSUME ~Finished(ss, x) PROVE FALSE
    OBVIOUS
  <2>1. r.lc \in AtRest
    BY <1>2, FamilyFacts
  <2>2. \A l \in Class \cup {"active", "global_new", "new"} : l \notin r.on
    BY DEF WorkToDo, OnList, FamilyInv
  <2>3. r.on \in Homes(r) /\ r.tm \in Class /\ r.type \in Kinds
    BY <1>1, <1>2 DEF Fit, Session
  <2> HIDE DEF r
  <2>4. QED
    BY <2>1, <2>2, <2>3 DEF Homes, AtRest, Kinds
<1>3. ss[s].type \notin Kinds
  <2> SUFFICES ASSUME ss[s].type \in Kinds PROVE FALSE
    OBVIOUS
  <2>1. PICK p \in Sessions : s \in ss[p].fin
    BY <1>2 DEF Finished
  <2>2. ss[p].type \in Kinds
    BY <1>1, <2>1 DEF Kin
  <2>3. PICK t \in Sessions : p \in ss[t].fin
    BY <1>2, <2>2 DEF Finished
  <2>4. QED
    BY <1>1, <2>1, <2>3 DEF Kin
<1>4. QED
  BY <1>1, <1>3 DEF Allocated, Decent, Kinds

\* The end of a turn.
LEMMA FamilyCheck ==
  ASSUME FamilyInv, Scalars', AllFit(ss'), Check
  PROVE  FamilyInv'
<1>1. wpc = "check" /\ Related(ss)
  BY FamilyFacts DEF Check
<1>2. CASE wpc' = "loop" /\ UNCHANGED ss
  BY <1>1, <1>2, FamilyFacts DEF FamilyInv, Placed, ExitLeavesNothing
<1>3. CASE ~WorkToDo /\ wpc' = "exited" /\ UNCHANGED ss
  <2>1. \A s \in Sessions : ~Allocated(s)
    BY <1>1, <1>3, NoWorkNoSession
  <2>2. ExitLeavesNothing'
    BY <1>3, <2>1 DEF ExitLeavesNothing, Allocated
  <2>3. QED
    BY <1>1, <1>3, <2>2 DEF FamilyInv, Placed
<1>4. CASE Becomes(Notified, "loop")
  BY <1>1, <1>4, FamilyNotified
<1>5. QED
  BY <1>2, <1>3, <1>4 DEF Check

\* Steps that leave the sessions alone.
LEMMA FamilyIdle ==
  ASSUME FamilyInv, Scalars', Interrupted \/ WaitTimedOut \/ RequestSessionsExit \/ StopServer
  PROVE  FamilyInv'
<1>1. CASE Interrupted \/ WaitTimedOut
  <2>1. wpc = "loop" /\ wpc' \in {"check", "timing"} /\ ss' = ss /\ OnList("new") = {}
    BY <1>1 DEF Interrupted, WaitTimedOut, Waiting, NothingToRun
  <2>2. QED
    BY <2>1 DEF FamilyInv, Placed, OnList, ExitLeavesNothing
<1>2. CASE RequestSessionsExit \/ StopServer
  <2>1. UNCHANGED <<ss, wpc, cur>>
    BY <1>2 DEF RequestSessionsExit, StopServer
  <2>2. QED
    BY <2>1 DEF FamilyInv, Placed, OnList, ExitLeavesNothing, Allocated
<1>3. QED
  BY <1>1, <1>2

\* Freeing a session ends well: it is gone or on the finished list of its parent.
FreedWell(g, h, s) ==
  /\ AfterFree(g, h, s) /\ Related(g)
  /\ \A x \in Sessions : g[x].type \in Kinds /\ ~Finished(g, x) =>
       x # s /\ ~Finished(h, x) /\ Kept(g[x], h[x])
  /\ \A x \in Sessions : Finished(g, x) => x = s \/ (Finished(h, x) /\ Kept(g[x], h[x]))

\* An action that asks for POP_FREE_SESSION.
LEMMA FreeStep ==
  ASSUME NEW h, Related(h), NEW s \in Sessions, ~Finished(h, s), h[s].type \in Kinds,
         NEW a, Sane(a), a.type # "PICK_UP", NEW l \in {"die", "execute_cb"},
         Dying(Dispatch(h[s], a), h[s], l)
  PROVE  FreedWell(TakeAction(h, s, a), h, s) \/ FreedBadly(TakeAction(h, s, a), h, s)
<1> DEFINE q == Dispatch(h[s], a)
           f == [h EXCEPT ![s] = q]
           g == TakeAction(h, s, a)
<1>1. AllFit(h) /\ Fit(h[s])
  BY DEF Related, AllFit
<1>2. Fit(q) /\ q \in Session
  BY <1>1, DispatchFits DEF Fit
<1>3. g = Free(f, s) /\ Dying(q, h[s], l)
  BY DEF TakeAction, Dying
<1>4. AllFit(g)
  BY <1>1, TakeActionFits
<1> HIDE DEF q, g
<1>5. CASE h[s].parent = NoSession
  <2>1. AfterFree(g, h, s)
    BY <1>2, <1>3, <1>5, FreeAlone
  <2>2. FreedWell(g, h, s)
    BY <1>4, <2>1, FreedKin DEF FreedWell
  <2>3. QED
    BY <2>2 DEF g
<1>6. CASE h[s].parent # NoSession
  <2>1. AfterFree(g, h, s) \/ FreedBadly(g, h, s)
    BY <1>2, <1>3, <1>6, FreeChild
  <2>2. AfterFree(g, h, s) => FreedWell(g, h, s)
    BY <1>4, FreedKin DEF FreedWell
  <2>3. QED
    BY <2>1, <2>2 DEF g
<1>7. QED
  BY <1>5, <1>6

\* A step that frees s, where h are the sessions just before.
LEMMA FamilyFree ==
  ASSUME FamilyInv, Scalars', AllFit(ss'), NEW s \in Sessions, NEW h, NEW g,
         FreedWell(g, h, s) \/ FreedBadly(g, h, s),
         NEW pc \in {"loop", "check"}, Becomes(g, pc),
         \A x \in Sessions \ {s} : h[x].type \in Kinds /\ ~Finished(h, x) => h[x].lc \in AtRest,
         pc = "check" =>
           \A x \in Sessions \ {s} : h[x].type \in Kinds /\ ~Finished(h, x) =>
             h[x].lc # "wait_for_cpu"
  PROVE  FamilyInv'
<1>1. CASE \E x \in Sessions : g[x].pop = "exit"
  BY <1>1, HaltStep DEF Becomes
<1>2. CASE ~\E x \in Sessions : g[x].pop = "exit"
  <2>1. ss' = g /\ wpc' = pc
    BY <1>2 DEF Becomes
  <2>2. FreedWell(g, h, s)
    BY <1>2 DEF FreedBadly
  <2>3. Related(ss')
    BY <2>1, <2>2 DEF FreedWell
  <2>4. ASSUME NEW x \in Sessions, ss'[x].type \in Kinds, ~Finished(ss', x)
        PROVE  ss'[x].lc \in AtRest /\ (pc = "check" => ss'[x].lc # "wait_for_cpu")
    <3>1. x # s /\ ~Finished(h, x) /\ Kept(ss'[x], h[x])
      BY <2>1, <2>2, <2>4 DEF FreedWell
    <3>2. h[x].lc \in AtRest /\ (pc = "check" => h[x].lc # "wait_for_cpu")
      BY <2>4, <3>1 DEF Kept
    <3>3. QED
      BY <3>1, <3>2 DEF Kept, AtRest
  <2>5. Placed(ss', NoSession)
    BY <2>4 DEF Placed
  <2>6. ASSUME pc = "check", NEW x \in Sessions, "new" \in ss'[x].on
        PROVE  FALSE
    <3>1. Fit(ss'[x])
      BY DEF AllFit
    <3>2. ss'[x].type \in Kinds /\ ss'[x].lc = "wait_for_cpu"
      BY <2>6, <3>1, PickUpStep
    <3>3. Finished(ss', x)
      BY <2>4, <2>6, <3>2
    <3>4. ss'[x].lc \in {"die", "execute_cb"}
      BY <2>3, <3>3 DEF Related, Kin, Finished
    <3>5. QED
      BY <3>2, <3>4
  <2>7. wpc' \in {"timing", "check"} => OnList("new")' = {}
    BY <2>1, <2>6 DEF OnList
  <2>8. QED
    BY <2>1, <2>3, <2>5, <2>7 DEF FamilyInv, ExitLeavesNothing
<1>3. QED
  BY <1>1, <1>2

\* The callback returns.
LEMMA FamilyReturn ==
  ASSUME FamilyInv, Scalars', AllFit(ss'), Return
  PROVE  FamilyInv'
<1> DEFINE r == ss[cur]
           q == Dispatch(r, Act("WIND_UP"))
           g == TakeAction(ss, cur, Act("WIND_UP"))
<1>1. wpc = "cb" /\ Becomes(g, "loop")
  BY DEF Return
<1>2. /\ Related(ss) /\ cur \in Sessions /\ ~Finished(ss, cur) /\ r.type \in Kinds /\ Fit(r)
      /\ Decent(r) /\ ss \in [Sessions -> Session] /\ <<r.type, r.lc>> \in InCb
      /\ \A x \in Sessions \ {cur} : ss[x].type \in Kinds /\ ~Finished(ss, x) => ss[x].lc \in AtRest
  BY <1>1, FamilyFacts
<1>3. Left(q, r)
  BY <1>2, WindUpStep
<1>4. Sane(Act("WIND_UP")) /\ Act("WIND_UP").type # "PICK_UP"
  BY SaneActions
<1>5. \/ \E l \in {"die", "execute_cb"} : Dying(q, r, l)
      \/ SameKin(q, r) /\ q.type = r.type /\ q.pop = r.pop /\ q.lc \in AtRest
  <2>1. \/ r.type = "single" /\ r.lc \in {"execute_cb", "wait_for_reinstall"}
        \/ r.type = "multi" /\ r.lc \in {"initial", "execute_cb", "wait_for_removed_and_wind_up"}
    BY <1>2 DEF InCb
  <2> HIDE DEF q, r
  <2>2. QED
    BY <1>3, <2>1 DEF Left, Installed, Same, AtRest
<1>6. CASE \E l \in {"die", "execute_cb"} : Dying(q, r, l)
  <2>1. FreedWell(g, ss, cur) \/ FreedBadly(g, ss, cur)
    BY <1>2, <1>4, <1>6, FreeStep
  <2> HIDE DEF g
  <2>2. QED
    BY <1>1, <1>2, <2>1, FamilyFree
<1>7. CASE SameKin(q, r) /\ q.type = r.type /\ q.pop = r.pop /\ q.lc \in AtRest
  <2>1. q.pop # "free" /\ q.pop # "exit"
    BY <1>2, <1>7 DEF Decent
  <2>2. g = [ss EXCEPT ![cur] = q]
    BY <1>2, <2>1, TakeOne
  <2> HIDE DEF g, q
  <2>3. ~\E x \in Sessions : g[x].pop = "exit"
    BY <1>2, <2>1, <2>2, FamilyFacts DEF Decent
  <2>4. ss' = [ss EXCEPT ![cur] = q] /\ wpc' = "loop" /\ ss'[cur] = q
    BY <1>1, <1>2, <2>2, <2>3 DEF Becomes
  <2>5. Fit(q)
    BY <1>2, <2>4 DEF AllFit
  <2>6. Decent(q)
    BY <1>2, <1>7 DEF Decent, SameKin
  <2>7. QED
    BY <1>2, <1>7, <2>4, <2>5, <2>6, OneStep
<1>8. QED
  BY <1>5, <1>6, <1>7

\* Reading a completion changes nothing else.
LEMMA SeenFacts ==
  ASSUME NEW r, Fit(r), r.cq # <<>>
  PROVE  LET n == Seen(r)
         IN  Fit(n) /\ SameKin(n, r) /\ n.type = r.type /\ n.lc = r.lc /\ n.fd = r.fd /\ n.tm = r.tm
             /\ n.pop = r.pop /\ n.on = r.on /\ n.poll = r.poll /\ n.cq = Tail(r.cq)
             /\ Head(r.cq) \in FdEvents \cup {"canceled"}
<1> DEFINE n == Seen(r)
<1>1. r \in Session /\ r.cq \in Seq(FdEvents \cup {"canceled"}) /\ r.on \in Homes(r)
  BY DEF Fit, Session
<1>2. Tail(r.cq) \in Seq(FdEvents \cup {"canceled"}) /\ Head(r.cq) \in FdEvents \cup {"canceled"}
  BY <1>1
<1>3. /\ n \in Session /\ SameKin(n, r) /\ n.type = r.type /\ n.lc = r.lc /\ n.fd = r.fd
      /\ n.tm = r.tm /\ n.pop = r.pop /\ n.on = r.on /\ n.poll = r.poll /\ n.cq = Tail(r.cq)
  BY <1>1, <1>2 DEF Seen, Session, SameKin
<1> HIDE DEF n
<1>4. Homes(n) = Homes(r)
  BY <1>3 DEF Homes
<1>5. QED
  BY <1>1, <1>2, <1>3, <1>4 DEF Fit, n

\* What a session makes of a completion it has just read.
Received(q, n, what) ==
  \/ q.pop = "exit" /\ what # "canceled" /\ ~Hears(n) /\ n.type \in Kinds
  \/ q.pop = "exit" /\ what = "canceled" /\ n.type \in Kinds
     /\ <<n.type, n.lc>> # <<"single", "wait_for_removed_then_active">>
     /\ <<n.type, n.lc>> # <<"multi", "wait_for_removed">>
  \/ n.type \notin Kinds /\ q = n
  \/ n.type \in Kinds /\ what # "canceled" /\ Hears(n) /\ Woken(q, n)
  \/ /\ what = "canceled" /\ n.type = "single" /\ n.lc = "wait_for_removed_then_active"
     /\ Same(q, n) /\ q.lc = "active"

\* esq_worker_receive_fd_event, seen from all sessions.
ReceiveEnds(s, n, q, g, what) ==
  /\ n = Seen(ss[s]) /\ what = Head(ss[s].cq) /\ what \in FdEvents \cup {"canceled"}
  /\ Fit(n) /\ SameKin(n, ss[s]) /\ n.type = ss[s].type /\ n.lc = ss[s].lc /\ n.fd = ss[s].fd
  /\ n.tm = ss[s].tm /\ n.pop = "no" /\ n.on = ss[s].on /\ n.poll = ss[s].poll
  /\ n.cq = Tail(ss[s].cq) /\ ss[s].cq # <<>>
  /\ Becomes(g, "check") /\ interval' = Shortest(g) /\ Waiting
  /\ Related([ss EXCEPT ![s] = n])
  /\ \A x \in Sessions : Finished([ss EXCEPT ![s] = n], x) <=> Finished(ss, x)
  /\ \/ Received(q, n, what) /\ g = [ss EXCEPT ![s] = q]
     \/ /\ what = "canceled" /\ n.type = "multi" /\ n.lc = "wait_for_removed"
        /\ FreedWell(g, [ss EXCEPT ![s] = n], s) \/ FreedBadly(g, [ss EXCEPT ![s] = n], s)

\* Each completion ends in one of these ways.
LEMMA ReceiveStep ==
  ASSUME FamilyInv, NEW s \in Sessions, Receive(s)
  PROVE  \E n, q, g, what : ReceiveEnds(s, n, q, g, what)
<1> DEFINE r    == ss[s]
           n    == Seen(r)
           what == Head(r.cq)
           act  == IF what = "canceled" THEN Act("NOTIFY_AIO_REMOVED") ELSE NotifyEvent({what})
           h    == [ss EXCEPT ![s] = n]
           q    == Dispatch(n, act)
           g    == TakeAction(h, s, act)
<1>1. r.cq # <<>> /\ Becomes(g, "check") /\ interval' = Shortest(g) /\ Waiting /\ wpc = "loop"
  BY DEF Receive, Waiting
<1>2. Fit(r) /\ Decent(r) /\ ss \in [Sessions -> Session] /\ Related(ss) /\ r \in Session
  BY FamilyFacts
<1>3. /\ Fit(n) /\ SameKin(n, r) /\ n.type = r.type /\ n.lc = r.lc /\ n.fd = r.fd /\ n.tm = r.tm
      /\ n.pop = r.pop /\ n.on = r.on /\ n.poll = r.poll /\ n.cq = Tail(r.cq)
      /\ what \in FdEvents \cup {"canceled"}
  BY <1>1, <1>2, SeenFacts
<1>4. n.pop = "no" /\ n \in Session /\ r.pop = "no"
  BY <1>2, <1>3 DEF Decent, Fit
<1>5. Sane(act) /\ act.type # "PICK_UP"
  <2>1. what # "canceled" => {what} \in SUBSET Event
    BY <1>3 DEF Event
  <2>2. QED
    BY <2>1, SaneActions
<1> HIDE DEF n, what
<1>6. h[s] = n /\ h \in [Sessions -> Session] /\ \A x \in Sessions \ {s} : h[x] = ss[x]
  BY <1>2, <1>4
<1>7. Related(h) /\ \A x \in Sessions : Finished(h, x) <=> Finished(ss, x)
  <2>1. AllFit(h)
    BY <1>2, <1>3, OneFits DEF Related
  <2>2. Decent(n)
    BY <1>2, <1>3, <1>4 DEF Decent, SameKin
  <2>3. \A x \in Sessions : SameKin(ss[x], ss[x]) /\ Decent(ss[x])
    BY FamilyFacts DEF SameKin
  <2> HIDE DEF h
  <2>4. Alike(ss, h)
    BY <1>3, <1>6, <2>2, <2>3 DEF Alike
  <2>5. QED
    BY <1>2, <2>1, <2>4, AlikeRelated
<1>8. CASE Received(q, n, what)
  <2>1. q.pop # "free"
    BY <1>4, <1>8 DEF Received, Woken, Same
  <2>2. g = [h EXCEPT ![s] = q]
    BY <1>6, <2>1, TakeOne
  <2> HIDE DEF q, g
  <2>3. g = [ss EXCEPT ![s] = q]
    BY <1>2, <2>2
  <2>4. ReceiveEnds(s, n, q, g, what)
    BY <1>1, <1>3, <1>4, <1>7, <1>8, <2>3 DEF ReceiveEnds, n, what
  <2>5. QED
    BY <2>4
<1>9. CASE what = "canceled" /\ n.type = "multi" /\ n.lc = "wait_for_removed" /\ Dying(q, n, "die")
  <2>1. ~Finished(ss, s)
    BY <1>3, <1>9, FinishedOffList
  <2>2. ~Finished(h, s) /\ h[s].type \in Kinds /\ Dying(Dispatch(h[s], act), h[s], "die")
    BY <1>6, <1>7, <1>9, <2>1 DEF Kinds
  <2> HIDE DEF h, act
  <2>3. FreedWell(g, h, s) \/ FreedBadly(g, h, s)
    BY <1>5, <1>7, <2>2, FreeStep
  <2> HIDE DEF q, g
  <2>4. ReceiveEnds(s, n, q, g, what)
    BY <1>1, <1>3, <1>4, <1>7, <1>9, <2>3 DEF ReceiveEnds, n, what, h
  <2>5. QED
    BY <2>4
<1>10. CASE n.type \notin Kinds
  <2>1. n.type # "new"
    BY <1>2, <1>3 DEF Decent
  <2>2. q = n
    BY <1>10, <2>1 DEF Dispatch, Kinds
  <2>3. QED
    BY <1>8, <1>10, <2>2 DEF Received
<1>11. CASE n.type \in Kinds /\ what # "canceled"
  <2>1. {what} \in SUBSET Event /\ act = NotifyEvent({what})
    BY <1>3, <1>11 DEF Event
  <2>2. IF Hears(n) THEN Woken(q, n) ELSE q.pop = "exit"
    BY <1>3, <1>11, <2>1, EventStep
  <2> HIDE DEF q
  <2>3. QED
    BY <1>8, <1>11, <2>2 DEF Received
<1>12. CASE n.type \in Kinds /\ what = "canceled"
  <2>1. act = Act("NOTIFY_AIO_REMOVED")
    BY <1>12
  <2>2. \/ n.type = "single" /\ n.lc = "wait_for_removed_then_active"
           /\ Same(q, n) /\ q.lc = "active"
        \/ n.type = "multi" /\ n.lc = "wait_for_removed" /\ Dying(q, n, "die")
        \/ n.type = "multi" /\ n.lc = "wait_for_removed_and_wind_up"
        \/ /\ <<n.type, n.lc>> # <<"single", "wait_for_removed_then_active">>
           /\ <<n.type, n.lc>> # <<"multi", "wait_for_removed">>
           /\ q.pop = "exit"
    BY <1>3, <1>12, <2>1, RemovedStep
  <2>3. n.lc # "wait_for_removed_and_wind_up"
    <3>1. CASE Finished(ss, s)
      BY <1>3, <3>1, FinishedOffList
    <3>2. CASE ~Finished(ss, s)
      <4>1. r.lc \in AtRest
        BY <1>1, <1>3, <1>12, <3>2, FamilyFacts
      <4>2. QED
        BY <1>3, <4>1 DEF AtRest
    <3>3. QED
      BY <3>1, <3>2
  <2> HIDE DEF q
  <2>4. QED
    BY <1>8, <1>9, <1>12, <2>2, <2>3 DEF Received
<1>13. QED
  BY <1>10, <1>11, <1>12

\* No session waits for the cpu while the worker waits.
LEMMA NoneAtCpu ==
  ASSUME FamilyInv, NothingToRun, NEW s \in Sessions, ss[s].type \in Kinds
  PROVE  ss[s].lc # "wait_for_cpu"
<1>1. ss[s].on \in Homes(ss[s])
  BY FamilyFacts DEF Fit
<1>2. "new" \notin ss[s].on /\ "global_new" \notin ss[s].on
  BY DEF NothingToRun, OnList
<1>3. QED
  BY <1>1, <1>2 DEF Homes, Kinds

\* A completion is read.
LEMMA FamilyReceive ==
  ASSUME FamilyInv, Scalars', AllFit(ss'), NEW s \in Sessions, Receive(s)
  PROVE  FamilyInv'
<1>1. PICK n, q, g, what : ReceiveEnds(s, n, q, g, what)
  BY ReceiveStep
<1>2. wpc = "loop" /\ Becomes(g, "check") /\ NothingToRun
  BY <1>1 DEF ReceiveEnds, Waiting
<1>3. /\ n.type = ss[s].type /\ n.lc = ss[s].lc /\ SameKin(n, ss[s]) /\ n.pop = "no"
      /\ n.on = ss[s].on
  BY <1>1 DEF ReceiveEnds
<1>4. ss \in [Sessions -> Session] /\ \A x \in Sessions : Decent(ss[x])
  BY FamilyFacts
<1>5. CASE FreedWell(g, [ss EXCEPT ![s] = n], s) \/ FreedBadly(g, [ss EXCEPT ![s] = n], s)
  <2> DEFINE h == [ss EXCEPT ![s] = n]
  <2>1. \A x \in Sessions \ {s} : h[x] = ss[x] /\ (Finished(h, x) <=> Finished(ss, x))
    BY <1>1, <1>4 DEF ReceiveEnds
  <2> HIDE DEF h
  <2>2. \A x \in Sessions \ {s} : h[x].type \in Kinds /\ ~Finished(h, x) =>
          h[x].lc \in AtRest /\ h[x].lc # "wait_for_cpu"
    BY <1>2, <2>1, FamilyFacts, NoneAtCpu
  <2>3. FreedWell(g, h, s) \/ FreedBadly(g, h, s)
    BY <1>5 DEF h
  <2>4. QED
    BY <1>2, <2>2, <2>3, FamilyFree
<1>6. CASE Received(q, n, what) /\ g = [ss EXCEPT ![s] = q]
  <2>1. CASE \E x \in Sessions : g[x].pop = "exit"
    BY <1>2, <2>1, HaltStep DEF Becomes
  <2>2. CASE ~\E x \in Sessions : g[x].pop = "exit"
    <3>1. ss' = [ss EXCEPT ![s] = q] /\ wpc' = "check" /\ g[s] = q
      BY <1>2, <1>4, <1>6, <2>2 DEF Becomes
    <3>2. q.pop # "exit" /\ ss'[s] = q
      BY <1>4, <2>2, <3>1
    <3>3. /\ SameKin(q, n) /\ q.type = n.type /\ q.pop = "no"
          /\ n.type \in Kinds => \/ q.lc = n.lc
                                 \/ q.lc = "active" /\ n.lc \notin {"die", "execute_cb"}
      BY <1>3, <1>6, <3>2 DEF Received, Woken, Same, SameKin
    <3>4. SameKin(q, ss[s]) /\ q.type = ss[s].type
      BY <1>3, <3>3 DEF SameKin
    <3>5. Decent(q)
      BY <1>4, <3>3, <3>4 DEF Decent, SameKin
    <3>6. Finished(ss, s) => q.lc = ss[s].lc
      BY <1>3, <3>3, FinishedOffList
    <3>7. Alike(ss, ss')
      BY <1>4, <3>1, <3>2, <3>4, <3>5, <3>6 DEF Alike, SameKin
    <3>8. ASSUME NEW x \in Sessions, ss'[x].type \in Kinds
          PROVE  ss'[x].lc # "wait_for_cpu" /\ (~Finished(ss, x) => ss'[x].lc \in AtRest)
      <4>1. ss[x].type \in Kinds
        BY <1>4, <3>1, <3>2, <3>4, <3>8
      <4>2. ss[x].lc # "wait_for_cpu" /\ (~Finished(ss, x) => ss[x].lc \in AtRest)
        BY <1>2, <4>1, FamilyFacts, NoneAtCpu
      <4>3. ss'[x].lc = ss[x].lc \/ ss'[x].lc = "active"
        BY <1>3, <1>4, <3>1, <3>2, <3>3, <4>1
      <4>4. QED
        BY <4>2, <4>3 DEF AtRest
    <3>9. \A x \in Sessions : "new" \notin ss'[x].on
      BY <3>8, PickUpStep DEF AllFit
    <3>10. QED
      BY <1>2, <3>1, <3>7, <3>8, <3>9, ManyStep
  <2>3. QED
    BY <2>1, <2>2
<1>7. QED
  BY <1>1, <1>5, <1>6 DEF ReceiveEnds

\* At the start there is no session.
LEMMA FamilyInit ==
  ASSUME Init
  PROVE  FamilyInv
<1>1. Inv /\ AllFit(ss) /\ Scalars
  BY InitInv, InvAllFit DEF Inv, TypeOK, Scalars
<1>2. \A s \in Sessions : ss[s] = NoRecord
  BY DEF Init
<1>3. /\ NoRecord.type = "none" /\ NoRecord.kids = {} /\ NoRecord.fin = {} /\ NoRecord.pop = "no"
      /\ NoRecord.parent = NoSession /\ NoRecord.bundled = FALSE /\ NoRecord.dones = 0
  BY DEF NoRecord
<1>4. Related(ss)
  BY <1>1, <1>2, <1>3, WorkerAssumption DEF Related, Decent, Kin
<1>5. wpc = "loop" /\ \A s \in Sessions : ss[s].type \notin Kinds
  BY <1>2, <1>3 DEF Init, Kinds
<1>6. QED
  BY <1>1, <1>4, <1>5 DEF FamilyInv, Placed, ExitLeavesNothing

\* Every step keeps the types, and the lists in order.
LEMMA FitStep ==
  ASSUME AllFit(ss), Scalars, [Next]_vars
  PROVE  AllFit(ss') /\ Scalars'
<1>1. CASE UNCHANGED vars
  BY <1>1 DEF vars, Scalars
<1>2. CASE Next
  BY <1>2, CallsFit, LoopFits, OthersFit DEF Next
<1>3. QED
  BY <1>1, <1>2

\* Every step keeps the relations.
LEMMA FamilyNext ==
  ASSUME FamilyInv, [Next]_vars
  PROVE  FamilyInv'
<1>1. AllFit(ss') /\ Scalars'
  BY FamilyFacts, FitStep
<1>2. CASE UNCHANGED vars
  BY <1>1, <1>2 DEF vars, FamilyInv, ExitLeavesNothing, OnList, Allocated
<1>3. ASSUME NEW s \in Sessions, NEW kind \in {"single", "multi"}, NEW fd \in Fds,
             NEW tm \in TimeClasses, StartRR(s, kind, fd, tm) \/ StartLocal(s, kind, fd, tm)
      PROVE  FamilyInv'
  BY <1>1, <1>3, FamilyStarts DEF Kinds
<1>4. CASE Callback
  BY <1>1, <1>3, <1>4, FamilyStartChild, FamilyCalls, FamilyDone DEF Callback
<1>5. CASE Loop
  <2>1. CASE \E s \in Sessions : Execute(s) \/ PickUpLocal(s) \/ Receive(s)
    BY <1>1, <2>1, FamilyExecute, FamilyPickUpLocal, FamilyReceive
  <2>2. CASE PickUpGlobal \/ Check \/ \E late \in SUBSET Sessions : Timing(late)
    BY <1>1, <2>2, FamilyPickUpGlobal, FamilyCheck, FamilyTiming
  <2>3. CASE StopSessions
    <3>1. wpc = "loop" /\ Becomes(Notified, "loop")
      BY <2>3 DEF StopSessions
    <3>2. QED
      BY <1>1, <3>1, FamilyNotified
  <2>4. QED
    BY <1>5, <2>1, <2>2, <2>3 DEF Loop
<1>6. CASE Return
  BY <1>1, <1>6, FamilyReturn
<1>7. CASE Interrupted \/ WaitTimedOut \/ RequestSessionsExit \/ StopServer
  BY <1>1, <1>7, FamilyIdle
<1>8. CASE \E s \in Sessions, e \in FdEvents : Fire(s, e)
  BY <1>1, <1>8, FamilyFire
<1>9. QED
  BY <1>2, <1>3, <1>4, <1>5, <1>6, <1>7, <1>8 DEF Next

\* Families is what the relations say.
LEMMA RelatedFamilies ==
  ASSUME FamilyInv
  PROVE  Families
<1>1. Kin(ss) /\ AllFit(ss) /\ \A s \in Sessions : Decent(ss[s])
  BY FamilyFacts
<1>2. ASSUME NEW s \in Sessions
      PROVE  /\ \A c \in ss[s].kids \cup ss[s].fin :
                  Allocated(c) /\ ss[c].bundled /\ ss[c].parent = s
             /\ ss[s].dones = IF ss[s].type = "freed" /\ ss[s].bundled THEN 1 ELSE 0
  BY <1>1 DEF Kin, Decent, Kinds, Allocated
<1>3. ASSUME NEW s \in Sessions, ss[s].parent # NoSession
      PROVE  LET p == ss[s].parent
             IN  Allocated(p) /\ ((s \in ss[p].kids) # (s \in ss[p].fin))
  <2> DEFINE p == ss[s].parent
  <2>1. p \in Sessions /\ s \in ss[p].kids \cup ss[p].fin
    BY <1>1, <1>3, KinTypes DEF Kin
  <2> HIDE DEF p
  <2>2. ss[p].kids \cap ss[p].fin = {} /\ ss[p].type \in Kinds
    BY <1>1, <2>1 DEF Kin
  <2>3. Allocated(p) /\ ((s \in ss[p].kids) # (s \in ss[p].fin))
    BY <2>1, <2>2 DEF Allocated, Kinds
  <2>4. QED
    BY <2>3 DEF p
<1>4. QED
  BY <1>2, <1>3 DEF Families

\* The relations between the sessions hold in every state, for any number of sessions.
THEOREM FamilyInvariance == Spec => []FamilyInv
<1>1. Init => FamilyInv
  BY FamilyInit
<1>2. FamilyInv /\ [Next]_vars => FamilyInv'
  BY FamilyNext
<1>3. QED
  BY <1>1, <1>2, PTL DEF Spec

\* Parents and children agree about each other, and the done callback of every child is
\* called once, whatever ends first (chassis.c, esq_unhook_child_session and
\* esq_move_child_session_into_finish_list).
THEOREM FamiliesTheorem == Spec => []Families
<1>1. FamilyInv => Families
  BY RelatedFamilies
<1>2. QED
  BY <1>1, FamilyInvariance, PTL

\* A worker that has left esq_worker_loop has freed every session.
THEOREM ExitTheorem == Spec => []ExitLeavesNothing
<1>1. FamilyInv => ExitLeavesNothing
  BY DEF FamilyInv
<1>2. QED
  BY <1>1, FamilyInvariance, PTL

-----------------------------------------------------------------------------
(* What the kernel has of one session. *)

\* The completions of a session that has one poll, and of one that has it removed.
LEMMA QueueFacts ==
  ASSUME NEW q \in Seq(FdEvents \cup {"canceled"})
  PROVE  /\ \A e \in FdEvents : Events(q) => Events(Append(q, e))
         /\ Events(q) => Removing(Append(q, "canceled"))
         /\ q # <<>> /\ Events(q) => Head(q) \in FdEvents /\ Events(Tail(q))
         /\ Removing(q) /\ Head(q) = "canceled" => Tail(q) = <<>>
         /\ Len(q) = 1 => Tail(q) = <<>>
         /\ Events(<<>>) /\ Len(Append(<<>>, "canceled")) = 1
<1>0. "canceled" \notin FdEvents /\ Len(q) \in Nat
  BY WorkerAssumption
<1>1. ASSUME NEW e \in FdEvents \cup {"canceled"}
      PROVE  /\ Len(Append(q, e)) = Len(q) + 1 /\ Append(q, e)[Len(q) + 1] = e
             /\ Append(q, e) # <<>>
             /\ \A i \in 1 .. Len(q) : Append(q, e)[i] = q[i]
  OBVIOUS
<1>2. \A e \in FdEvents : Events(q) => Events(Append(q, e))
  BY <1>0, <1>1 DEF Events
<1>3. Events(q) => Removing(Append(q, "canceled"))
  BY <1>0, <1>1 DEF Events, Removing
<1>4. q # <<>> => /\ Head(q) = q[1] /\ Len(q) >= 1 /\ Len(Tail(q)) = Len(q) - 1
                  /\ \A i \in 1 .. Len(Tail(q)) : Tail(q)[i] = q[i + 1]
  OBVIOUS
<1>5. q # <<>> /\ Events(q) => Head(q) \in FdEvents /\ Events(Tail(q))
  BY <1>0, <1>4 DEF Events
<1>6. Len(q) = 1 => Tail(q) = <<>>
  <2> SUFFICES ASSUME Len(q) = 1 PROVE Tail(q) = <<>>
    OBVIOUS
  <2>1. q # <<>>
    OBVIOUS
  <2>2. Tail(q) \in Seq(FdEvents \cup {"canceled"}) /\ Len(Tail(q)) = 0
    BY <1>4, <2>1
  <2>3. QED
    BY <2>2, EmptySeq
<1>7. Removing(q) /\ Head(q) = "canceled" => Tail(q) = <<>>
  <2> SUFFICES ASSUME Removing(q), Head(q) = "canceled"
               PROVE  Len(q) = 1
    BY <1>6
  <2>1. q # <<>> /\ \A i \in 1 .. Len(q) - 1 : q[i] \in FdEvents
    BY DEF Removing
  <2>2. Len(q) >= 1 /\ q[1] = "canceled"
    BY <1>4, <2>1
  <2>3. 1 \notin 1 .. Len(q) - 1
    BY <1>0, <2>1, <2>2
  <2>4. QED
    BY <1>0, <2>2, <2>3
<1>8. Events(<<>>) /\ Len(Append(<<>>, "canceled")) = 1
  BY DEF Events
<1>9. QED
  BY <1>2, <1>3, <1>5, <1>6, <1>7, <1>8

\* A step that leaves a session where it is.
LEMMA SameWatched ==
  ASSUME NEW q, NEW r, Watched(r), Same(q, r), q.lc = r.lc
  PROVE  Watched(q)
BY DEF Watched, SingleWatched, MultiWatched, Quiet, Same, SameKin

\* A session that is woken has no poll left, or keeps the one that stays.
LEMMA WokenWatched ==
  ASSUME NEW q, NEW r, r.type \in Kinds, Watched(r), Woken(q, r),
         r.type = "single" /\ r.lc = "winded_up" => Quiet(r)
  PROVE  Watched(q)
<1>1. CASE r.lc # "winded_up"
  BY <1>1, SameWatched DEF Woken
<1>2. CASE r.lc = "winded_up" /\ r.type = "single"
  <2>1. q.type = "single" /\ q.lc = "active" /\ Quiet(q)
    BY <1>2 DEF Woken, Same, Quiet
  <2>2. QED
    BY <2>1 DEF Watched, SingleWatched
<1>3. CASE r.lc = "winded_up" /\ r.type = "multi"
  <2>1. q.type = "multi" /\ q.lc = "active" /\ Same(q, r)
    BY <1>3 DEF Woken, Same
  <2>2. MultiWatched(r)
    BY <1>3 DEF Watched
  <2>3. MultiWatched(q)
    BY <1>3, <2>1, <2>2 DEF MultiWatched, Quiet, Same
  <2>4. QED
    BY <2>1, <2>3 DEF Watched
<1>4. QED
  BY <1>1, <1>2, <1>3 DEF Kinds

\* A notice of exit or timeout.
LEMMA RousedWatched ==
  ASSUME NEW q, NEW r, Fit(r), r.type \in Kinds, Watched(r), Roused(q, r)
  PROVE  Watched(q)
<1>1. CASE r.type = "single" /\ r.lc = "winded_up" /\ r.fd > 0
  <2>1. Unpolled(q, r) /\ q.lc = "wait_for_removed_then_active" /\ q.tm = "none"
    BY <1>1 DEF Roused
  <2>2. \/ r.poll = "one" /\ r.cq = <<>>
        \/ r.poll = "no" /\ Len(r.cq) = 1
    BY <1>1 DEF Watched, SingleWatched
  <2>3. q.type = "single" /\ q.poll = "no" /\ Len(q.cq) = 1
    BY <1>1, <2>1, <2>2 DEF Unpolled
  <2>4. QED
    BY <2>1, <2>3 DEF Watched, SingleWatched
<1>2. CASE ~(r.type = "single" /\ r.lc = "winded_up" /\ r.fd > 0)
  <2>1. Woken(q, r)
    BY <1>2 DEF Roused
  <2>2. r.fd \in {-1, 0, 1}
    BY DEF Fit, Session
  <2>3. r.type = "single" /\ r.lc = "winded_up" => Quiet(r)
    BY <1>2, <2>2 DEF Watched, SingleWatched
  <2>4. QED
    BY <2>1, <2>3, WokenWatched
<1>3. QED
  BY <1>1, <1>2

\* A session that begins to wait.
LEMMA InstalledWatched ==
  ASSUME NEW q, NEW r, r.type \in Kinds, Installed(q, r, PollKind(r)), Quiet(r),
         r.type = "single" /\ r.fd > 0 => r.kids = {} /\ r.fin = {},
         r.type = "multi" => r.tm = "none", r.fd \in {-1, 0, 1}
  PROVE  Watched(q)
<1>0. /\ q.lc = "winded_up" /\ q.type = r.type /\ q.fd = r.fd /\ q.tm = r.tm /\ q.cq = <<>>
      /\ q.poll = (IF r.fd > 0 THEN PollKind(r) ELSE "no") /\ q.kids = r.kids /\ q.fin = r.fin
  BY DEF Installed, Quiet, SameKin
<1>1. CASE r.type = "single"
  BY <1>0, <1>1 DEF Watched, SingleWatched, Quiet, PollKind
<1>2. CASE r.type = "multi"
  <2>1. Events(<<>>)
    BY DEF Events
  <2>2. QED
    BY <1>0, <1>2, <2>1 DEF Watched, MultiWatched, Quiet, PollKind
<1>3. QED
  BY <1>1, <1>2 DEF Kinds

\* A poll that reports an event.
LEMMA FiredWatched ==
  ASSUME NEW r, Fit(r), Watched(r), r.poll # "no", NEW e \in FdEvents
  PROVE  Watched(Fired(r, e))
<1> DEFINE q == Fired(r, e)
<1>1. /\ SameKin(q, r) /\ q.type = r.type /\ q.lc = r.lc /\ q.fd = r.fd
      /\ q.tm = r.tm /\ q.cq = Append(r.cq, e)
      /\ q.poll = IF r.poll = "two" THEN "one" ELSE IF r.poll = "one" THEN "no" ELSE r.poll
  BY FireStep
<1>2. r.cq \in Seq(FdEvents \cup {"canceled"}) /\ r.fd \in {-1, 0, 1}
  BY DEF Fit, Session
<1> HIDE DEF q
<1>3. CASE r.type = "single"
  <2>1. SingleWatched(r)
    BY <1>3 DEF Watched
  <2>2. r.lc = "winded_up" /\ r.fd > 0 /\ r.poll = "one" /\ r.cq = <<>>
    BY <1>2, <2>1 DEF SingleWatched, Quiet
  <2>3. Len(Append(<<>>, e)) = 1 /\ Events(Append(<<>>, e))
    BY DEF Events
  <2>4. q.poll = "no" /\ Len(q.cq) = 1 /\ Events(q.cq)
    BY <1>1, <2>2, <2>3
  <2>5. q.lc = "winded_up" /\ q.fd = 1 /\ q.kids = {} /\ q.fin = {}
    BY <1>1, <1>2, <2>1, <2>2 DEF SingleWatched, SameKin
  <2>6. SingleWatched(q)
    BY <2>4, <2>5 DEF SingleWatched
  <2>7. QED
    BY <1>1, <1>3, <2>6 DEF Watched, q
<1>4. CASE r.type = "multi"
  <2>1. MultiWatched(r)
    BY <1>4 DEF Watched
  <2>2. r.lc \in {"winded_up", "active", "execute_cb"} /\ r.fd > 0 /\ r.poll = "multi" /\ Events(r.cq)
    BY <2>1 DEF MultiWatched, Quiet
  <2>3. Events(q.cq) /\ q.poll = "multi"
    <3>1. Events(Append(r.cq, e))
      BY <1>2, <2>2, QueueFacts
    <3>2. QED
      BY <1>1, <2>2, <3>1
  <2>4. MultiWatched(q)
    BY <1>1, <2>1, <2>2, <2>3 DEF MultiWatched
  <2>5. QED
    BY <1>1, <1>4, <2>4 DEF Watched, q
<1>5. QED
  BY <1>3, <1>4 DEF Watched, Quiet

-----------------------------------------------------------------------------
(* The interval of the wait, and the end of the process. *)

\* A session on a timed list waits, once, until that timeout.
LEMMA TimedSleeps ==
  ASSUME NEW r, Fit(r), Watched(r), NEW c \in Timed, c \in r.on
  PROVE  r.type = "single" /\ r.lc = "winded_up" /\ r.tm = c
<1>1. c \in Class /\ c # "none" /\ r.on \in Homes(r)
  BY DEF Timed, Fit
<1>2. /\ r.type \in Kinds /\ c = r.tm
      /\ r.lc \in {"winded_up", "wait_for_removed_then_active", "wait_for_removed",
                   "wait_for_removed_and_wind_up", "wait_for_wind_up"}
  BY <1>1 DEF Homes, Kinds, Class
<1>3. r.type = "single"
  BY <1>1, <1>2 DEF Watched, MultiWatched, Kinds
<1>4. SingleWatched(r)
  BY <1>3 DEF Watched
<1>5. r.lc = "winded_up"
  BY <1>1, <1>2, <1>4 DEF SingleWatched
<1>6. QED
  BY <1>2, <1>3, <1>5

\* No session begins to wait for a timeout.
NoNewTimer ==
  \A x \in Sessions : ss'[x].type = "single" /\ ss'[x].lc = "winded_up" =>
    ss[x].type = "single" /\ ss[x].lc = "winded_up" /\ ss[x].tm = ss'[x].tm

\* The interval is brought up to date, or need not be.
IntervalKnown == interval' = Shortest(ss') \/ (interval' = interval /\ NoNewTimer)

\* Then it covers every timed list.
LEMMA IntervalCovers ==
  ASSUME PollInv, FamilyInv', Settled(ss'), wpc # "halted", IntervalKnown
  PROVE  Polled(ss', interval')
<1>1. AllFit(ss') /\ Kin(ss') /\ ss' \in [Sessions -> Session]
  BY DEF FamilyInv, Related, AllFit
<1>2. CASE interval' = Shortest(ss')
  <2>1. DOMAIN ss' = Sessions
    BY <1>1
  <2>2. QED
    BY <1>2, <2>1, ShortestIsLeast DEF Polled
<1>3. CASE interval' = interval /\ NoNewTimer
  <2> SUFFICES ASSUME NEW x \in Sessions, NEW c \in Timed, c \in ss'[x].on
               PROVE  interval # "none" /\ WaitMax[interval] <= WaitMax[c]
    BY <1>3 DEF Polled
  <2>1. Fit(ss'[x])
    BY <1>1 DEF AllFit
  <2>2. ~Finished(ss', x)
    <3> SUFFICES ASSUME Finished(ss', x) PROVE FALSE
      OBVIOUS
    <3>1. ss'[x].type \in Kinds /\ ss'[x].lc \in {"die", "execute_cb"}
      BY <1>1 DEF Kin, Finished
    <3>2. QED
      BY <2>1, <3>1 DEF Fit, Homes, Kinds
  <2>3. Watched(ss'[x])
    BY <2>2 DEF Settled
  <2>4. ss'[x].type = "single" /\ ss'[x].lc = "winded_up" /\ ss'[x].tm = c
    BY <2>1, <2>3, TimedSleeps
  <2>5. ss[x].type = "single" /\ ss[x].lc = "winded_up" /\ ss[x].tm = c
    BY <1>3, <2>4 DEF NoNewTimer
  <2>6. Fit(ss[x])
    BY FamilyFacts DEF PollInv
  <2>7. c \in ss[x].on
    BY <2>5, <2>6, WaitsOnList DEF Kinds
  <2>8. QED
    BY <2>7 DEF PollInv, Polled
<1>4. QED
  BY <1>2, <1>3 DEF IntervalKnown

\* A step in the loop or in a callback that leaves the relations as they are.
LEMMA PollMany ==
  ASSUME PollInv, FamilyInv', wpc # "halted", IntervalKnown, why' = why,
         \A x \in Sessions : /\ SameKin(ss'[x], ss[x])
                             /\ IF Finished(ss, x) THEN ss'[x] = ss[x] ELSE Watched(ss'[x])
  PROVE  PollInv'
<1>1. \A x \in Sessions : ss'[x].fin = ss[x].fin
  BY DEF SameKin
<1>2. \A x \in Sessions : Finished(ss', x) <=> Finished(ss, x)
  BY <1>1 DEF Finished
<1>3. Settled(ss')
  BY <1>2 DEF PollInv, Settled
<1>4. Polled(ss', interval')
  BY <1>3, IntervalCovers
<1>5. InvalidOnlyByRace'
  BY DEF PollInv, InvalidOnlyByRace
<1>6. QED
  BY <1>3, <1>4, <1>5 DEF PollInv

\* The same for a step of one session.
LEMMA PollOne ==
  ASSUME PollInv, FamilyInv', wpc # "halted", IntervalKnown, why' = why, NEW s \in Sessions,
         NEW q, ss' = [ss EXCEPT ![s] = q], ~Finished(ss, s), SameKin(q, ss[s]), Watched(q)
  PROVE  PollInv'
<1>1. ss \in [Sessions -> Session]
  BY FamilyFacts DEF PollInv
<1>2. ss'[s] = q /\ \A x \in Sessions \ {s} : ss'[x] = ss[x]
  BY <1>1
<1>3. \A x \in Sessions : SameKin(ss[x], ss[x]) /\ (~Finished(ss, x) => Watched(ss[x]))
  BY DEF SameKin, PollInv, Settled
<1>4. \A x \in Sessions : /\ SameKin(ss'[x], ss[x])
                          /\ IF Finished(ss, x) THEN ss'[x] = ss[x] ELSE Watched(ss'[x])
  BY <1>2, <1>3
<1>5. QED
  BY <1>4, PollMany

\* The places at which the process may end itself.
Races == {<<"single", "wait_for_removed_then_active">>, <<"multi", "wait_for_removed">>,
          <<"multi", "wait_for_cpu">>}

\* What INVALID_ACTION_TYPE leaves behind.
LEMMA RaceStep ==
  ASSUME InvalidOnlyByRace, NEW f, NEW pc, Becomes(f, pc),
         \A x \in Sessions : f[x].pop = "exit" => <<ss[x].type, ss[x].lc>> \in Races
  PROVE  InvalidOnlyByRace'
<1>1. CASE \E x \in Sessions : f[x].pop = "exit"
  <2> DEFINE s == CHOOSE x \in Sessions : f[x].pop = "exit"
  <2>1. s \in Sessions /\ f[s].pop = "exit"
    BY <1>1
  <2>2. why' = <<ss[s].type, ss[s].lc>>
    BY <1>1 DEF Becomes
  <2> HIDE DEF s
  <2>3. QED
    BY <2>1, <2>2 DEF InvalidOnlyByRace, Races
<1>2. CASE ~\E x \in Sessions : f[x].pop = "exit"
  BY <1>2 DEF Becomes, InvalidOnlyByRace
<1>3. QED
  BY <1>1, <1>2

\* The process ends.
LEMMA PollHalt ==
  ASSUME PollInv, FamilyInv', ss' = ss, wpc' = "halted", InvalidOnlyByRace'
  PROVE  PollInv'
BY DEF PollInv

\* A step that nobody's action can end.
LEMMA PollBecomes ==
  ASSUME PollInv, FamilyInv', wpc # "halted", NEW f, NEW pc, Becomes(f, pc),
         interval' = Shortest(f) \/ (interval' = interval /\ (ss' = f => NoNewTimer)),
         \A x \in Sessions : /\ SameKin(f[x], ss[x]) /\ f[x].pop = "no"
                             /\ IF Finished(ss, x) THEN f[x] = ss[x] ELSE Watched(f[x])
  PROVE  PollInv'
<1>1. ss' = f /\ why' = why
  BY DEF Becomes
<1>2. IntervalKnown
  BY <1>1 DEF IntervalKnown
<1>3. QED
  BY <1>1, <1>2, PollMany

-----------------------------------------------------------------------------
(* The steps keep what polls, completions and timers have to do with sessions. *)

\* A call of a callback, or of another thread, leaves the interval alone.
LEMMA IntervalOne ==
  ASSUME FamilyInv, NEW s \in Sessions, NEW q, ss' = [ss EXCEPT ![s] = q], interval' = interval,
         q.type = "single" /\ q.lc = "winded_up" =>
           ss[s].type = "single" /\ ss[s].lc = "winded_up" /\ ss[s].tm = q.tm
  PROVE  IntervalKnown
<1>1. ss \in [Sessions -> Session]
  BY FamilyFacts
<1>2. ss'[s] = q /\ \A x \in Sessions \ {s} : ss'[x] = ss[x]
  BY <1>1
<1>3. QED
  BY <1>2 DEF IntervalKnown, NoNewTimer

\* A session that is not there has nothing of the kernel.
LEMMA NoneIsQuiet ==
  ASSUME PollInv, NEW s \in Sessions, ss[s].type = "none"
  PROVE  Quiet(ss[s]) /\ ~Finished(ss, s) /\ ss[s].kids = {} /\ ss[s].fin = {}
<1>1. Related(ss) /\ Settled(ss)
  BY FamilyFacts DEF PollInv
<1>2. ~Finished(ss, s) /\ ss[s].kids = {} /\ ss[s].fin = {}
  BY <1>1, NoneIsAlone
<1>3. Watched(ss[s])
  BY <1>1, <1>2 DEF Settled
<1>4. QED
  BY <1>2, <1>3 DEF Watched

\* A session that waits to be picked up.
LEMMA QueuedWatched ==
  ASSUME NEW q, q.type \in Kinds, q.lc = "wait_for_cpu", Quiet(q), q.kids = {}, q.fin = {},
         q.type = "multi" => q.tm = "none"
  PROVE  Watched(q)
<1>1. CASE q.type = "single"
  BY <1>1 DEF Watched, SingleWatched
<1>2. CASE q.type = "multi"
  BY <1>2 DEF Watched, MultiWatched
<1>3. QED
  BY <1>1, <1>2 DEF Kinds

\* Two ways to start a session.
LEMMA PollStarts ==
  ASSUME PollInv, FamilyInv', NEW s \in Sessions, NEW kind \in Kinds, NEW fd \in Fds,
         NEW tm \in TimeClasses, StartRR(s, kind, fd, tm) \/ StartLocal(s, kind, fd, tm)
  PROVE  PollInv'
<1> DEFINE t == IF StartRR(s, kind, fd, tm) THEN "WIND_UP_RR" ELSE "WIND_UP"
<1>0. fd \in {-1, 0, 1} /\ tm \in Class /\ FamilyInv
  BY WorkerAssumption DEF PollInv
<1>1. /\ Related(ss) /\ ss[s].type = "none" /\ t \in {"WIND_UP", "WIND_UP_RR"}
      /\ ss' = TakeAction(Started(s, NewAction(kind, fd, tm)), s, Act(t))
      /\ UNCHANGED <<interval, why>> /\ wpc # "halted"
  BY <1>0, FamilyFacts DEF StartRR, StartLocal, Running, InCallback
<1> HIDE DEF t
<1>2. PICK q : Waits(q, s, kind, fd, tm, t)
  BY <1>0, <1>1, QueuedStep
<1>3. /\ SameKin(q, ss[s]) /\ q.type = kind /\ q.lc = "wait_for_cpu"
      /\ q.tm = (IF kind = "single" THEN tm ELSE "none")
      /\ q.poll = ss[s].poll /\ q.cq = ss[s].cq
      /\ TakeAction(Started(s, NewAction(kind, fd, tm)), s, Act(t)) = [ss EXCEPT ![s] = q]
  BY <1>2 DEF Waits
<1>4. Quiet(ss[s]) /\ ~Finished(ss, s) /\ ss[s].kids = {} /\ ss[s].fin = {}
  BY <1>1, NoneIsQuiet
<1>5. Watched(q)
  <2>1. Quiet(q) /\ q.kids = {} /\ q.fin = {}
    BY <1>3, <1>4 DEF Quiet, SameKin
  <2>2. QED
    BY <1>3, <2>1, QueuedWatched
<1>6. ss' = [ss EXCEPT ![s] = q]
  BY <1>1, <1>3
<1>7. IntervalKnown
  BY <1>0, <1>1, <1>3, <1>6, IntervalOne
<1>8. QED
  BY <1>1, <1>3, <1>4, <1>5, <1>6, <1>7, PollOne

\* A parent has one more child.
LEMMA PollStartChild ==
  ASSUME PollInv, FamilyInv', NEW s \in Sessions, NEW fd \in Fds, NEW tm \in TimeClasses,
         StartChild(s, fd, tm)
  PROVE  PollInv'
<1>0. FamilyInv /\ Settled(ss) /\ UNCHANGED <<interval, why, wpc>>
  BY DEF PollInv, StartChild
<1>1. /\ cur \in Sessions /\ s # cur /\ ss[s].type = "none" /\ wpc = "cb"
      /\ ss[cur].type = "single" /\ ss[cur].lc = "execute_cb"
      /\ ChildOf(ss'[s], ss[s], fd, tm) /\ ParentOf(ss'[cur], ss[cur], s)
      /\ \A x \in Sessions \ {s, cur} : ss'[x] = ss[x]
  BY <1>0, ChildStep
<1>2. Quiet(ss[s]) /\ ~Finished(ss, s) /\ ss[s].kids = {} /\ ss[s].fin = {}
  BY <1>1, NoneIsQuiet
<1>3. ~Finished(ss, cur)
  BY <1>0, <1>1, FamilyFacts
<1>4. \A x \in Sessions : Finished(ss', x) <=> Finished(ss, x)
  <2>1. \A x \in Sessions : ss'[x].fin = ss[x].fin
    BY <1>1 DEF ChildOf, ParentOf
  <2>2. QED
    BY <2>1 DEF Finished
<1>5. Watched(ss'[s])
  <2>1. /\ Quiet(ss'[s]) /\ ss'[s].kids = {} /\ ss'[s].fin = {} /\ ss'[s].type = "single"
        /\ ss'[s].lc = "wait_for_cpu"
    BY <1>1, <1>2 DEF ChildOf, Quiet
  <2>2. QED
    BY <2>1, QueuedWatched DEF Kinds
<1>6. Watched(ss'[cur])
  <2>1. Quiet(ss[cur])
    BY <1>0, <1>1, <1>3 DEF Settled, Watched, SingleWatched
  <2>2. Quiet(ss'[cur]) /\ ss'[cur].type = "single" /\ ss'[cur].lc = "execute_cb"
    BY <1>1, <2>1 DEF ParentOf, Quiet
  <2>3. QED
    BY <2>2 DEF Watched, SingleWatched
<1>7. Settled(ss')
  BY <1>0, <1>1, <1>2, <1>3, <1>4, <1>5, <1>6 DEF Settled
<1>8. NoNewTimer
  BY <1>1 DEF NoNewTimer, ChildOf, ParentOf
<1>9. Polled(ss', interval')
  BY <1>0, <1>1, <1>7, <1>8, IntervalCovers DEF IntervalKnown
<1>10. QED
  BY <1>0, <1>7, <1>9 DEF PollInv, InvalidOnlyByRace

\* A completion is posted.
LEMMA PollFire ==
  ASSUME PollInv, FamilyInv', NEW s \in Sessions, NEW e \in FdEvents, Fire(s, e)
  PROVE  PollInv'
<1> DEFINE q == Fired(ss[s], e)
<1>1. /\ ss' = [ss EXCEPT ![s] = q] /\ UNCHANGED <<interval, why>> /\ wpc # "halted"
      /\ ss[s].poll # "no" /\ FamilyInv /\ Settled(ss)
  BY DEF Fire, PollInv
<1>2. Fit(ss[s])
  BY <1>1, FamilyFacts
<1>3. ~Finished(ss, s)
  BY <1>1 DEF Settled, Quiet
<1>4. Watched(q)
  BY <1>1, <1>2, <1>3, FiredWatched DEF Settled
<1>5. SameKin(q, ss[s]) /\ q.type = ss[s].type /\ q.lc = ss[s].lc /\ q.tm = ss[s].tm
  BY <1>2, FireStep
<1> HIDE DEF q
<1>6. IntervalKnown
  BY <1>1, <1>5, IntervalOne
<1>7. QED
  BY <1>1, <1>3, <1>4, <1>5, <1>6, PollOne

\* The session whose callback runs has nothing of the kernel, but for the poll of
\* one that waits for many.
LEMMA CallerWatched ==
  ASSUME PollInv, wpc = "cb"
  PROVE  /\ FamilyInv /\ cur \in Sessions /\ ~Finished(ss, cur) /\ Watched(ss[cur])
         /\ ss[cur].type = "single" => SingleWatched(ss[cur]) /\ Quiet(ss[cur])
         /\ ss[cur].type = "multi" => MultiWatched(ss[cur])
         /\ Fit(ss[cur]) /\ ss[cur] \in Session /\ Decent(ss[cur]) /\ ss \in [Sessions -> Session]
         /\ <<ss[cur].type, ss[cur].lc>> \in InCb
<1>1. /\ FamilyInv /\ cur \in Sessions /\ ~Finished(ss, cur) /\ Fit(ss[cur]) /\ ss[cur] \in Session
      /\ Decent(ss[cur]) /\ ss \in [Sessions -> Session] /\ <<ss[cur].type, ss[cur].lc>> \in InCb
  BY FamilyFacts DEF PollInv
<1>2. Watched(ss[cur])
  BY <1>1 DEF PollInv, Settled
<1>3. ss[cur].type = "single" => SingleWatched(ss[cur])
  BY <1>2 DEF Watched
<1>4. ss[cur].type = "multi" => MultiWatched(ss[cur])
  BY <1>2 DEF Watched
<1>5. ss[cur].type = "single" => Quiet(ss[cur])
  <2>1. ss[cur].type = "single" => ss[cur].lc \in {"execute_cb", "wait_for_reinstall"}
    BY <1>1 DEF InCb
  <2>2. QED
    BY <1>3, <2>1 DEF SingleWatched
<1>6. QED
  BY <1>1, <1>2, <1>3, <1>4, <1>5

\* esq_session_set_socket_fd in a callback.  A session that has children does not ask for
\* a descriptor to be polled.
LEMMA PollWaitAgain ==
  ASSUME PollInv, FamilyInv', 1 \notin ParentFds, NEW fd \in Fds, NEW tm \in TimeClasses,
         WaitAgain(fd, tm)
  PROVE  PollInv'
<1> DEFINE r == ss[cur]
           a == AddFd("ADD_SOCK_FD_SINGLE", fd, tm)
           q == Dispatch(r, a)
<1>1. /\ wpc = "cb" /\ r.type = "single" /\ r.lc = "execute_cb" /\ ss' = TakeAction(ss, cur, a)
      /\ UNCHANGED <<interval, why>> /\ (r.kids \cup r.fin # {} => fd \in ParentFds)
  BY DEF WaitAgain, InCallback
<1>2. /\ FamilyInv /\ cur \in Sessions /\ ~Finished(ss, cur) /\ Quiet(r)
      /\ r \in Session /\ Decent(r) /\ ss \in [Sessions -> Session]
  BY <1>1, CallerWatched
<1>3. fd \in {-1, 0, 1} /\ tm \in Class
  BY WorkerAssumption
<1>4. Rearmed(q, r, fd, tm)
  BY <1>1, <1>2, <1>3, AgainStep
<1> HIDE DEF a
<1>5. q.pop # "free"
  BY <1>2, <1>4 DEF Rearmed, Decent
<1>6. ss' = [ss EXCEPT ![cur] = q]
  BY <1>1, <1>2, <1>5, TakeOne
<1> HIDE DEF q, r
<1>7. /\ SameKin(q, r) /\ q.type = "single" /\ q.lc = "wait_for_reinstall" /\ q.fd = fd /\ Quiet(q)
      /\ q.kids = r.kids /\ q.fin = r.fin
  BY <1>1, <1>2, <1>4 DEF Rearmed, Quiet, SameKin
<1>8. fd > 0 => q.kids = {} /\ q.fin = {}
  <2>1. fd > 0 => fd = 1
    BY <1>3
  <2>2. QED
    BY <1>1, <1>7, <2>1
<1>9. Watched(q)
  BY <1>7, <1>8 DEF Watched, SingleWatched
<1>10. SameKin(q, ss[cur])
  BY <1>7 DEF r
<1>11. IntervalKnown
  BY <1>1, <1>2, <1>6, <1>7, IntervalOne
<1>12. QED
  BY <1>1, <1>2, <1>6, <1>9, <1>10, <1>11, PollOne

\* esq_session_set_socket_fd_multi in a callback
LEMMA PollBecomeMulti ==
  ASSUME PollInv, FamilyInv', NEW fd \in Fds, BecomeMulti(fd)
  PROVE  PollInv'
<1> DEFINE r == ss[cur]
           a == AddFd("ADD_SOCK_FD_MULTI", fd, "none")
           q == Dispatch(r, a)
<1>1. /\ wpc = "cb" /\ r.type = "single" /\ r.lc = "execute_cb" /\ ss' = TakeAction(ss, cur, a)
      /\ UNCHANGED <<interval, why>>
  BY DEF BecomeMulti, InCallback
<1>2. /\ FamilyInv /\ cur \in Sessions /\ ~Finished(ss, cur) /\ Quiet(r)
      /\ r \in Session /\ Decent(r) /\ ss \in [Sessions -> Session]
  BY <1>1, CallerWatched
<1>3. fd \in {-1, 0, 1}
  BY WorkerAssumption
<1>4. Fresh(q, r, "multi", fd, "none")
  BY <1>1, <1>2, <1>3, BecomeStep
<1> HIDE DEF a
<1>5. q.pop # "free"
  BY <1>2, <1>4 DEF Fresh, Decent
<1>6. ss' = [ss EXCEPT ![cur] = q]
  BY <1>1, <1>2, <1>5, TakeOne
<1> HIDE DEF q, r
<1>7. /\ SameKin(q, r) /\ q.type = "multi" /\ q.lc = "initial" /\ q.tm = "none" /\ Quiet(q)
  BY <1>2, <1>4 DEF Fresh, Quiet
<1>8. Watched(q)
  BY <1>7 DEF Watched, MultiWatched
<1>9. SameKin(q, ss[cur])
  BY <1>7 DEF r
<1>10. IntervalKnown
  BY <1>1, <1>2, <1>6, <1>7, IntervalOne
<1>11. QED
  BY <1>1, <1>2, <1>6, <1>8, <1>9, <1>10, PollOne

\* esq_session_remove_req in a callback: the confirmation is the last completion.
LEMMA PollRemoveReq ==
  ASSUME PollInv, FamilyInv', RemoveReq
  PROVE  PollInv'
<1> DEFINE r == ss[cur]
           q == Dispatch(r, Act("REMOVE_FD"))
<1>1. /\ wpc = "cb" /\ r.type = "multi" /\ r.lc = "execute_cb"
      /\ ss' = TakeAction(ss, cur, Act("REMOVE_FD")) /\ UNCHANGED <<interval, why>>
  BY DEF RemoveReq, InCallback
<1>2. /\ FamilyInv /\ cur \in Sessions /\ ~Finished(ss, cur) /\ MultiWatched(r) /\ Fit(r)
      /\ r \in Session /\ Decent(r) /\ ss \in [Sessions -> Session]
  BY <1>1, CallerWatched
<1>3. IF r.fd > 0
      THEN Unpolled(q, r) /\ q.lc = "wait_for_removed_and_wind_up" /\ q.tm = r.tm
      ELSE /\ SameKin(q, r) /\ q.type = r.type /\ q.lc = r.lc /\ q.fd = 0 /\ q.tm = r.tm
           /\ q.poll = r.poll /\ q.cq = r.cq /\ q.pop = r.pop
  BY <1>1, <1>2, ReqStep
<1>4. SameKin(q, r) /\ q.type = "multi" /\ q.pop = r.pop
  BY <1>1, <1>3 DEF Unpolled
<1>5. ss' = [ss EXCEPT ![cur] = q]
  BY <1>1, <1>2, <1>4, TakeOne DEF Decent
<1>6. r.cq \in Seq(FdEvents \cup {"canceled"}) /\ r.tm = "none"
  BY <1>2 DEF Session, MultiWatched
<1> HIDE DEF q, r
<1>7. ASSUME r.fd > 0 PROVE Watched(q)
  <2>1. r.poll = "multi" /\ Events(r.cq)
    BY <1>1, <1>2, <1>7 DEF MultiWatched
  <2>2. Removing(Append(r.cq, "canceled"))
    BY <1>6, <2>1, QueueFacts
  <2>3. q.lc = "wait_for_removed_and_wind_up" /\ q.poll = "no" /\ Removing(q.cq) /\ q.tm = "none"
    BY <1>3, <1>6, <1>7, <2>1, <2>2 DEF Unpolled
  <2>4. QED
    BY <1>4, <2>3 DEF Watched, MultiWatched
<1>8. ASSUME ~(r.fd > 0) PROVE Watched(q)
  <2>1. Quiet(r)
    BY <1>1, <1>2, <1>8 DEF MultiWatched
  <2>2. Quiet(q) /\ q.lc = "execute_cb" /\ q.fd = 0 /\ q.tm = "none"
    BY <1>1, <1>3, <1>6, <1>8, <2>1 DEF Quiet
  <2>3. QED
    BY <1>4, <2>2 DEF Watched, MultiWatched
<1>9. Watched(q)
  BY <1>7, <1>8
<1>10. SameKin(q, ss[cur])
  BY <1>4 DEF r
<1>11. IntervalKnown
  BY <1>1, <1>2, <1>4, <1>5, IntervalOne
<1>12. QED
  BY <1>1, <1>2, <1>5, <1>9, <1>10, <1>11, PollOne

\* A session whose relatives change while it stays where it is.
LEMMA KeptWatched ==
  ASSUME NEW q, NEW r, Kept(q, r), q.lc = r.lc, Watched(r),
         r.type = "single" /\ r.kids = {} /\ r.fin = {} => q.kids = {} /\ q.fin = {}
  PROVE  Watched(q)
BY DEF Kept, Watched, SingleWatched, MultiWatched, Quiet

\* The finished children are freed, and nothing of the kernel refers to them.
LEMMA PollDone ==
  ASSUME PollInv, FamilyInv', DoneCbs
  PROVE  PollInv'
<1> DEFINE F == ss[cur].fin
<1>0. FamilyInv /\ Settled(ss) /\ UNCHANGED <<interval, why, wpc>> /\ Kin(ss)
  BY FamilyFacts DEF PollInv, DoneCbs
<1>1. /\ wpc = "cb" /\ cur \in Sessions /\ F \subseteq Sessions \ {cur}
      /\ ss'[cur].fin = {} /\ ss'[cur].kids = ss[cur].kids /\ Kept(ss'[cur], ss[cur])
      /\ ss'[cur].lc = ss[cur].lc
      /\ \A x \in F : Ended(ss'[x], ss[x], 1)
      /\ \A x \in Sessions \ ({cur} \cup F) : ss'[x] = ss[x]
  BY <1>0, DoneStep
<1>2. ~Finished(ss, cur) /\ Watched(ss[cur])
  BY <1>1, CallerWatched
<1>3. \A x \in F : Finished(ss, x)
  BY <1>1 DEF Finished
<1> HIDE DEF F
<1>4. \A x \in F : ss'[x].fin = {} /\ ss'[x].type = "freed" /\ ss'[x].lc = "initial" /\ Quiet(ss'[x])
  BY <1>0, <1>1, <1>3 DEF Ended, Settled, Quiet
<1>5. \A x \in Sessions : Finished(ss', x) => Finished(ss, x)
  <2>1. \A t \in Sessions : ss'[t].fin \subseteq ss[t].fin
    BY <1>1, <1>4
  <2>2. QED
    BY <2>1 DEF Finished
<1>6. \A x \in Sessions : Finished(ss, x) => x \in F \/ Finished(ss', x)
  <2> SUFFICES ASSUME NEW x \in Sessions, NEW t \in Sessions, x \in ss[t].fin, x \notin F
               PROVE  Finished(ss', x)
    BY DEF Finished
  <2>1. t # cur
    BY DEF F
  <2>2. t \notin F
    BY <1>0, <1>1 DEF F, Kin
  <2>3. QED
    BY <1>1, <2>1, <2>2 DEF Finished
<1>7. Watched(ss'[cur])
  BY <1>1, <1>2, KeptWatched
<1>8. \A x \in F : Watched(ss'[x])
  BY <1>4 DEF Watched
<1>9. Settled(ss')
  <2> SUFFICES ASSUME NEW x \in Sessions
               PROVE  IF Finished(ss', x) THEN Quiet(ss'[x]) ELSE Watched(ss'[x])
    BY DEF Settled
  <2>1. CASE x = cur
    BY <1>2, <1>5, <1>7, <2>1
  <2>2. CASE x \in F
    BY <1>4, <1>8, <2>2
  <2>3. CASE x \notin {cur} \cup F
    BY <1>0, <1>1, <1>5, <1>6, <2>3 DEF Settled
  <2>4. QED
    BY <2>1, <2>2, <2>3
<1>10. NoNewTimer
  BY <1>1, <1>4 DEF NoNewTimer, Kept
<1>11. Polled(ss', interval')
  BY <1>0, <1>1, <1>9, <1>10, IntervalCovers DEF IntervalKnown
<1>12. QED
  BY <1>0, <1>9, <1>11 DEF PollInv, InvalidOnlyByRace

\* A session that takes no part in a step.
LEMMA AsideFacts ==
  ASSUME PollInv, NEW x \in Sessions
  PROVE  /\ SameKin(ss[x], ss[x]) /\ ss[x].pop = "no" /\ Fit(ss[x])
         /\ IF Finished(ss, x) THEN Quiet(ss[x]) ELSE Watched(ss[x])
<1>1. FamilyInv /\ Settled(ss)
  BY DEF PollInv
<1>2. Fit(ss[x]) /\ Decent(ss[x])
  BY <1>1, FamilyFacts
<1>3. QED
  BY <1>1, <1>2 DEF SameKin, Settled, Decent

\* A session on a list is not finished.
LEMMA ListedWatched ==
  ASSUME PollInv, NEW x \in Sessions, ss[x].on # {}
  PROVE  ~Finished(ss, x) /\ Watched(ss[x]) /\ Fit(ss[x]) /\ ss[x].pop = "no"
<1>1. ~Finished(ss, x)
  BY FinishedOffList DEF PollInv
<1>2. QED
  BY <1>1, AsideFacts

\* esq_session_pop_the_first_active, esq_worker_execute_session
LEMMA PollExecute ==
  ASSUME PollInv, FamilyInv', NEW s \in Sessions, Execute(s)
  PROVE  PollInv'
<1> DEFINE r == ss[s]
           q == Dispatch(r, Act("EXECUTE_CB"))
           f == TakeAction(ss, s, Act("EXECUTE_CB"))
<1>1. /\ wpc = "loop" /\ "active" \in r.on /\ Becomes(f, "cb") /\ interval' = interval
      /\ FamilyInv /\ ss \in [Sessions -> Session]
  BY FamilyFacts DEF Execute, PollInv
<1>2. ~Finished(ss, s) /\ Watched(r) /\ Fit(r) /\ r.pop = "no"
  BY <1>1, ListedWatched
<1>3. r.type \in Kinds /\ r.lc = "active" /\ Same(q, r) /\ q.lc = "execute_cb"
  BY <1>1, <1>2, ExecuteStep
<1>4. q.pop = "no"
  BY <1>2, <1>3 DEF Same
<1>5. f = [ss EXCEPT ![s] = q]
  BY <1>1, <1>4, TakeOne
<1> HIDE DEF f, q, r
<1>6. f[s] = q /\ \A x \in Sessions \ {s} : f[x] = ss[x]
  BY <1>1, <1>5
<1>7. Watched(q)
  <2>1. CASE r.type = "single"
    <3>1. Quiet(q) /\ q.type = "single"
      BY <1>2, <1>3, <2>1 DEF Watched, SingleWatched, Same, Quiet
    <3>2. QED
      BY <1>3, <3>1 DEF Watched, SingleWatched
  <2>2. CASE r.type = "multi"
    <3>1. MultiWatched(r)
      BY <1>2, <2>2 DEF Watched
    <3>2. MultiWatched(q) /\ q.type = "multi"
      BY <1>3, <2>2, <3>1 DEF MultiWatched, Same, Quiet
    <3>3. QED
      BY <3>2 DEF Watched
  <2>3. QED
    BY <1>3, <2>1, <2>2 DEF Kinds
<1>8. SameKin(q, r)
  BY <1>3 DEF Same
<1>9. \A x \in Sessions : /\ SameKin(f[x], ss[x]) /\ f[x].pop = "no"
                          /\ IF Finished(ss, x) THEN f[x] = ss[x] ELSE Watched(f[x])
  BY <1>2, <1>4, <1>6, <1>7, <1>8, AsideFacts DEF r
<1>10. ss' = f => NoNewTimer
  BY <1>3, <1>6 DEF NoNewTimer
<1>11. QED
  BY <1>1, <1>9, <1>10, PollBecomes

\* PICK_UP, for a session of a list of new ones.
LEMMA PickedWatched ==
  ASSUME PollInv, NEW s \in Sessions, NEW l \in {"new", "global_new"}, l \in ss[s].on
  PROVE  LET q == Dispatch(Leave(ss[s], l), Act("PICK_UP"))
         IN  /\ SameKin(q, ss[s]) /\ q.pop = "no" /\ q.type = ss[s].type /\ q.type \in Kinds
             /\ Watched(q) /\ ~Finished(ss, s)
<1> DEFINE r == ss[s]
           q == Dispatch(Leave(r, l), Act("PICK_UP"))
<1>1. ~Finished(ss, s) /\ Watched(r) /\ Fit(r) /\ r.pop = "no"
  BY ListedWatched
<1>2. r.type \in Kinds /\ r.lc = "wait_for_cpu" /\ Installed(q, r, PollKind(r))
  BY <1>1, PickUpStep
<1> HIDE DEF q, r
<1>3. SameKin(q, r) /\ q.type = r.type /\ q.pop = "no"
  BY <1>1, <1>2 DEF Installed
<1>4. /\ Quiet(r) /\ (r.type = "single" => r.kids = {} /\ r.fin = {})
      /\ (r.type = "multi" => r.tm = "none")
  BY <1>1, <1>2 DEF Watched, SingleWatched, MultiWatched, Kinds
<1>5. r.fd \in {-1, 0, 1}
  BY <1>1 DEF Fit, Session
<1>6. Watched(q)
  BY <1>2, <1>4, <1>5, InstalledWatched
<1>7. QED
  BY <1>1, <1>2, <1>3, <1>6 DEF q, r

\* esq_worker_pick_up_from_local_list
LEMMA PollPickUpLocal ==
  ASSUME PollInv, FamilyInv', NEW s \in Sessions, PickUpLocal(s)
  PROVE  PollInv'
<1> DEFINE r == ss[s]
           q == Dispatch(Leave(r, "new"), Act("PICK_UP"))
           f == [ss EXCEPT ![s] = q]
<1>1. /\ wpc = "loop" /\ "new" \in r.on /\ Becomes(f, "loop") /\ ss \in [Sessions -> Session]
      /\ interval' = IF r.type = "single" THEN Shortest(f) ELSE interval
  BY FamilyFacts DEF PickUpLocal, PollInv
<1>2. SameKin(q, r) /\ q.pop = "no" /\ q.type = r.type /\ q.type \in Kinds /\ Watched(q)
      /\ ~Finished(ss, s)
  BY <1>1, PickedWatched
<1> HIDE DEF q, r
<1>3. f[s] = q /\ \A x \in Sessions \ {s} : f[x] = ss[x]
  BY <1>1
<1> HIDE DEF f
<1>4. \A x \in Sessions : /\ SameKin(f[x], ss[x]) /\ f[x].pop = "no"
                          /\ IF Finished(ss, x) THEN f[x] = ss[x] ELSE Watched(f[x])
  BY <1>2, <1>3, AsideFacts DEF r
<1>5. r.type # "single" /\ ss' = f => NoNewTimer
  BY <1>2, <1>3 DEF NoNewTimer
<1>6. QED
  BY <1>1, <1>4, <1>5, PollBecomes

\* esq_worker_pick_up_from_global_list
LEMMA PollPickUpGlobal ==
  ASSUME PollInv, FamilyInv', PickUpGlobal
  PROVE  PollInv'
<1> DEFINE f == [s \in Sessions |->
                   IF s \in OnList("global_new")
                   THEN Dispatch(Leave(ss[s], "global_new"), Act("PICK_UP")) ELSE ss[s]]
           timed == \E s \in OnList("global_new") : ss[s].type = "single"
<1>1. /\ wpc = "loop" /\ Becomes(f, "loop")
      /\ interval' = IF timed THEN Shortest(f) ELSE interval
  BY DEF PickUpGlobal
<1>2. ASSUME NEW x \in Sessions
      PROVE  /\ SameKin(f[x], ss[x]) /\ f[x].pop = "no"
             /\ IF Finished(ss, x) THEN f[x] = ss[x] ELSE Watched(f[x])
             /\ f[x] = ss[x] \/ (x \in OnList("global_new") /\ f[x].type = ss[x].type)
  <2> DEFINE q == Dispatch(Leave(ss[x], "global_new"), Act("PICK_UP"))
  <2>1. CASE x \in OnList("global_new")
    <3>1. f[x] = q /\ "global_new" \in ss[x].on
      BY <2>1 DEF OnList
    <3>2. SameKin(q, ss[x]) /\ q.pop = "no" /\ q.type = ss[x].type /\ Watched(q) /\ ~Finished(ss, x)
      BY <3>1, PickedWatched
    <3> HIDE DEF q
    <3>3. QED
      BY <2>1, <3>1, <3>2
  <2>2. CASE x \notin OnList("global_new")
    <3>1. f[x] = ss[x]
      BY <2>2
    <3>2. QED
      BY <3>1, AsideFacts
  <2>3. QED
    BY <2>1, <2>2
<1> HIDE DEF f
<1>3. ~timed /\ ss' = f => NoNewTimer
  BY <1>2 DEF NoNewTimer
<1>4. QED
  BY <1>1, <1>2, <1>3, PollBecomes

\* A session that waits or is active takes the notice of the exit.
LEMMA ListedObeys ==
  ASSUME PollInv, wpc \notin {"cb", "halted"}, NEW s \in Sessions,
         ss[s].on \cap (Class \cup {"active"}) # {}
  PROVE  Obeys(ss[s])
<1>1. /\ ss[s].type \in Kinds /\ ss[s].lc \in AtRest /\ ss[s].lc # "wait_for_cpu" /\ ss[s].on # {}
  BY ListedRests DEF PollInv
<1>2. Watched(ss[s])
  BY <1>1, ListedWatched
<1>3. CASE ss[s].type = "single"
  BY <1>1, <1>2, <1>3 DEF Watched, SingleWatched, AtRest, Obeys
<1>4. CASE ss[s].type = "multi"
  BY <1>1, <1>2, <1>4 DEF Watched, MultiWatched, AtRest, Obeys
<1>5. QED
  BY <1>1, <1>3, <1>4 DEF Kinds

\* What a notice leaves of a session, seen from the step.
LEMMA RousedStep ==
  ASSUME PollInv, NEW x \in Sessions, ss[x].on # {}, ss[x].type \in Kinds, NEW q, Roused(q, ss[x])
  PROVE  /\ SameKin(q, ss[x]) /\ q.pop = "no" /\ ~Finished(ss, x) /\ Watched(q)
         /\ q.lc # "winded_up"
<1>1. ~Finished(ss, x) /\ Watched(ss[x]) /\ Fit(ss[x]) /\ ss[x].pop = "no"
  BY ListedWatched
<1>2. Watched(q)
  BY <1>1, RousedWatched
<1>3. SameKin(q, ss[x]) /\ q.pop = "no"
  BY <1>1 DEF Roused, Woken, Same, Unpolled
<1>4. q.lc # "winded_up"
  BY DEF Roused, Woken
<1>5. QED
  BY <1>1, <1>2, <1>3, <1>4

\* esq_worker_notify_exit_to_all_sessions: nobody refuses.
LEMMA PollNotified ==
  ASSUME PollInv, FamilyInv', wpc \notin {"cb", "halted"}, NEW pc, Becomes(Notified, pc),
         interval' = interval
  PROVE  PollInv'
<1>1. ASSUME NEW x \in Sessions
      PROVE  /\ SameKin(Notified[x], ss[x]) /\ Notified[x].pop = "no"
             /\ IF Finished(ss, x) THEN Notified[x] = ss[x] ELSE Watched(Notified[x])
             /\ Notified[x] = ss[x] \/ Notified[x].lc # "winded_up"
  <2> DEFINE q == Dispatch(ss[x], Act("NOTIFY_EXIT"))
  <2>1. CASE x \in Listed
    <3>1. Notified[x] = q /\ ss[x].on \cap (Class \cup {"active"}) # {}
      BY <2>1 DEF Notified, Listed
    <3>2. ss[x].type \in Kinds /\ ss[x].on # {} /\ Fit(ss[x]) /\ Obeys(ss[x])
      BY <3>1, ListedRests, ListedObeys DEF PollInv
    <3>3. Roused(q, ss[x])
      BY <3>2, ExitStep
    <3> HIDE DEF q
    <3>4. /\ SameKin(q, ss[x]) /\ q.pop = "no" /\ ~Finished(ss, x) /\ Watched(q)
          /\ q.lc # "winded_up"
      BY <3>2, <3>3, RousedStep
    <3>5. QED
      BY <3>1, <3>4
  <2>2. CASE x \notin Listed
    <3>1. Notified[x] = ss[x]
      BY <2>2 DEF Notified
    <3>2. QED
      BY <3>1, AsideFacts
  <2>3. QED
    BY <2>1, <2>2
<1>2. ss' = Notified => NoNewTimer
  BY <1>1 DEF NoNewTimer
<1>3. QED
  BY <1>1, <1>2, PollBecomes

\* esq_session_timing: only sessions that wait are on the timed lists.
LEMMA PollTiming ==
  ASSUME PollInv, FamilyInv', NEW late \in SUBSET Sessions, Timing(late)
  PROVE  PollInv'
<1> DEFINE f == [s \in Sessions |-> IF s \in late THEN Dispatch(ss[s], Act("NOTIFY_TIMEOUT"))
                                    ELSE ss[s]]
<1>1. /\ wpc = "timing" /\ Becomes(f, "check") /\ interval' = Shortest(f)
      /\ \A s \in late : ss[s].on \cap Timed # {}
  BY DEF Timing
<1>2. ASSUME NEW x \in Sessions
      PROVE  /\ SameKin(f[x], ss[x]) /\ f[x].pop = "no"
             /\ IF Finished(ss, x) THEN f[x] = ss[x] ELSE Watched(f[x])
  <2> DEFINE q == Dispatch(ss[x], Act("NOTIFY_TIMEOUT"))
  <2>1. CASE x \in late
    <3>1. f[x] = q /\ ss[x].on # {}
      BY <1>1, <2>1
    <3>2. PICK c \in Timed : c \in ss[x].on
      BY <1>1, <2>1
    <3>3. Watched(ss[x]) /\ Fit(ss[x])
      BY <3>1, ListedWatched
    <3>4. ss[x].type = "single" /\ ss[x].lc = "winded_up"
      BY <3>2, <3>3, TimedSleeps
    <3>5. Roused(q, ss[x])
      BY <3>3, <3>4, TimeoutStep DEF Kinds
    <3> HIDE DEF q
    <3>6. SameKin(q, ss[x]) /\ q.pop = "no" /\ ~Finished(ss, x) /\ Watched(q)
      BY <3>1, <3>4, <3>5, RousedStep DEF Kinds
    <3>7. QED
      BY <3>1, <3>6
  <2>2. CASE x \notin late
    <3>1. f[x] = ss[x]
      BY <2>2
    <3>2. QED
      BY <3>1, AsideFacts
  <2>3. QED
    BY <2>1, <2>2
<1> HIDE DEF f
<1>3. QED
  BY <1>1, <1>2, PollBecomes

\* Steps that leave the sessions and the interval alone.
LEMMA PollIdle ==
  ASSUME PollInv, FamilyInv', UNCHANGED <<ss, interval, why>>,
         wpc = "halted" => wpc' = "halted"
  PROVE  PollInv'
BY DEF PollInv, InvalidOnlyByRace

\* The end of a turn.
LEMMA PollCheck ==
  ASSUME PollInv, FamilyInv', Check
  PROVE  PollInv'
<1>1. wpc = "check" /\ interval' = interval
  BY DEF Check
<1>2. CASE wpc' \in {"loop", "exited"} /\ UNCHANGED <<ss, why>>
  BY <1>1, <1>2, PollIdle
<1>3. CASE Becomes(Notified, "loop")
  BY <1>1, <1>3, PollNotified
<1>4. QED
  BY <1>2, <1>3 DEF Check

\* What is left when s has been freed: the sessions that stay are watched as before, and
\* the kernel knows nothing of s.
LEMMA FreedSettled ==
  ASSUME NEW g, NEW h, NEW s \in Sessions, FreedWell(g, h, s), Related(h), h[s].type \in Kinds,
         ~Finished(h, s), Quiet(h[s]), \A x \in Sessions : h[x].fd \in {-1, 0, 1},
         \A x \in Sessions \ {s} : IF Finished(h, x) THEN Quiet(h[x]) ELSE Watched(h[x])
  PROVE  /\ Settled(g)
         /\ \A x \in Sessions : g[x].type = "single" /\ g[x].lc = "winded_up" =>
              h[x].type = "single" /\ h[x].lc = "winded_up" /\ h[x].tm = g[x].tm
<1>0. /\ AllFit(h) /\ Kin(h) /\ AfterFree(g, h, s) /\ Related(g) /\ Kin(g)
      /\ \A x \in Sessions : Finished(g, x) => x = s \/ (Finished(h, x) /\ Kept(g[x], h[x]))
  BY DEF FreedWell, Related
<1>1. Leftover(g[s], h[s])
  BY <1>0 DEF AfterFree
<1>2. Quiet(g[s])
  BY <1>1 DEF Leftover, Quiet
<1>3. ~Finished(g, s) => Watched(g[s])
  <2> SUFFICES ASSUME ~Finished(g, s) PROVE Watched(g[s])
    OBVIOUS
  <2>1. g[s].type \notin Kinds
    BY DEF FreedWell
  <2>2. g[s].type = "freed" /\ g[s].lc = "initial"
    BY <1>1, <2>1 DEF Leftover
  <2>3. QED
    BY <1>2, <2>2 DEF Watched
<1>4. ASSUME NEW x \in h[s].fin
      PROVE  x \in Sessions /\ Quiet(g[x]) /\ Watched(g[x]) /\ g[x].type = "freed"
  <2>1. x \in Sessions /\ Ended(g[x], h[x], 1) /\ Finished(h, x)
    BY <1>0, KinTypes DEF AfterFree, Finished
  <2>2. Quiet(h[x])
    BY <2>1
  <2>3. Quiet(g[x]) /\ g[x].type = "freed" /\ g[x].lc = "initial"
    BY <2>1, <2>2 DEF Ended, Quiet
  <2>4. QED
    BY <2>1, <2>3 DEF Watched
<1>5. ASSUME NEW x \in Sessions \ ({s} \cup h[s].fin)
      PROVE  /\ IF Finished(g, x) THEN Quiet(g[x]) ELSE Watched(g[x])
             /\ g[x].type = "single" /\ g[x].lc = "winded_up" =>
                  h[x].type = "single" /\ h[x].lc = "winded_up" /\ h[x].tm = g[x].tm
  <2>1. /\ Kept(g[x], h[x]) /\ g[x].kids = h[x].kids \ {s}
        /\ g[x].fin = (IF x = h[s].parent THEN h[x].fin \cup {s} ELSE h[x].fin)
        /\ x # h[s].parent => g[x].lc = h[x].lc
    BY <1>0 DEF AfterFree
  <2>2. g[x].type = "single" /\ g[x].lc = "winded_up" =>
          h[x].type = "single" /\ h[x].lc = "winded_up" /\ h[x].tm = g[x].tm
    BY <2>1 DEF Kept
  <2>3. CASE Finished(g, x)
    <3>1. Quiet(h[x])
      BY <1>0, <2>3
    <3>2. Quiet(g[x])
      BY <2>1, <3>1 DEF Kept, Quiet
    <3>3. QED
      BY <2>2, <2>3, <3>2
  <2>4. CASE ~Finished(g, x)
    <3>1. ~Finished(h, x) /\ Watched(h[x])
      <4>1. g[x].type = h[x].type /\ (g[x].type \in Kinds => ~Finished(h, x))
        BY <2>1, <2>4 DEF FreedWell, Kept
      <4>2. Finished(h, x) => h[x].type \in Kinds
        BY <1>0 DEF Kin, Finished
      <4>3. QED
        BY <4>1, <4>2
    <3>2. CASE x # h[s].parent
      <4>1. Watched(g[x])
        BY <2>1, <3>1, <3>2, KeptWatched
      <4>2. QED
        BY <2>2, <2>4, <4>1
    <3>3. CASE x = h[s].parent
      <4>1. s \in h[x].kids /\ h[x].type \in Kinds
        BY <1>0, <3>3, WorkerAssumption DEF Kin, Finished
      <4>2. CASE g[x].lc = h[x].lc
        <5>1. Watched(g[x])
          BY <2>1, <3>1, <4>1, <4>2, KeptWatched
        <5>2. QED
          BY <2>2, <2>4, <5>1
      <4>3. CASE h[x].lc = "winded_up" /\ g[x].lc = "active" /\ h[x].type = "single"
        <5>1. Quiet(h[x])
          BY <3>1, <4>1, <4>3 DEF Watched, SingleWatched
        <5>2. Quiet(g[x]) /\ g[x].type = "single"
          BY <2>1, <4>3, <5>1 DEF Kept, Quiet
        <5>3. Watched(g[x])
          BY <4>3, <5>2 DEF Watched, SingleWatched
        <5>4. QED
          BY <2>2, <2>4, <5>3
      <4>4. CASE h[x].lc = "winded_up" /\ g[x].lc = "active" /\ h[x].type = "multi"
        <5>1. MultiWatched(h[x])
          BY <3>1, <4>4 DEF Watched
        <5>2. MultiWatched(g[x]) /\ g[x].type = "multi"
          BY <2>1, <4>4, <5>1 DEF Kept, MultiWatched, Quiet
        <5>3. Watched(g[x])
          BY <5>2 DEF Watched
        <5>4. QED
          BY <2>2, <2>4, <5>3
      <4>5. QED
        BY <2>1, <4>1, <4>2, <4>3, <4>4 DEF Kept, Kinds
    <3>4. QED
      BY <3>2, <3>3
  <2>5. QED
    BY <2>3, <2>4
<1>6. Settled(g)
  <2> SUFFICES ASSUME NEW x \in Sessions
               PROVE  IF Finished(g, x) THEN Quiet(g[x]) ELSE Watched(g[x])
    BY DEF Settled
  <2>1. CASE x = s
    BY <1>2, <1>3, <2>1
  <2>2. CASE x \in h[s].fin
    BY <1>4, <2>2
  <2>3. CASE x \notin {s} \cup h[s].fin
    BY <1>5, <2>3
  <2>4. QED
    BY <2>1, <2>2, <2>3
<1>7. g[s].lc # "winded_up"
  BY <1>1 DEF Leftover
<1>8. QED
  BY <1>4, <1>5, <1>6, <1>7

\* A parent that cannot take the event of a finished child: it has asked for the removal of
\* its poll, or has not been picked up since it became multi shot.
LEMMA BadParent ==
  ASSUME NEW g, NEW h, NEW s \in Sessions, FreedBadly(g, h, s),
         \A x \in Sessions \ {s} : ~Finished(h, x) => Watched(h[x]),
         \A x \in Sessions \ {s} : h[x].type \in Kinds /\ ~Finished(h, x) => h[x].lc \in AtRest
  PROVE  \A x \in Sessions : g[x].pop = "exit" => x # s /\ <<h[x].type, h[x].lc>> \in Races
<1> DEFINE p == h[s].parent
<1>1. /\ p \in Sessions /\ s \in h[p].kids /\ p # s /\ h[p].type \in Kinds /\ ~Finished(h, p)
      /\ ~Hears(h[p]) /\ \A x \in Sessions \ {p} : g[x].pop = "no"
  BY DEF FreedBadly
<1> HIDE DEF p
<1>2. Watched(h[p]) /\ h[p].lc \in AtRest
  BY <1>1
<1>3. CASE h[p].type = "single"
  <2>1. h[p].lc = "wait_for_removed_then_active"
    BY <1>1, <1>2, <1>3 DEF Watched, SingleWatched, AtRest, Hears
  <2>2. QED
    BY <1>1, <1>3, <2>1 DEF Races
<1>4. CASE h[p].type = "multi"
  <2>1. h[p].lc \in {"wait_for_removed", "wait_for_cpu"}
    BY <1>1, <1>2, <1>4 DEF Watched, MultiWatched, AtRest, Hears
  <2>2. QED
    BY <1>1, <1>4, <2>1 DEF Races
<1>5. QED
  BY <1>1, <1>3, <1>4 DEF Kinds

\* A step that frees s, where h are the sessions just before.
LEMMA PollFree ==
  ASSUME PollInv, FamilyInv', wpc # "halted", NEW s \in Sessions, NEW h, NEW g, NEW pc,
         FreedWell(g, h, s) \/ FreedBadly(g, h, s), Becomes(g, pc),
         interval' \in {interval, Shortest(g)},
         Related(h), h[s].type \in Kinds, ~Finished(h, s), Quiet(h[s]), h[s].lc # "winded_up",
         \A x \in Sessions \ {s} : h[x] = ss[x] /\ (Finished(h, x) <=> Finished(ss, x)),
         \A x \in Sessions \ {s} : h[x].type \in Kinds /\ ~Finished(h, x) => h[x].lc \in AtRest
  PROVE  PollInv'
<1>1. \A x \in Sessions \ {s} : IF Finished(h, x) THEN Quiet(h[x]) ELSE Watched(h[x])
  BY AsideFacts
<1>2. \A x \in Sessions : h[x].fd \in {-1, 0, 1}
  BY DEF Related, AllFit, Fit, Session
<1>3. CASE FreedBadly(g, h, s)
  <2>1. \A x \in Sessions : g[x].pop = "exit" => x # s /\ <<h[x].type, h[x].lc>> \in Races
    BY <1>1, <1>3, BadParent
  <2>2. \A x \in Sessions : g[x].pop = "exit" => <<ss[x].type, ss[x].lc>> \in Races
    BY <2>1
  <2>3. InvalidOnlyByRace'
    BY <2>2, RaceStep DEF PollInv
  <2>4. \E x \in Sessions : g[x].pop = "exit"
    BY <1>3 DEF FreedBadly
  <2>5. ss' = ss /\ wpc' = "halted"
    BY <2>4 DEF Becomes
  <2>6. QED
    BY <2>3, <2>5, PollHalt
<1>4. CASE FreedWell(g, h, s)
  <2>1. /\ Settled(g)
        /\ \A x \in Sessions : g[x].type = "single" /\ g[x].lc = "winded_up" =>
             h[x].type = "single" /\ h[x].lc = "winded_up" /\ h[x].tm = g[x].tm
    BY <1>1, <1>2, <1>4, FreedSettled
  <2>2. \A x \in Sessions : g[x].pop = "no"
    BY <1>4 DEF FreedWell, Related, Decent
  <2>3. ss' = g /\ why' = why
    BY <2>2 DEF Becomes
  <2>4. NoNewTimer
    BY <2>1, <2>3 DEF NoNewTimer
  <2>5. IntervalKnown
    BY <2>3, <2>4 DEF IntervalKnown
  <2>6. Polled(ss', interval')
    BY <2>1, <2>3, <2>5, IntervalCovers
  <2>7. QED
    BY <2>1, <2>3, <2>6 DEF PollInv, InvalidOnlyByRace
<1>5. QED
  BY <1>3, <1>4

\* The callback returns.
LEMMA PollReturn ==
  ASSUME PollInv, FamilyInv', Return
  PROVE  PollInv'
<1> DEFINE r == ss[cur]
           q == Dispatch(r, Act("WIND_UP"))
           g == TakeAction(ss, cur, Act("WIND_UP"))
<1>1. /\ wpc = "cb" /\ Becomes(g, "loop")
      /\ interval' = IF r.type = "single" /\ r.lc = "wait_for_reinstall" THEN Shortest(g) ELSE interval
  BY DEF Return
<1>2. /\ FamilyInv /\ cur \in Sessions /\ ~Finished(ss, cur) /\ Watched(r)
      /\ r.type = "single" => SingleWatched(r) /\ Quiet(r)
      /\ r.type = "multi" => MultiWatched(r)
      /\ Fit(r) /\ r \in Session /\ Decent(r) /\ ss \in [Sessions -> Session]
      /\ <<r.type, r.lc>> \in InCb
  BY <1>1, CallerWatched
<1>3. Left(q, r)
  BY <1>2, WindUpStep
<1>4. /\ Sane(Act("WIND_UP")) /\ Act("WIND_UP").type # "PICK_UP" /\ Related(ss) /\ r.type \in Kinds
      /\ \A x \in Sessions \ {cur} : ss[x].type \in Kinds /\ ~Finished(ss, x) => ss[x].lc \in AtRest
  BY <1>1, <1>2, SaneActions, FamilyFacts
<1>5. \/ r.type = "single" /\ r.lc \in {"execute_cb", "wait_for_reinstall"}
      \/ r.type = "multi" /\ r.lc \in {"initial", "execute_cb", "wait_for_removed_and_wind_up"}
  BY <1>2 DEF InCb
<1>6. CASE r.lc = "execute_cb" /\ (r.type = "single" \/ (r.type = "multi" /\ r.fd = 0))
  <2>1. \E l \in {"die", "execute_cb"} : Dying(q, r, l)
    BY <1>3, <1>6 DEF Left
  <2>2. FreedWell(g, ss, cur) \/ FreedBadly(g, ss, cur)
    BY <1>2, <1>4, <2>1, FreeStep
  <2>3. Quiet(r) /\ r.lc # "winded_up"
    BY <1>2, <1>6 DEF MultiWatched
  <2>4. interval' \in {interval, Shortest(g)}
    BY <1>1
  <2> HIDE DEF g
  <2>5. QED
    BY <1>1, <1>2, <1>4, <2>2, <2>3, <2>4, PollFree
<1>7. ASSUME r.type = "single" /\ r.lc = "wait_for_reinstall"
      PROVE  SameKin(q, r) /\ q.pop = r.pop /\ Watched(q)
  <2>1. Installed(q, r, "one") /\ PollKind(r) = "one"
    BY <1>3, <1>7 DEF Left, PollKind
  <2>2. Quiet(r) /\ (r.fd > 0 => r.kids = {} /\ r.fin = {}) /\ r.fd \in {-1, 0, 1}
    BY <1>2, <1>7 DEF SingleWatched, Session
  <2> HIDE DEF q, r
  <2>3. Watched(q)
    BY <1>7, <2>1, <2>2, InstalledWatched DEF Kinds
  <2>4. QED
    BY <2>1, <2>3 DEF Installed
<1>8. ASSUME r.type = "multi" /\ ~(r.lc = "execute_cb" /\ r.fd = 0)
      PROVE  SameKin(q, r) /\ q.pop = r.pop /\ Watched(q) /\ q.type = "multi"
  <2>1. /\ Same(q, r)
        /\ \/ r.lc = "initial" /\ q.lc = "wait_for_cpu"
           \/ r.lc = "execute_cb" /\ q.lc \in {"active", "winded_up"}
           \/ r.lc = "wait_for_removed_and_wind_up" /\ q.lc = "wait_for_removed"
    BY <1>3, <1>5, <1>8 DEF Left
  <2>2. MultiWatched(r)
    BY <1>2, <1>8
  <2> HIDE DEF q, r
  <2>3. MultiWatched(q)
    BY <2>1, <2>2 DEF MultiWatched, Same, Quiet
  <2>4. QED
    BY <1>8, <2>1, <2>3 DEF Same, Watched
<1>9. CASE ~(r.lc = "execute_cb" /\ (r.type = "single" \/ (r.type = "multi" /\ r.fd = 0)))
  <2>1. /\ SameKin(q, r) /\ q.pop = "no" /\ Watched(q)
        /\ r.type = "multi" => q.type = "multi"
    BY <1>2, <1>5, <1>7, <1>8, <1>9 DEF Decent
  <2>2. g = [ss EXCEPT ![cur] = q]
    BY <1>2, <2>1, TakeOne
  <2> HIDE DEF g, q, r
  <2>3. g[cur] = q /\ \A x \in Sessions \ {cur} : g[x] = ss[x]
    BY <1>2, <2>2
  <2>4. \A x \in Sessions : /\ SameKin(g[x], ss[x]) /\ g[x].pop = "no"
                            /\ IF Finished(ss, x) THEN g[x] = ss[x] ELSE Watched(g[x])
    BY <1>2, <2>1, <2>3, AsideFacts DEF r
  <2>5. r.type = "multi" /\ ss' = g => NoNewTimer
    BY <2>1, <2>3 DEF NoNewTimer
  <2>6. r.type = "single" => interval' = Shortest(g)
    BY <1>1, <1>5, <1>9
  <2>7. r.type = "multi" => interval' = interval
    BY <1>1
  <2>8. QED
    BY <1>1, <1>4, <2>4, <2>5, <2>6, <2>7, PollBecomes DEF Kinds
<1>10. QED
  BY <1>6, <1>9

\* What the worker reads: a session that has a completion is watched, and rests.
LEMMA ReaderWatched ==
  ASSUME PollInv, wpc = "loop", NothingToRun, NEW s \in Sessions, ss[s].cq # <<>>
  PROVE  /\ FamilyInv /\ ~Finished(ss, s) /\ ss[s].type \in Kinds /\ Watched(ss[s])
         /\ ss[s].lc \in AtRest /\ ss[s].lc # "wait_for_cpu"
         /\ ss[s].cq \in Seq(FdEvents \cup {"canceled"}) /\ ss[s].fd \in {-1, 0, 1}
<1>1. FamilyInv /\ Fit(ss[s])
  BY AsideFacts DEF PollInv
<1>2. ~Finished(ss, s) /\ Watched(ss[s])
  BY AsideFacts DEF Quiet
<1>3. ss[s].type \in Kinds
  BY <1>2 DEF Watched, Quiet, Kinds
<1>4. ss[s].lc \in AtRest
  BY <1>1, <1>2, <1>3, FamilyFacts
<1>5. ss[s].lc # "wait_for_cpu"
  BY <1>1, <1>3, NoneAtCpu
<1>6. ss[s].cq \in Seq(FdEvents \cup {"canceled"}) /\ ss[s].fd \in {-1, 0, 1}
  BY <1>1 DEF Fit, Session
<1>7. QED
  BY <1>1, <1>2, <1>3, <1>4, <1>5, <1>6

\* The session after the completion has been taken from the queue; a refusal of the
\* completion is one of the races.
LEMMA ReadWatched ==
  ASSUME NEW r, NEW n, NEW q, NEW what, r.type \in Kinds, Watched(r), r.lc \in AtRest,
         r.lc # "wait_for_cpu", r.cq # <<>>, what = Head(r.cq),
         r.cq \in Seq(FdEvents \cup {"canceled"}), r.fd \in {-1, 0, 1},
         SameKin(n, r), n.type = r.type, n.lc = r.lc, n.fd = r.fd, n.tm = r.tm, n.poll = r.poll,
         n.cq = Tail(r.cq), n.pop = "no", Received(q, n, what)
  PROVE  \/ q.pop = "exit" /\ <<r.type, r.lc>> \in Races
         \/ q.pop = "no" /\ SameKin(q, r) /\ Watched(q)
<1>1. /\ Events(r.cq) => Head(r.cq) \in FdEvents /\ Events(Tail(r.cq))
      /\ Removing(r.cq) /\ Head(r.cq) = "canceled" => Tail(r.cq) = <<>>
      /\ Len(r.cq) = 1 => Tail(r.cq) = <<>>
  BY QueueFacts
<1>2. "canceled" \notin FdEvents
  BY WorkerAssumption
<1>3. CASE r.type = "single" /\ r.lc = "wait_for_removed_then_active"
  <2>1. SingleWatched(r) /\ r.poll = "no" /\ Len(r.cq) = 1
    BY <1>3 DEF Watched, SingleWatched
  <2>2. n.cq = <<>> /\ n.poll = "no"
    BY <1>1, <2>1
  <2>3. <<r.type, r.lc>> \in Races
    BY <1>3 DEF Races
  <2>4. ~Hears(n)
    BY <1>3 DEF Hears
  <2>5. q.pop = "exit" \/ (Same(q, n) /\ q.lc = "active")
    BY <1>3, <2>4 DEF Received, Kinds
  <2>6. ASSUME Same(q, n), q.lc = "active"
        PROVE  q.pop = "no" /\ SameKin(q, r) /\ Watched(q)
    <3>1. q.pop = "no" /\ SameKin(q, r) /\ q.type = "single" /\ Quiet(q)
      BY <1>3, <2>2, <2>6 DEF Same, SameKin, Quiet
    <3>2. QED
      BY <2>6, <3>1 DEF Watched, SingleWatched
  <2>7. QED
    BY <2>3, <2>5, <2>6
<1>4. CASE r.type = "single" /\ r.lc # "wait_for_removed_then_active"
  <2>1. SingleWatched(r) /\ r.lc = "winded_up"
    BY <1>4 DEF Watched, SingleWatched, Quiet
  <2>2. r.poll = "no" /\ Len(r.cq) = 1 /\ Events(r.cq)
    BY <1>4, <2>1 DEF SingleWatched, Quiet
  <2>3. what # "canceled" /\ n.cq = <<>>
    BY <1>1, <1>2, <2>2
  <2>4. Hears(n)
    BY <2>1 DEF Hears
  <2>5. Woken(q, n)
    BY <2>3, <2>4 DEF Received
  <2>6. q.pop = "no" /\ SameKin(q, r) /\ q.type = "single" /\ Quiet(q) /\ q.lc = "active"
    BY <1>4, <2>1, <2>2, <2>3, <2>5 DEF Woken, Same, SameKin, Quiet
  <2>7. QED
    BY <2>6 DEF Watched, SingleWatched
<1>5. CASE r.type = "multi" /\ r.lc = "wait_for_removed"
  <2>1. ~Hears(n) /\ <<r.type, r.lc>> \in Races
    BY <1>5 DEF Hears, Races
  <2>2. q.pop = "exit"
    BY <1>5, <2>1 DEF Received, Kinds
  <2>3. QED
    BY <2>1, <2>2
<1>6. CASE r.type = "multi" /\ r.lc # "wait_for_removed"
  <2>1. MultiWatched(r)
    BY <1>6 DEF Watched
  <2>2. r.lc \in {"winded_up", "active"}
    BY <1>6, <2>1 DEF MultiWatched, AtRest
  <2>3. r.fd > 0 /\ r.poll = "multi" /\ Events(r.cq)
    BY <2>1, <2>2 DEF MultiWatched, Quiet
  <2>4. what # "canceled" /\ Events(n.cq)
    BY <1>1, <1>2, <2>3
  <2>5. Hears(n)
    BY <2>2 DEF Hears
  <2>6. Woken(q, n)
    BY <1>6, <2>4, <2>5 DEF Received, Kinds
  <2>7. MultiWatched(n)
    BY <2>1, <2>2, <2>3, <2>4 DEF MultiWatched
  <2>8. Watched(n)
    BY <1>6, <2>7 DEF Watched
  <2>9. Watched(q)
    BY <1>6, <2>6, <2>8, WokenWatched DEF Kinds
  <2>10. q.pop = "no" /\ SameKin(q, r)
    BY <2>6 DEF Woken, Same, SameKin
  <2>11. QED
    BY <2>9, <2>10
<1>7. QED
  BY <1>3, <1>4, <1>5, <1>6 DEF Kinds

\* A completion is read.
LEMMA PollReceive ==
  ASSUME PollInv, FamilyInv', NEW s \in Sessions, Receive(s)
  PROVE  PollInv'
<1>0. FamilyInv
  BY DEF PollInv
<1>1. PICK n, q, g, what : ReceiveEnds(s, n, q, g, what)
  BY <1>0, ReceiveStep
<1>2. wpc = "loop" /\ Becomes(g, "check") /\ NothingToRun /\ ss[s].cq # <<>> /\ interval' = Shortest(g)
  BY <1>1 DEF ReceiveEnds, Waiting
<1>3. /\ SameKin(n, ss[s]) /\ n.type = ss[s].type /\ n.lc = ss[s].lc /\ n.fd = ss[s].fd
      /\ n.tm = ss[s].tm /\ n.poll = ss[s].poll /\ n.cq = Tail(ss[s].cq) /\ n.pop = "no"
      /\ what = Head(ss[s].cq)
  BY <1>1 DEF ReceiveEnds
<1>4. /\ ~Finished(ss, s) /\ ss[s].type \in Kinds /\ Watched(ss[s])
      /\ ss[s].lc \in AtRest /\ ss[s].lc # "wait_for_cpu"
      /\ ss[s].cq \in Seq(FdEvents \cup {"canceled"}) /\ ss[s].fd \in {-1, 0, 1}
  BY <1>2, ReaderWatched
<1>5. ss \in [Sessions -> Session]
  BY <1>0, FamilyFacts
<1>6. CASE Received(q, n, what) /\ g = [ss EXCEPT ![s] = q]
  <2>1. \/ q.pop = "exit" /\ <<ss[s].type, ss[s].lc>> \in Races
        \/ q.pop = "no" /\ SameKin(q, ss[s]) /\ Watched(q)
    BY <1>2, <1>3, <1>4, <1>6, ReadWatched
  <2>2. g[s] = q /\ \A x \in Sessions \ {s} : g[x] = ss[x]
    BY <1>5, <1>6
  <2>3. CASE q.pop = "exit" /\ <<ss[s].type, ss[s].lc>> \in Races
    <3>1. \A x \in Sessions : g[x].pop = "exit" => <<ss[x].type, ss[x].lc>> \in Races
      BY <2>2, <2>3, AsideFacts
    <3>2. InvalidOnlyByRace'
      BY <1>2, <3>1, RaceStep DEF PollInv
    <3>3. ss' = ss /\ wpc' = "halted"
      BY <1>2, <2>2, <2>3 DEF Becomes
    <3>4. QED
      BY <3>2, <3>3, PollHalt
  <2>4. CASE q.pop = "no" /\ SameKin(q, ss[s]) /\ Watched(q)
    <3>1. \A x \in Sessions : /\ SameKin(g[x], ss[x]) /\ g[x].pop = "no"
                              /\ IF Finished(ss, x) THEN g[x] = ss[x] ELSE Watched(g[x])
      BY <1>4, <2>2, <2>4, AsideFacts
    <3>2. QED
      BY <1>2, <3>1, PollBecomes
  <2>5. QED
    BY <2>1, <2>3, <2>4
<1>7. CASE /\ what = "canceled" /\ n.type = "multi" /\ n.lc = "wait_for_removed"
           /\ FreedWell(g, [ss EXCEPT ![s] = n], s) \/ FreedBadly(g, [ss EXCEPT ![s] = n], s)
  <2> DEFINE h == [ss EXCEPT ![s] = n]
  <2>1. /\ h[s] = n /\ \A x \in Sessions \ {s} : h[x] = ss[x]
        /\ \A x \in Sessions : Finished(h, x) <=> Finished(ss, x)
        /\ Related(h)
    BY <1>1, <1>5 DEF ReceiveEnds
  <2>2. FreedWell(g, h, s) \/ FreedBadly(g, h, s)
    BY <1>7
  <2> HIDE DEF h
  <2>3. MultiWatched(ss[s])
    BY <1>3, <1>4, <1>7 DEF Watched
  <2>4. ss[s].poll = "no" /\ Removing(ss[s].cq)
    BY <1>3, <1>7, <2>3 DEF MultiWatched
  <2>5. Tail(ss[s].cq) = <<>>
    BY <1>3, <1>4, <1>7, <2>4, QueueFacts
  <2>6. Quiet(h[s]) /\ h[s].lc # "winded_up" /\ h[s].type \in Kinds /\ ~Finished(h, s)
    BY <1>3, <1>4, <1>7, <2>1, <2>4, <2>5 DEF Quiet
  <2>7. \A x \in Sessions \ {s} : h[x].type \in Kinds /\ ~Finished(h, x) => h[x].lc \in AtRest
    BY <1>0, <1>2, <2>1, FamilyFacts
  <2>8. interval' \in {interval, Shortest(g)} /\ wpc # "halted"
    BY <1>2
  <2>9. QED
    BY <1>2, <2>1, <2>2, <2>6, <2>7, <2>8, PollFree
<1>8. QED
  BY <1>1, <1>6, <1>7 DEF ReceiveEnds

\* At the start nothing is polled.
LEMMA PollInit ==
  ASSUME Init
  PROVE  PollInv
<1>1. FamilyInv
  BY FamilyInit
<1>2. \A s \in Sessions : ss[s] = NoRecord
  BY DEF Init
<1>3. /\ NoRecord.type = "none" /\ NoRecord.poll = "no" /\ NoRecord.cq = <<>>
      /\ NoRecord.lc = "initial" /\ NoRecord.fin = {} /\ NoRecord.on = {}
  BY DEF NoRecord
<1>4. \A s \in Sessions : ~Finished(ss, s) /\ Watched(ss[s]) /\ ss[s].on = {}
  BY <1>2, <1>3 DEF Finished, Watched, Quiet
<1>5. Settled(ss) /\ Polled(ss, interval)
  BY <1>4 DEF Settled, Polled
<1>6. InvalidOnlyByRace
  BY DEF Init, InvalidOnlyByRace
<1>7. QED
  BY <1>1, <1>5, <1>6 DEF PollInv

\* Every step keeps it, if a session with children waits for no descriptor.
LEMMA PollNext ==
  ASSUME 1 \notin ParentFds, PollInv, [Next]_vars
  PROVE  PollInv'
<1>1. FamilyInv'
  BY FamilyNext DEF PollInv
<1>2. CASE UNCHANGED vars
  BY <1>1, <1>2, PollIdle DEF vars
<1>3. ASSUME NEW s \in Sessions, NEW kind \in {"single", "multi"}, NEW fd \in Fds,
             NEW tm \in TimeClasses, StartRR(s, kind, fd, tm) \/ StartLocal(s, kind, fd, tm)
      PROVE  PollInv'
  BY <1>1, <1>3, PollStarts DEF Kinds
<1>4. CASE Callback
  BY <1>1, <1>3, <1>4, PollStartChild, PollWaitAgain, PollBecomeMulti, PollRemoveReq, PollDone
     DEF Callback
<1>5. CASE Loop
  <2>1. CASE \E s \in Sessions : Execute(s) \/ PickUpLocal(s) \/ Receive(s)
    BY <1>1, <2>1, PollExecute, PollPickUpLocal, PollReceive
  <2>2. CASE PickUpGlobal \/ Check \/ \E late \in SUBSET Sessions : Timing(late)
    BY <1>1, <2>2, PollPickUpGlobal, PollCheck, PollTiming
  <2>3. CASE StopSessions
    <3>1. wpc = "loop" /\ Becomes(Notified, "loop") /\ interval' = interval
      BY <2>3 DEF StopSessions
    <3>2. QED
      BY <1>1, <3>1, PollNotified
  <2>4. QED
    BY <1>5, <2>1, <2>2, <2>3 DEF Loop
<1>6. CASE Return
  BY <1>1, <1>6, PollReturn
<1>7. CASE Interrupted \/ WaitTimedOut \/ RequestSessionsExit \/ StopServer
  <2>1. UNCHANGED <<ss, interval, why>> /\ (wpc = "halted" => wpc' = "halted")
    BY <1>7 DEF Interrupted, WaitTimedOut, Waiting, RequestSessionsExit, StopServer
  <2>2. QED
    BY <1>1, <2>1, PollIdle
<1>8. CASE \E s \in Sessions, e \in FdEvents : Fire(s, e)
  BY <1>1, <1>8, PollFire
<1>9. QED
  BY <1>2, <1>3, <1>4, <1>5, <1>6, <1>7, <1>8 DEF Next

\* PollsFitSessions is what the kernel and the timers have of the sessions.
LEMMA SettledPolls ==
  ASSUME PollInv
  PROVE  PollsFitSessions
<1>1. FamilyInv /\ Settled(ss) /\ Kin(ss)
  BY FamilyFacts DEF PollInv
<1>2. ASSUME NEW s \in Sessions
      PROVE  /\ ss[s].type = "freed" => Quiet(ss[s])
             /\ ss[s].poll # "two"
             /\ ss[s].lc = "winded_up" /\ ss[s].fd > 0 =>
                  CASE ss[s].type = "single" -> ss[s].poll = "one" \/ ss[s].cq # <<>>
                    [] ss[s].type = "multi"  -> ss[s].poll = "multi"
  <2>1. CASE Finished(ss, s)
    <3>1. ss[s].type \in Kinds /\ ss[s].lc \in {"die", "execute_cb"}
      BY <1>1, <2>1, FinishedOffList
    <3>2. Quiet(ss[s])
      BY <1>1, <2>1 DEF Settled
    <3>3. QED
      BY <3>1, <3>2 DEF Quiet
  <2>2. CASE ~Finished(ss, s) /\ ss[s].type = "single"
    <3>1. SingleWatched(ss[s])
      BY <1>1, <2>2 DEF Settled, Watched
    <3>2. ss[s].fd \in {-1, 0, 1} /\ Len(<<>>) = 0
      BY <1>1, FamilyFacts DEF Fit, Session
    <3>3. ss[s].poll # "two"
      BY <3>1, <3>2 DEF SingleWatched, Quiet
    <3>4. ss[s].lc = "winded_up" /\ ss[s].fd > 0 => ss[s].poll = "one" \/ ss[s].cq # <<>>
      BY <3>1, <3>2 DEF SingleWatched
    <3>5. QED
      BY <2>2, <3>3, <3>4
  <2>3. CASE ~Finished(ss, s) /\ ss[s].type = "multi"
    <3>1. MultiWatched(ss[s])
      BY <1>1, <2>3 DEF Settled, Watched
    <3>2. ss[s].poll # "two"
      BY <3>1 DEF MultiWatched, Quiet
    <3>3. ss[s].lc = "winded_up" /\ ss[s].fd > 0 => ss[s].poll = "multi"
      BY <3>1 DEF MultiWatched
    <3>4. QED
      BY <2>3, <3>2, <3>3
  <2>4. CASE ~Finished(ss, s) /\ ss[s].type \notin Kinds
    <3>1. Quiet(ss[s]) /\ ss[s].lc = "initial"
      BY <1>1, <2>4 DEF Settled, Watched, Kinds
    <3>2. QED
      BY <3>1 DEF Quiet
  <2>5. QED
    BY <2>1, <2>2, <2>3, <2>4 DEF Kinds
<1>3. NoDanglingPoll
  BY <1>2 DEF NoDanglingPoll, Quiet
<1>4. SleeperIsWatched
  BY <1>2 DEF SleeperIsWatched
<1>5. TimersArePolled
  BY DEF PollInv, Polled, TimersArePolled, Waiting, OnList
<1>6. ASSUME NEW s \in Sessions, NEW c \in ss[s].fin
      PROVE  ss[c].on = {} /\ Quiet(ss[c])
  <2>1. c \in Sessions /\ Finished(ss, c)
    BY <1>1, FamilyFacts, KinTypes DEF Finished
  <2>2. QED
    BY <1>1, <2>1, FinishedOffList DEF Settled
<1>7. FinishedIsQuiet
  BY <1>6 DEF FinishedIsQuiet, Quiet
<1>8. QED
  BY <1>3, <1>4, <1>5, <1>7 DEF PollsFitSessions

\* What polls, completions and timers have to do with the sessions, in every state, if a
\* session with children waits for no descriptor (as the callers of
\* esq_session_bundle_child do: they wait for their children alone).
THEOREM PollInvariance ==
  ASSUME 1 \notin ParentFds
  PROVE  Spec => []PollInv
<1>1. Init => PollInv
  BY PollInit
<1>2. PollInv /\ [Next]_vars => PollInv'
  BY PollNext
<1>3. QED
  BY <1>1, <1>2, PTL DEF Spec

\* Whatever a session waits for will wake it, the worker waits no longer than the shortest
\* timeout, and nothing of the kernel refers to a session that is freed or finished
\* (pt_of_socket.c, pt_of_multi_shot_socket.c, timing.c, chassis.c).
THEOREM PollsTheorem ==
  ASSUME 1 \notin ParentFds
  PROVE  Spec => []PollsFitSessions
<1>1. PollInv => PollsFitSessions
  BY SettledPolls
<1>2. Spec => []PollInv
  BY PollInvariance
<1>3. QED
  BY <1>1, <1>2, PTL

\* INVALID_ACTION_TYPE ends the process in the known races only, whatever the callbacks do
\* and in whatever order completions, timeouts and the notices of the exit arrive.
THEOREM RaceTheorem ==
  ASSUME 1 \notin ParentFds
  PROVE  Spec => []InvalidOnlyByRace
<1>1. PollInv => InvalidOnlyByRace
  BY DEF PollInv
<1>2. Spec => []PollInv
  BY PollInvariance
<1>3. QED
  BY <1>1, <1>2, PTL
=============================================================================
