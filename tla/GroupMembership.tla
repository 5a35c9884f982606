--------------------------- MODULE GroupMembership ---------------------------
(***************************************************************************)
(* Being in a group: sessions that join and leave, hubs that open and      *)
(* close, heartbeats, and the tables in which hubs keep who else is there  *)
(* (crates/edifier-ffi/src/session.rs, crates/edifier-runtime/src/group.rs *)
(* and runner.rs, crates/edifier-group/src/envelope.rs).                   *)
(*                                                                         *)
(* A frontend calls its session from one thread, but the tasks of the hub  *)
(* run beside it: the receive loop, the heartbeat and the worker.  What    *)
(* the worker and the calls do to the headset is in GroupHub; here an      *)
(* operation is what holds the lock for some time and may then change what *)
(* the hub holds and whether its platform suppresses reconnection.         *)
(*                                                                         *)
(* Time is counted in ticks of one heartbeat interval, and ages are        *)
(* relative, so that runs need no last moment.  A datagram stays in the    *)
(* network for a while: it may be lost, late, read twice and overtaken.    *)
(***************************************************************************)
EXTENDS Integers

CONSTANTS
  Host,       \* the installations, by local id
  Group,      \* passphrases in use
  NoGroup,
  PeerTtl,    \* PEER_TTL, in ticks
  MaxSkew,    \* MAX_SKEW_MS, in ticks
  Lead,       \* how far the wall clock of a host runs ahead
  MaxLead,    \* a bound of Lead
  Delay,      \* a bound of the time a datagram takes, in ticks
  Native,     \* the hosts with a C session; the others are GTK applications
  Scenes      \* who does what, and what may fail

Fault == {"recv", "restore", "send"}
\* The groups that are joined, and the hosts that are heard, that hear, whose hubs
\* do something to the headset, which may suppress reconnection, and whose users
\* leave, quit and crash; who is not heard is one whose datagrams are all lost.
Scene == [groups : SUBSET Group, talks : SUBSET Host, listens : SUBSET Host,
          operates : SUBSET Host, suppresses : SUBSET Host, leaves : SUBSET Host,
          faults : SUBSET Fault]

ASSUME MembershipAssumption ==
  /\ NoGroup \notin Group
  /\ PeerTtl \in Nat \ {0} /\ MaxSkew \in Nat
  /\ MaxLead \in Nat /\ Lead \in [Host -> 0..MaxLead] /\ Delay \in Nat
  /\ Native \subseteq Host
  /\ Scenes \subseteq Scene

VARIABLES
  scene,    \* the one of this run
  up,       \* the session exists
  slot,     \* session.group holds the hub
  hub,      \* the hub in the slot or being left
  muted,    \* the platform suppresses reconnection
  lock,     \* who holds the operation lock of the hub
  leaving,  \* the leave of a call, and the one of a task that failed
  runner,   \* the task of run()
  beat,     \* a heartbeat on its way
  inbox,    \* an announcement on its way into the table
  table,    \* peers: who was heard when, and what it held
  net,      \* announcements that may still be read
  away,     \* ticks since a host was last in a group (history)
  bare      \* ticks since its hub there last held the headset (history)

session == <<up, slot>>
tasks == <<runner, beat, inbox>>
history == <<away, bare>>
vars == <<scene, session, hub, muted, lock, leaving, tasks, table, net, history>>

Leaver == {"call", "task"}
Operator == {"worker", "user"}
Hub == [group : Group \cup {NoGroup}, closed : BOOLEAN, holding : BOOLEAN,
        suppressed : BOOLEAN]
NoHub == [group |-> NoGroup, closed |-> TRUE, holding |-> FALSE, suppressed |-> FALSE]
Leave == [pc : {"no", "ask", "closed", "cleared", "restored", "done"},
          was : BOOLEAN, failed : BOOLEAN, free : BOOLEAN]
NoLeave == [pc |-> "no", was |-> FALSE, failed |-> FALSE, free |-> FALSE]
Beat == [pc : {"no", "cloned", "checked"}, holding : BOOLEAN]
NoBeat == [pc |-> "no", holding |-> FALSE]
Heard == [from : Host, holding : BOOLEAN]
Nothing == [none |-> TRUE]
Entry == [age : 0..PeerTtl, holding : BOOLEAN]

\* The age at which the history stops counting.
Horizon == MaxSkew + MaxLead + PeerTtl
Announcement == [from : Host, group : Group, holding : BOOLEAN, age : 0..Delay]

TypeOK ==
  /\ scene \in Scenes
  /\ up \in [Host -> BOOLEAN] /\ slot \in [Host -> BOOLEAN]
  /\ hub \in [Host -> Hub]
  /\ muted \in [Host -> BOOLEAN]
  /\ lock \in [Host -> {"none"} \cup Operator \cup Leaver]
  /\ leaving \in [Host -> [Leaver -> Leave]]
  /\ runner \in [Host -> {"off", "run", "failed"}]
  /\ beat \in [Host -> Beat]
  /\ inbox \in [Host -> Heard \cup {Nothing}]
  /\ table \in [Host -> [Host -> Entry \cup {Nothing}]]
  /\ net \subseteq Announcement
  /\ away \in [Host -> [Group -> 0..Horizon]]
  /\ bare \in [Host -> [Group -> 0..Horizon]]

NoPeers == [p \in Host |-> Nothing]

Init ==
  /\ scene \in Scenes
  /\ up = [h \in Host |-> TRUE] /\ slot = [h \in Host |-> FALSE]
  /\ hub = [h \in Host |-> NoHub]
  /\ muted = [h \in Host |-> FALSE]
  /\ lock = [h \in Host |-> "none"]
  /\ leaving = [h \in Host |-> [w \in Leaver |-> NoLeave]]
  /\ runner = [h \in Host |-> "off"]
  /\ beat = [h \in Host |-> NoBeat]
  /\ inbox = [h \in Host |-> Nothing]
  /\ table = [h \in Host |-> NoPeers]
  /\ net = {}
  /\ away = [h \in Host |-> [g \in Group |-> Horizon]]
  /\ bare = [h \in Host |-> [g \in Group |-> Horizon]]

\* No call of the session is in progress.
Idle(h) == up[h] /\ leaving[h]["call"].pc = "no" /\ lock[h] # "user"
Closed(h) == hub[h].closed

-----------------------------------------------------------------------------
(* Announcements *)

\* broadcast seals what it is given with the clock of this moment.
Announce(h, holding) ==
  net' = net \cup {[from |-> h, group |-> hub[h].group, holding |-> holding, age |-> 0]}

\* Mutant: open does not look at the time stamp.
AnyTime(h, d) == TRUE

\* open: the clocks may differ by MAX_SKEW_MS, either way.
InTime(h, d) ==
  LET skew == Lead[h] - Lead[d.from] + d.age IN skew <= MaxSkew /\ -skew <= MaxSkew

\* group_join with a hub that is new in everything.
Join(h, g) ==
  /\ g \in scene.groups /\ Idle(h) /\ ~slot[h]
  /\ slot' = [slot EXCEPT ![h] = TRUE]
  /\ hub' = [hub EXCEPT ![h] = [NoHub EXCEPT !.group = g, !.closed = FALSE]]
  /\ runner' = [runner EXCEPT ![h] = "run"]
  /\ table' = [table EXCEPT ![h] = NoPeers]
  /\ away' = [away EXCEPT ![h][g] = 0]
  /\ UNCHANGED <<scene, up, muted, lock, leaving, beat, inbox, net, bare>>

\* announce_cached, in three steps that other threads may come between: a copy
\* of what the hub says of itself, a look at the lock, and the datagram.
Clone(h) ==
  /\ h \in scene.talks
  /\ runner[h] = "run" /\ ~Closed(h) /\ beat[h].pc = "no"
  /\ beat' = [beat EXCEPT ![h] = [pc |-> "cloned", holding |-> hub[h].holding]]
  /\ UNCHANGED <<scene, session, hub, muted, lock, leaving, runner, inbox, table, net, history>>

Check(h) ==
  /\ beat[h].pc = "cloned"
  /\ beat' = [beat EXCEPT ![h] =
       [pc |-> "checked", holding |-> @.holding /\ lock[h] = "none" /\ ~Closed(h)]]
  /\ UNCHANGED <<scene, session, hub, muted, lock, leaving, runner, inbox, table, net, history>>

Seal(h) ==
  /\ beat[h].pc = "checked"
  /\ Announce(h, beat[h].holding)
  /\ beat' = [beat EXCEPT ![h] = NoBeat]
  /\ UNCHANGED <<scene, session, hub, muted, lock, leaving, runner, inbox, table, history>>

\* receive_message, up to the lock of the table.
Receive(h, d) ==
  /\ h \in scene.listens
  /\ runner[h] = "run" /\ ~Closed(h) /\ inbox[h] = Nothing
  /\ d.from # h /\ d.group = hub[h].group /\ InTime(h, d)
  /\ inbox' = [inbox EXCEPT ![h] = [from |-> d.from, holding |-> d.holding]]
  /\ UNCHANGED <<scene, session, hub, muted, lock, leaving, runner, beat, table, net, history>>

\* Mutant: the table takes what was received before the hub closed.
InsertAnyway(h) ==
  /\ inbox[h] # Nothing
  /\ table' = [table EXCEPT ![h][inbox[h].from] = [age |-> 0, holding |-> inbox[h].holding]]
  /\ inbox' = [inbox EXCEPT ![h] = Nothing]
  /\ UNCHANGED <<scene, session, hub, muted, lock, leaving, runner, beat, net, history>>

\* Mutant: who is in the table keeps the time it was first heard.
InsertOnce(h) ==
  /\ inbox[h] # Nothing
  /\ table' = IF Closed(h) THEN table
              ELSE [table EXCEPT ![h][inbox[h].from] =
                      IF @ = Nothing THEN [age |-> 0, holding |-> inbox[h].holding]
                      ELSE [@ EXCEPT !.holding = inbox[h].holding]]
  /\ inbox' = [inbox EXCEPT ![h] = Nothing]
  /\ UNCHANGED <<scene, session, hub, muted, lock, leaving, runner, beat, net, history>>

\* Under the lock of the table the hub is looked at again.
Insert(h) ==
  /\ inbox[h] # Nothing
  /\ table' = IF Closed(h) THEN table
              ELSE [table EXCEPT ![h][inbox[h].from] =
                      [age |-> 0, holding |-> inbox[h].holding]]
  /\ inbox' = [inbox EXCEPT ![h] = Nothing]
  /\ UNCHANGED <<scene, session, hub, muted, lock, leaving, runner, beat, net, history>>

Listed(h, p) == table[h][p] # Nothing /\ table[h][p].age < PeerTtl

\* peers: who was not heard for too long is forgotten, with a list, and with a
\* claim that looks up what a peer holds.
Peers(h) ==
  /\ Idle(h) /\ slot[h]
  /\ table' = [table EXCEPT ![h] = [p \in Host |-> IF Listed(h, p) THEN @[p] ELSE Nothing]]
  /\ UNCHANGED <<scene, session, hub, muted, lock, leaving, tasks, net, history>>

-----------------------------------------------------------------------------
(* Operations *)

\* The worker, or a call that adopts or claims, takes the lock.
Begin(h, by) ==
  /\ h \in scene.operates
  /\ lock[h] = "none" /\ ~Closed(h)
  /\ IF by = "worker" THEN runner[h] = "run" ELSE slot[h] /\ Idle(h)
  /\ lock' = [lock EXCEPT ![h] = by]
  /\ UNCHANGED <<scene, session, hub, muted, leaving, tasks, table, net, history>>

\* It ends with other holdings and suppressions, and announces what it adopted.
End(h) ==
  /\ lock[h] \in Operator
  /\ \E holding, suppress \in BOOLEAN :
       /\ suppress => h \in scene.suppresses
       /\ hub' = [hub EXCEPT ![h].holding = holding, ![h].suppressed = suppress]
       /\ muted' = [muted EXCEPT ![h] = suppress]
       /\ Announce(h, holding) \/ UNCHANGED net
       /\ bare' = IF holding THEN [bare EXCEPT ![h][hub[h].group] = 0] ELSE bare
  /\ lock' = [lock EXCEPT ![h] = "none"]
  /\ UNCHANGED <<scene, session, leaving, tasks, table, away>>

-----------------------------------------------------------------------------
(* Leaving *)

Goes(h, w, pc) == leaving' = [leaving EXCEPT ![h][w].pc = pc]

\* group_leave and free take the hub out of the slot first.
AskLeave(h, free) ==
  /\ h \in scene.leaves /\ h \in Native
  /\ Idle(h) /\ slot[h]
  /\ slot' = [slot EXCEPT ![h] = FALSE]
  /\ leaving' = [leaving EXCEPT ![h]["call"] = [NoLeave EXCEPT !.pc = "ask", !.free = free]]
  /\ UNCHANGED <<scene, up, hub, muted, lock, tasks, table, net, history>>

\* run() fails and the task leaves on its own, which a GTK application's task
\* does not, when the heartbeat and the worker are done.
RunFails(h) ==
  /\ "recv" \in scene.faults /\ h \in scene.leaves
  /\ runner[h] = "run" /\ ~Closed(h) /\ inbox[h] = Nothing
  /\ runner' = [runner EXCEPT ![h] = "failed"]
  /\ UNCHANGED <<scene, session, hub, muted, lock, leaving, beat, inbox, table, net, history>>

RunReturns(h) ==
  /\ runner[h] = "failed" \/ (runner[h] = "run" /\ Closed(h))
  /\ beat[h].pc = "no" /\ inbox[h] = Nothing /\ lock[h] # "worker"
  /\ runner' = [runner EXCEPT ![h] = "off"]
  /\ leaving' = IF runner[h] = "failed" /\ h \in Native
                THEN [leaving EXCEPT ![h]["task"] = [NoLeave EXCEPT !.pc = "ask"]]
                ELSE leaving
  /\ UNCHANGED <<scene, session, hub, muted, lock, beat, inbox, table, net, history>>

\* leave, under the lock: the hub is closed before anything is cleared,
Close(h, w) ==
  /\ leaving[h][w].pc = "ask" /\ lock[h] = "none"
  /\ lock' = [lock EXCEPT ![h] = w]
  /\ leaving' = [leaving EXCEPT ![h][w].pc = "closed", ![h][w].was = Closed(h)]
  /\ hub' = [hub EXCEPT ![h].closed = TRUE]
  /\ UNCHANGED <<scene, session, muted, tasks, table, net, history>>

Clear(h, w) ==
  /\ leaving[h][w].pc = "closed"
  /\ Goes(h, w, "cleared")
  /\ hub' = [hub EXCEPT ![h].holding = FALSE]
  /\ table' = [table EXCEPT ![h] = NoPeers]
  /\ UNCHANGED <<scene, session, muted, lock, tasks, net, history>>

\* then suppressions are taken back, as far as the platform does,
Restore(h, w) ==
  /\ leaving[h][w].pc = "cleared"
  /\ \/ /\ hub' = [hub EXCEPT ![h].suppressed = FALSE]
        /\ muted' = [muted EXCEPT ![h] = @ /\ ~hub[h].suppressed]
        /\ Goes(h, w, "restored")
     \/ /\ "restore" \in scene.faults /\ hub[h].suppressed
        /\ leaving' = [leaving EXCEPT ![h][w].pc = "restored", ![h][w].failed = TRUE]
        /\ UNCHANGED <<hub, muted>>
  /\ UNCHANGED <<scene, session, lock, tasks, table, net, history>>

\* and the first one to close says that it holds nothing; that, and what it says
\* of a handoff it ends, may not be sent.
Told(leave, w, fails) ==
  IF w = "task" THEN NoLeave
  ELSE [leave EXCEPT !.pc = "done", !.failed = leave.failed \/ fails]

Tell(h, w) ==
  /\ leaving[h][w].pc = "restored"
  /\ \E fails \in {f \in BOOLEAN : f => "send" \in scene.faults /\ ~leaving[h][w].was} :
       /\ \/ (fails \/ leaving[h][w].was) /\ UNCHANGED net
          \/ ~leaving[h][w].was /\ Announce(h, hub[h].holding)
       /\ leaving' = [leaving EXCEPT ![h][w] = Told(leaving[h][w], w, fails)]
  /\ lock' = [lock EXCEPT ![h] = "none"]
  /\ UNCHANGED <<scene, session, hub, muted, tasks, table, history>>

\* Mutant: the task is told to stop, not awaited.
StopTaskDetached(h) ==
  /\ runner' = [runner EXCEPT ![h] = "off"]
  /\ lock' = [lock EXCEPT ![h] = IF @ = "task" THEN "none" ELSE @]
  /\ UNCHANGED <<beat, inbox>>

\* Mutant: the task is stopped with the lock in its hands.
StopTaskHolding(h) ==
  /\ runner' = [runner EXCEPT ![h] = "off"]
  /\ beat' = [beat EXCEPT ![h] = NoBeat]
  /\ inbox' = [inbox EXCEPT ![h] = Nothing]
  /\ UNCHANGED lock

\* stop_task: the task is gone when it returns, wherever it was.
StopTask(h) ==
  /\ runner' = [runner EXCEPT ![h] = "off"]
  /\ beat' = [beat EXCEPT ![h] = NoBeat]
  /\ inbox' = [inbox EXCEPT ![h] = Nothing]
  /\ lock' = [lock EXCEPT ![h] = IF @ = "task" THEN "none" ELSE @]

\* Mutant: the hub is dropped whether or not it could restore everything.
ReturnDropped(h) ==
  /\ leaving[h]["call"].pc = "done"
  /\ StopTask(h)
  /\ leaving' = [leaving EXCEPT ![h] = [w \in Leaver |-> NoLeave]]
  /\ hub' = [hub EXCEPT ![h] = NoHub]
  /\ up' = [up EXCEPT ![h] = ~leaving[h]["call"].free]
  /\ UNCHANGED <<scene, slot, muted, table, net, history>>

\* The call stops the task, and after an error puts the closed hub back, which
\* keeps the session from joining until another leave; a free drops it.
Return(h) ==
  /\ leaving[h]["call"].pc = "done"
  /\ StopTask(h)
  /\ leaving' = [leaving EXCEPT ![h] = [w \in Leaver |-> NoLeave]]
  /\ LET call == leaving[h]["call"]
         back == call.failed /\ ~call.free
     IN  /\ slot' = [slot EXCEPT ![h] = back]
         /\ hub' = IF back THEN hub ELSE [hub EXCEPT ![h] = NoHub]
         /\ up' = [up EXCEPT ![h] = ~call.free]
  /\ UNCHANGED <<scene, muted, table, net, history>>

\* The process of a host dies.
Crash(h) ==
  /\ up[h] /\ h \in scene.leaves
  /\ up' = [up EXCEPT ![h] = FALSE] /\ slot' = [slot EXCEPT ![h] = FALSE]
  /\ hub' = [hub EXCEPT ![h] = NoHub]
  /\ leaving' = [leaving EXCEPT ![h] = [w \in Leaver |-> NoLeave]]
  /\ lock' = [lock EXCEPT ![h] = "none"]
  /\ runner' = [runner EXCEPT ![h] = "off"]
  /\ beat' = [beat EXCEPT ![h] = NoBeat]
  /\ inbox' = [inbox EXCEPT ![h] = Nothing]
  /\ table' = [table EXCEPT ![h] = NoPeers]
  /\ UNCHANGED <<scene, muted, net, history>>

-----------------------------------------------------------------------------
(* Time *)

Older(n, last) == IF n < last THEN n + 1 ELSE last

\* In the group: its hub is open, or the leave that closed it has yet to tell.
In(h, g) ==
  /\ hub[h].group = g
  /\ \/ ~Closed(h)
     \/ \E w \in Leaver :
          leaving[h][w].pc \in {"closed", "cleared", "restored"} /\ ~leaving[h][w].was
Holds(h, g) == hub[h].group = g /\ hub[h].holding

\* An interval passes; what only waits for a mutex of the process is done by
\* then.
Tick ==
  /\ \A h \in Host : beat[h].pc = "no" /\ inbox[h] = Nothing
  /\ net' = {[d EXCEPT !.age = @ + 1] : d \in {e \in net : e.age < Delay}}
  /\ table' = [h \in Host |-> [p \in Host |->
       IF table[h][p] = Nothing THEN Nothing
       ELSE [table[h][p] EXCEPT !.age = Older(@, PeerTtl)]]]
  /\ away' = [h \in Host |-> [g \in Group |->
       IF In(h, g) THEN 0 ELSE Older(away[h][g], Horizon)]]
  /\ bare' = [h \in Host |-> [g \in Group |->
       IF Holds(h, g) THEN 0 ELSE Older(bare[h][g], Horizon)]]
  /\ UNCHANGED <<scene, session, hub, muted, lock, leaving, tasks>>

-----------------------------------------------------------------------------
Beats(h) == Clone(h) \/ Check(h) \/ Seal(h)
Leaves(h) ==
  \/ \E free \in BOOLEAN : AskLeave(h, free)
  \/ \E w \in Leaver : Close(h, w) \/ Clear(h, w) \/ Restore(h, w) \/ Tell(h, w)
  \/ Return(h) \/ Crash(h)

Next ==
  \/ \E h \in Host :
       \/ \E g \in Group : Join(h, g)
       \/ Beats(h) \/ (\E d \in net : Receive(h, d)) \/ Insert(h) \/ Peers(h)
       \/ (\E by \in Operator : Begin(h, by)) \/ End(h)
       \/ RunFails(h) \/ RunReturns(h) \/ Leaves(h)
  \/ Tick

Spec == Init /\ [][Next]_vars

\* Tasks run, who has the lock gets done with it (each platform call has a
\* timeout), the lock is handed on in the order of asking, and of the datagrams
\* that keep coming some arrive.
LockHolderGoesOn(h) == End(h) \/ \E w \in Leaver : Clear(h, w) \/ Restore(h, w) \/ Tell(h, w)

Fairness ==
  /\ WF_vars(Tick)
  /\ \A h \in Host :
       /\ WF_vars(Beats(h)) /\ WF_vars(Insert(h))
       /\ \A p \in Host \ {h} : SF_vars(\E d \in net : d.from = p /\ Receive(h, d))
       /\ WF_vars(LockHolderGoesOn(h)) /\ SF_vars(Close(h, "call")) /\ WF_vars(Return(h))

FairSpec == Spec /\ Fairness

-----------------------------------------------------------------------------
(* Properties *)

\* Whoever left has an empty table, whatever was received while it left: the
\* members of a group are not shown after it (runner.rs:186).
LeftTableEmpty ==
  \A h \in Host :
    Closed(h) /\ (\A w \in Leaver : leaving[h][w].pc # "closed") => table[h] = NoPeers

\* Who is listed was in the group, and who is listed with the headset held it
\* there, not longer ago than the window of the time stamps and the life of an
\* entry together, although datagrams are late, read twice and overtaken, hosts
\* crash or change groups, and heartbeats copy before they send (runner.rs:88).
ListedInTime ==
  \A h, p \in Host : \A g \in Group :
    LET recent(n) == n + Lead[h] < MaxSkew + Lead[p] + PeerTtl
    IN  hub[h].group = g /\ Listed(h, p) =>
          /\ recent(away[p][g])
          /\ table[h][p].holding => recent(bare[p][g])

\* While a session lives, a suppression its platform keeps is on the record of a
\* hub that a leave can still reach, also when an earlier leave failed, the
\* task left on its own or was stopped while it did (session.rs:336).
SuppressionReachable ==
  \A h \in Host : up[h] /\ muted[h] =>
    hub[h].suppressed /\ (slot[h] \/ leaving[h]["call"].pc # "no")

\* Leaving returns, although operations hold the lock, the task may leave at the
\* same time, and platform and network fail (session.rs:331).
LeaveReturns == \A h \in Host : leaving[h]["call"].pc # "no" ~> leaving[h]["call"].pc = "no"

\* Two hosts that stay in a group list one another again and again, however
\* busy they are and whatever is lost in between (runner.rs:71).
Together(h, p) ==
  /\ hub[h].group = hub[p].group
  /\ h \in scene.listens /\ p \in scene.talks
  /\ \A m \in {h, p} : ~Closed(m) /\ runner[m] = "run"
DiscoveredEventually ==
  \A h \in Host : \A p \in Host \ {h} : <>[]Together(h, p) => []<>Listed(h, p)
=============================================================================
