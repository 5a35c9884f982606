------------------------ MODULE GroupMembership_proofs ------------------------
(***************************************************************************)
(* Proofs about GroupMembership: its type invariant, that who left has an  *)
(* empty table, that suppressions stay within reach of a leave, and that   *)
(* tables are true within the window of time stamps and entries.           *)
(***************************************************************************)
EXTENDS GroupMembership, TLAPS

Locked == {"closed", "cleared", "restored"}
After == Locked \cup {"done"}
Reachable(h) == slot[h] \/ leaving[h]["call"].pc # "no"

\* Tasks, operations and leaves belong to a hub that a call can reach; a hub that
\* is being left is closed, and the lock has the owner it says.
Owned(h) ==
  /\ Reachable(h) => hub[h].group \in Group /\ up[h]
  /\ leaving[h]["task"].pc # "no" \/ runner[h] # "off" \/ lock[h] # "none" => Reachable(h)
  /\ leaving[h]["task"].pc # "no" => runner[h] = "off"
  /\ beat[h].pc # "no" \/ inbox[h] # Nothing => runner[h] # "off"
  /\ \A w \in Leaver : leaving[h][w].pc \in After => Closed(h)
  /\ lock[h] \in Operator => ~Closed(h)
  /\ \A w \in Leaver : lock[h] = w => leaving[h][w].pc \in Locked
Ownership == \A h \in Host : Owned(h)

\* A closed hub has an empty table as soon as one leave cleared it; a leave that
\* restored without an error has no suppression on its record; and a suppression
\* is on the record of a hub that a call can reach.
Cleared(h) ==
  (/\ Closed(h)
   /\ \/ \A w \in Leaver : leaving[h][w].pc # "closed"
      \/ \E w \in Leaver : leaving[h][w].pc \in {"cleared", "restored", "done"})
    => table[h] = NoPeers
Clean(h) ==
  leaving[h]["call"].pc \in {"restored", "done"} /\ ~leaving[h]["call"].failed
    => ~hub[h].suppressed
Recorded(h) == up[h] /\ muted[h] => hub[h].suppressed /\ Reachable(h)
Tidy(h) == Cleared(h) /\ Clean(h) /\ Recorded(h)
Tidiness == \A h \in Host : Tidy(h)

\* How long ago somebody was in a group, and held the headset there.
Since(p, g, holding, n) == away[p][g] <= n /\ (holding => bare[p][g] <= n)
Current(h) ==
  \A g \in Group : (In(h, g) => away[h][g] = 0) /\ (Holds(h, g) => bare[h][g] = 0)
BeatTrue(h) == beat[h].pc # "no" => Since(h, hub[h].group, beat[h].holding, 0)
InboxTrue(h) ==
  inbox[h] # Nothing => Since(inbox[h].from, hub[h].group, inbox[h].holding,
                              MaxSkew + Lead[inbox[h].from] - Lead[h])
TableTrue(h) ==
  \A p \in Host : hub[h].group \in Group /\ Listed(h, p) =>
    Since(p, hub[h].group, table[h][p].holding, MaxSkew + Lead[p] - Lead[h] + table[h][p].age)
NetTrue == \A d \in net : Since(d.from, d.group, d.holding, d.age)
Timely == NetTrue /\ \A h \in Host : Current(h) /\ BeatTrue(h) /\ InboxTrue(h) /\ TableTrue(h)

-----------------------------------------------------------------------------
(* Types *)

LEMMA RecordTypes ==
  /\ NoHub \in Hub /\ NoLeave \in Leave /\ NoBeat \in Beat
  /\ Nothing \notin Heard /\ Nothing \notin Entry
  /\ NoPeers \in [Host -> Entry \cup {Nothing}]
  /\ "call" \in Leaver /\ "task" \in Leaver /\ "worker" \in Operator /\ "user" \in Operator
  /\ "none" \notin Leaver /\ "none" \notin Operator /\ Leaver \cap Operator = {}
BY MembershipAssumption DEF NoHub, Hub, NoLeave, Leave, NoBeat, Beat, Nothing, Heard, Entry,
   NoPeers, Leaver, Operator

LEMMA HorizonType == Horizon \in Nat /\ 0 \in 0..Horizon /\ 0 \in 0..PeerTtl /\ 0 \in 0..Delay
BY MembershipAssumption DEF Horizon

LEMMA InitType == Init => TypeOK
<1> SUFFICES ASSUME Init PROVE TypeOK
  OBVIOUS
<1>1. /\ scene \in Scenes
      /\ up \in [Host -> BOOLEAN] /\ slot \in [Host -> BOOLEAN]
      /\ hub \in [Host -> Hub]
      /\ muted \in [Host -> BOOLEAN]
  BY RecordTypes DEF Init
<1>2. lock \in [Host -> {"none"} \cup Operator \cup Leaver]
  BY DEF Init
<1>3. leaving \in [Host -> [Leaver -> Leave]]
  BY RecordTypes DEF Init
<1>4. /\ runner \in [Host -> {"off", "run", "failed"}]
      /\ beat \in [Host -> Beat]
      /\ inbox \in [Host -> Heard \cup {Nothing}]
      /\ table \in [Host -> [Host -> Entry \cup {Nothing}]]
      /\ net \subseteq Announcement
  BY RecordTypes DEF Init
<1>5. Horizon \in 0..Horizon
  BY HorizonType
<1>6. /\ away \in [Host -> [Group -> 0..Horizon]]
      /\ bare \in [Host -> [Group -> 0..Horizon]]
  BY <1>5 DEF Init
<1> QED BY <1>1, <1>2, <1>3, <1>4, <1>6 DEF TypeOK

\* What an announcement that is typed does to the network.
LEMMA AnnounceType ==
  ASSUME TypeOK, NEW h \in Host, NEW holding \in BOOLEAN, hub[h].group \in Group,
         Announce(h, holding)
  PROVE  net' \subseteq Announcement
<1>1. [from |-> h, group |-> hub[h].group, holding |-> holding, age |-> 0] \in Announcement
  BY HorizonType DEF Announcement
<1> QED BY <1>1 DEF Announce, TypeOK

LEMMA LeaveOf ==
  ASSUME TypeOK, NEW h \in Host, NEW w \in Leaver
  PROVE  leaving[h][w] \in Leave
BY DEF TypeOK

LEMMA HubOf == ASSUME TypeOK, NEW h \in Host PROVE hub[h] \in Hub
BY DEF TypeOK

\* Changing a field of a leave.
LEMMA LeaveType ==
  ASSUME TypeOK, NEW h \in Host, NEW w \in Leaver, NEW new \in Leave
  PROVE  [leaving EXCEPT ![h][w] = new] \in [Host -> [Leaver -> Leave]]
BY DEF TypeOK

LEMMA PcType ==
  ASSUME TypeOK, NEW h \in Host, NEW w \in Leaver,
         NEW pc \in {"no", "ask", "closed", "cleared", "restored", "done"}, Goes(h, w, pc)
  PROVE  leaving' \in [Host -> [Leaver -> Leave]]
<1>1. [leaving[h][w] EXCEPT !.pc = pc] \in Leave
  BY LeaveOf DEF Leave
<1>2. leaving' = [leaving EXCEPT ![h][w] = [leaving[h][w] EXCEPT !.pc = pc]]
  BY DEF Goes
<1> QED BY <1>1, <1>2, LeaveType

\* stop_task keeps the types.
LEMMA StopTaskType ==
  ASSUME TypeOK, NEW h \in Host, StopTask(h)
  PROVE  /\ runner' \in [Host -> {"off", "run", "failed"}]
         /\ beat' \in [Host -> Beat]
         /\ inbox' \in [Host -> Heard \cup {Nothing}]
         /\ lock' \in [Host -> {"none"} \cup Operator \cup Leaver]
BY RecordTypes DEF TypeOK, StopTask

\* An operation holds the lock, and a leave is made, of a hub that is in a group.
LEMMA InGroup ==
  ASSUME Ownership, NEW h \in Host,
         Reachable(h) \/ lock[h] # "none" \/ beat[h].pc # "no" \/ inbox[h] # Nothing
           \/ runner[h] # "off" \/ \E w \in Leaver : leaving[h][w].pc # "no"
  PROVE  Reachable(h) /\ hub[h].group \in Group
BY DEF Ownership, Owned, Reachable, Leaver

\* What a receiver, a leave, and time do to the types.
LEMMA TypeNext == TypeOK /\ Ownership /\ [Next]_vars => TypeOK'
<1> SUFFICES ASSUME TypeOK, Ownership, [Next]_vars PROVE TypeOK'
  OBVIOUS
<1> USE RecordTypes, HorizonType
<1>1. ASSUME NEW h \in Host, NEW g \in Group, Join(h, g) PROVE TypeOK'
  <2>1. [NoHub EXCEPT !.group = g, !.closed = FALSE] \in Hub
    BY DEF NoHub, Hub
  <2>2. away' \in [Host -> [Group -> 0..Horizon]]
    BY <1>1 DEF Join, TypeOK
  <2> QED BY <1>1, <2>1, <2>2 DEF Join, TypeOK
<1>2. ASSUME NEW h \in Host, Clone(h) PROVE TypeOK'
  <2>1. [pc |-> "cloned", holding |-> hub[h].holding] \in Beat
    BY DEF Beat, TypeOK, Hub
  <2> QED BY <1>2, <2>1 DEF Clone, TypeOK, session, history
<1>3. ASSUME NEW h \in Host, Check(h) PROVE TypeOK'
  <2>1. beat[h] \in Beat /\ hub[h] \in Hub
    BY DEF TypeOK
  <2>2. [pc |-> "checked", holding |-> beat[h].holding /\ lock[h] = "none" /\ ~Closed(h)] \in Beat
    BY <2>1 DEF Beat, Hub, Closed
  <2>3. beat' \in [Host -> Beat]
    BY <1>3, <2>2 DEF Check, TypeOK
  <2> QED BY <1>3, <2>3 DEF Check, TypeOK, session, history
<1>4. ASSUME NEW h \in Host, Seal(h) PROVE TypeOK'
  <2>1. beat[h].holding \in BOOLEAN
    BY DEF TypeOK, Beat
  <2>2. net' \subseteq Announcement
    BY <1>4, <2>1, InGroup, AnnounceType DEF Seal
  <2> QED BY <1>4, <2>2 DEF Seal, TypeOK, session, history
<1>5. ASSUME NEW h \in Host, NEW d \in net, Receive(h, d) PROVE TypeOK'
  <2>1. [from |-> d.from, holding |-> d.holding] \in Heard
    BY DEF TypeOK, Announcement, Heard
  <2> QED BY <1>5, <2>1 DEF Receive, TypeOK, session, history
<1>6. ASSUME NEW h \in Host, Insert(h) PROVE TypeOK'
  <2>1. inbox[h] \in Heard
    BY <1>6 DEF Insert, TypeOK
  <2>2. [age |-> 0, holding |-> inbox[h].holding] \in Entry /\ inbox[h].from \in Host
    BY <2>1 DEF Heard, Entry
  <2>3. table' \in [Host -> [Host -> Entry \cup {Nothing}]]
    BY <1>6, <2>2 DEF Insert, TypeOK
  <2> QED BY <1>6, <2>3 DEF Insert, TypeOK, session, history
<1>7. ASSUME NEW h \in Host, Peers(h) PROVE TypeOK'
  BY <1>7 DEF Peers, TypeOK, session, history, tasks
<1>8. ASSUME NEW h \in Host, NEW by \in Operator, Begin(h, by) PROVE TypeOK'
  BY <1>8 DEF Begin, TypeOK, session, history, tasks
<1>9. ASSUME NEW h \in Host, End(h) PROVE TypeOK'
  <2>1. PICK holding \in BOOLEAN, suppress \in BOOLEAN :
          /\ hub' = [hub EXCEPT ![h].holding = holding, ![h].suppressed = suppress]
          /\ muted' = [muted EXCEPT ![h] = suppress]
          /\ Announce(h, holding) \/ UNCHANGED net
          /\ bare' = IF holding THEN [bare EXCEPT ![h][hub[h].group] = 0] ELSE bare
    BY <1>9 DEF End
  <2>2. hub[h].group \in Group
    BY <1>9, InGroup DEF End
  <2>3. net' \subseteq Announcement
    BY <2>1, <2>2, AnnounceType DEF TypeOK
  <2>4. [hub[h] EXCEPT !.holding = holding, !.suppressed = suppress] \in Hub
    BY DEF TypeOK, Hub
  <2>5. hub' \in [Host -> Hub]
    BY <2>1, <2>4 DEF TypeOK
  <2>6. bare' \in [Host -> [Group -> 0..Horizon]]
    BY <2>1, <2>2 DEF TypeOK
  <2> QED BY <1>9, <2>1, <2>3, <2>5, <2>6 DEF End, TypeOK, session, tasks
<1>10. ASSUME NEW h \in Host, NEW free \in BOOLEAN, AskLeave(h, free) PROVE TypeOK'
  <2>1. [NoLeave EXCEPT !.pc = "ask", !.free = free] \in Leave
    BY DEF NoLeave, Leave
  <2>2. leaving' \in [Host -> [Leaver -> Leave]]
    BY <1>10, <2>1, LeaveType DEF AskLeave
  <2> QED BY <1>10, <2>2 DEF AskLeave, TypeOK, history, tasks
<1>11. ASSUME NEW h \in Host, RunFails(h) PROVE TypeOK'
  BY <1>11 DEF RunFails, TypeOK, session, history
<1>12. ASSUME NEW h \in Host, RunReturns(h) PROVE TypeOK'
  <2>1. [NoLeave EXCEPT !.pc = "ask"] \in Leave
    BY DEF NoLeave, Leave
  <2>2. leaving' \in [Host -> [Leaver -> Leave]]
    BY <1>12, <2>1, LeaveType DEF RunReturns, TypeOK
  <2> QED BY <1>12, <2>2 DEF RunReturns, TypeOK, session, history
<1>13. ASSUME NEW h \in Host, NEW w \in Leaver, Close(h, w) PROVE TypeOK'
  <2>1. [leaving[h][w] EXCEPT !.pc = "closed", !.was = Closed(h)] \in Leave
    BY LeaveOf, HubOf DEF Leave, Closed, Hub
  <2>2. leaving' = [leaving EXCEPT ![h][w] = [leaving[h][w] EXCEPT !.pc = "closed", !.was = Closed(h)]]
    BY <1>13 DEF Close, TypeOK
  <2>3. leaving' \in [Host -> [Leaver -> Leave]]
    BY <2>1, <2>2, LeaveType
  <2>4. [hub[h] EXCEPT !.closed = TRUE] \in Hub
    BY DEF TypeOK, Hub
  <2>5. hub' \in [Host -> Hub] /\ lock' \in [Host -> {"none"} \cup Operator \cup Leaver]
    BY <1>13, <2>4 DEF Close, TypeOK
  <2> QED BY <1>13, <2>3, <2>5 DEF Close, TypeOK, session, history, tasks
<1>14. ASSUME NEW h \in Host, NEW w \in Leaver, Clear(h, w) PROVE TypeOK'
  <2>1. leaving' \in [Host -> [Leaver -> Leave]]
    BY <1>14, PcType DEF Clear
  <2>2. [hub[h] EXCEPT !.holding = FALSE] \in Hub
    BY DEF TypeOK, Hub
  <2>3. hub' \in [Host -> Hub]
    BY <1>14, <2>2 DEF Clear, TypeOK
  <2> QED BY <1>14, <2>1, <2>3 DEF Clear, TypeOK, session, history, tasks
<1>15. ASSUME NEW h \in Host, NEW w \in Leaver, Restore(h, w) PROVE TypeOK'
  <2>1. [hub[h] EXCEPT !.suppressed = FALSE] \in Hub /\ hub[h].suppressed \in BOOLEAN
    BY DEF TypeOK, Hub
  <2>2. hub' \in [Host -> Hub] /\ muted' \in [Host -> BOOLEAN]
    <3>1. CASE UNCHANGED <<hub, muted>>
      BY <3>1 DEF TypeOK
    <3>2. CASE /\ hub' = [hub EXCEPT ![h].suppressed = FALSE]
               /\ muted' = [muted EXCEPT ![h] = @ /\ ~hub[h].suppressed]
      <4>1. (muted[h] /\ ~hub[h].suppressed) \in BOOLEAN
        OBVIOUS
      <4>2. muted' \in [Host -> BOOLEAN]
        BY <3>2, <4>1 DEF TypeOK
      <4>3. hub' \in [Host -> Hub]
        BY <3>2, <2>1 DEF TypeOK
      <4> QED BY <4>2, <4>3
    <3> QED BY <1>15, <3>1, <3>2 DEF Restore
  <2>3. CASE Goes(h, w, "restored")
    BY <1>15, <2>2, <2>3, PcType DEF Restore, TypeOK, session, history, tasks
  <2>4. CASE leaving' = [leaving EXCEPT ![h][w].pc = "restored", ![h][w].failed = TRUE]
    <3>1. [leaving[h][w] EXCEPT !.pc = "restored", !.failed = TRUE] \in Leave
      BY LeaveOf DEF Leave
    <3>2. leaving' = [leaving EXCEPT ![h][w] =
                        [leaving[h][w] EXCEPT !.pc = "restored", !.failed = TRUE]]
      BY <2>4 DEF TypeOK
    <3>3. leaving' \in [Host -> [Leaver -> Leave]]
      BY <3>1, <3>2, LeaveType
    <3> QED BY <1>15, <2>2, <3>3 DEF Restore, TypeOK, session, history, tasks
  <2> QED BY <1>15, <2>3, <2>4 DEF Restore
<1>16. ASSUME NEW h \in Host, NEW w \in Leaver, Tell(h, w) PROVE TypeOK'
  <2>1. PICK fails \in BOOLEAN :
          /\ UNCHANGED net \/ Announce(h, hub[h].holding)
          /\ leaving' = [leaving EXCEPT ![h][w] = Told(leaving[h][w], w, fails)]
    BY <1>16 DEF Tell
  <2>2. hub[h].group \in Group /\ hub[h].holding \in BOOLEAN
    BY <1>16, InGroup DEF Tell, TypeOK, Hub
  <2>3. net' \subseteq Announcement
    BY <2>1, <2>2, AnnounceType DEF TypeOK
  <2>4. Told(leaving[h][w], w, fails) \in Leave
    BY LeaveOf DEF Leave, Told
  <2>5. leaving' \in [Host -> [Leaver -> Leave]]
    BY <2>1, <2>4, LeaveType
  <2> QED BY <1>16, <2>3, <2>5 DEF Tell, TypeOK, session, history, tasks
<1>17. ASSUME NEW h \in Host, Return(h) PROVE TypeOK'
  <2>1. leaving[h]["call"] \in Leave
    BY DEF TypeOK
  <2>2. /\ up' \in [Host -> BOOLEAN] /\ slot' \in [Host -> BOOLEAN]
        /\ hub' \in [Host -> Hub] /\ leaving' \in [Host -> [Leaver -> Leave]]
    BY <1>17, <2>1 DEF Return, TypeOK, Leave
  <2> QED BY <1>17, <2>2, StopTaskType DEF Return, TypeOK, history
<1>18. ASSUME NEW h \in Host, Crash(h) PROVE TypeOK'
  BY <1>18 DEF Crash, TypeOK, history
<1>19. CASE Tick
  <2>1. \A n \in Nat : \A m \in 0..n : Older(m, n) \in 0..n
    BY DEF Older
  <2>2. net' \subseteq Announcement
    <3>1. \A d \in Announcement : d.age < Delay => [d EXCEPT !.age = d.age + 1] \in Announcement
      BY MembershipAssumption DEF Announcement
    <3> QED BY <1>19, <3>1 DEF Tick, TypeOK
  <2>3. table' \in [Host -> [Host -> Entry \cup {Nothing}]]
    <3>1. \A e \in Entry : [e EXCEPT !.age = Older(e.age, PeerTtl)] \in Entry
      BY <2>1, MembershipAssumption DEF Entry
    <3> QED BY <1>19, <3>1 DEF Tick, TypeOK
  <2>4. /\ away' \in [Host -> [Group -> 0..Horizon]]
        /\ bare' \in [Host -> [Group -> 0..Horizon]]
    BY <1>19, <2>1 DEF Tick, TypeOK
  <2> QED BY <1>19, <2>2, <2>3, <2>4 DEF Tick, TypeOK, session, tasks
<1>20. CASE UNCHANGED vars
  BY <1>20 DEF vars, TypeOK, session, history, tasks
<1>21. ASSUME NEW h \in Host, Leaves(h) PROVE TypeOK'
  BY <1>21, <1>10, <1>13, <1>14, <1>15, <1>16, <1>17, <1>18 DEF Leaves
<1> QED
  BY <1>1, <1>2, <1>3, <1>4, <1>5, <1>6, <1>7, <1>8, <1>9, <1>11, <1>12, <1>19, <1>20, <1>21
  DEF Next, Beats

-----------------------------------------------------------------------------
(* Ownership *)

\* What Owned says of a host depends on its own state alone.
SameAt(k) ==
  /\ up'[k] = up[k] /\ slot'[k] = slot[k] /\ leaving'[k] = leaving[k] /\ hub'[k] = hub[k]
  /\ runner'[k] = runner[k] /\ lock'[k] = lock[k]
  /\ beat'[k] = beat[k] /\ inbox'[k] = inbox[k]

LEMMA SameOwned ==
  ASSUME NEW k \in Host, Owned(k), SameAt(k)
  PROVE  Owned(k)'
BY DEF Owned, SameAt, Reachable, Closed

\* What a step of one host does to the leaves of this host.
Leaving(h, w, pc) ==
  /\ leaving'[h][w].pc = pc
  /\ \A v \in Leaver \ {w} : leaving'[h][v] = leaving[h][v]

LEMMA RestoreMoves ==
  ASSUME TypeOK, NEW h \in Host, NEW w \in Leaver, Restore(h, w)
  PROVE  leaving[h][w].pc = "cleared" /\ Leaving(h, w, "restored")
<1>1. leaving[h][w].pc = "cleared" /\ leaving[h][w] \in Leave
  BY LeaveOf DEF Restore
<1>2. CASE Goes(h, w, "restored")
  BY <1>1, <1>2 DEF Goes, Leaving, TypeOK, Leave
<1>3. CASE leaving' = [leaving EXCEPT ![h][w].pc = "restored", ![h][w].failed = TRUE]
  BY <1>1, <1>3 DEF Leaving, TypeOK, Leave
<1> QED BY <1>1, <1>2, <1>3 DEF Restore

LEMMA TellMoves ==
  ASSUME TypeOK, NEW h \in Host, NEW w \in Leaver, Tell(h, w)
  PROVE  /\ leaving[h][w].pc = "restored"
         /\ Leaving(h, w, IF w = "task" THEN "no" ELSE "done")
<1>1. leaving[h][w].pc = "restored" /\ leaving[h][w] \in Leave
  BY LeaveOf DEF Tell
<1>2. PICK fails \in BOOLEAN :
        leaving' = [leaving EXCEPT ![h][w] = Told(leaving[h][w], w, fails)]
  BY DEF Tell
<1>3. Told(leaving[h][w], w, fails).pc = IF w = "task" THEN "no" ELSE "done"
  BY <1>1 DEF Told, NoLeave, Leave
<1> QED BY <1>1, <1>2, <1>3 DEF Leaving, TypeOK

LEMMA OwnershipNext == TypeOK /\ Ownership /\ [Next]_vars => Ownership'
<1> SUFFICES ASSUME TypeOK, Ownership, [Next]_vars, NEW k \in Host PROVE Owned(k)'
  BY DEF Ownership
<1> USE RecordTypes
<1>0. Owned(k)
  BY DEF Ownership
<1>1. ASSUME NEW h \in Host, NEW g \in Group, Join(h, g) PROVE Owned(k)'
  <2>1. CASE k # h
    BY <1>0, <1>1, <2>1, SameOwned DEF Join, TypeOK, SameAt
  <2>2. CASE k = h
    <3>1. leaving[h]["call"].pc = "no" /\ ~slot[h] /\ up[h] /\ up' = up
      BY <1>1 DEF Join, Idle
    <3>2. leaving[h]["task"].pc = "no" /\ runner[h] = "off" /\ lock[h] = "none"
      BY <1>0, <2>2, <3>1 DEF Owned, Reachable
    <3>3. hub'[h].group = g /\ ~hub'[h].closed /\ slot'[h] /\ runner'[h] = "run"
          /\ lock'[h] = lock[h] /\ leaving'[h] = leaving[h]
      BY <1>1 DEF Join, TypeOK, NoHub
    <3> QED BY <2>2, <3>1, <3>2, <3>3 DEF Owned, Reachable, Closed, Leaver, After, Locked
  <2> QED BY <2>1, <2>2
<1>2. ASSUME NEW h \in Host, Clone(h) PROVE Owned(k)'
  <2>1. CASE k # h
    BY <1>0, <1>2, <2>1, SameOwned DEF Clone, TypeOK, SameAt, session, history
  <2>2. CASE k = h
    <3>1. runner[h] = "run"
      BY <1>2 DEF Clone
    <3> QED BY <1>0, <1>2, <2>2, <3>1 DEF Clone, session, Owned, Reachable, Closed
  <2> QED BY <2>1, <2>2
<1>3. ASSUME NEW h \in Host, Check(h) PROVE Owned(k)'
  <2>1. CASE k # h
    BY <1>0, <1>3, <2>1, SameOwned DEF Check, TypeOK, SameAt, session, history
  <2>2. CASE k = h
    <3>1. runner[h] # "off"
      BY <1>0, <1>3, <2>2 DEF Check, Owned
    <3> QED BY <1>0, <1>3, <2>2, <3>1 DEF Check, session, Owned, Reachable, Closed
  <2> QED BY <2>1, <2>2
<1>4. ASSUME NEW h \in Host, Seal(h) PROVE Owned(k)'
  <2>1. CASE k # h
    BY <1>0, <1>4, <2>1, SameOwned DEF Seal, TypeOK, SameAt, session, history
  <2>2. CASE k = h
    <3>1. runner[h] # "off"
      BY <1>0, <1>4, <2>2 DEF Seal, Owned
    <3> QED BY <1>0, <1>4, <2>2, <3>1 DEF Seal, session, Owned, Reachable, Closed
  <2> QED BY <2>1, <2>2
<1>5. ASSUME NEW h \in Host, NEW d \in net, Receive(h, d) PROVE Owned(k)'
  <2>1. CASE k # h
    BY <1>0, <1>5, <2>1, SameOwned DEF Receive, TypeOK, SameAt, session, history
  <2>2. CASE k = h
    <3>1. runner[h] = "run"
      BY <1>5 DEF Receive
    <3> QED BY <1>0, <1>5, <2>2, <3>1 DEF Receive, session, Owned, Reachable, Closed
  <2> QED BY <2>1, <2>2
<1>6. ASSUME NEW h \in Host, Insert(h) PROVE Owned(k)'
  <2>1. CASE k # h
    BY <1>0, <1>6, <2>1, SameOwned DEF Insert, TypeOK, SameAt, session, history
  <2>2. CASE k = h
    <3>1. runner[h] # "off"
      BY <1>0, <1>6, <2>2 DEF Insert, Owned
    <3> QED BY <1>0, <1>6, <2>2, <3>1 DEF Insert, session, Owned, Reachable, Closed
  <2> QED BY <2>1, <2>2
<1>7. ASSUME NEW h \in Host, Peers(h) PROVE Owned(k)'
  BY <1>0, <1>7, SameOwned DEF Peers, SameAt, session, tasks
<1>8. ASSUME NEW h \in Host, NEW by \in Operator, Begin(h, by) PROVE Owned(k)'
  <2>1. CASE k # h
    BY <1>0, <1>8, <2>1, SameOwned DEF Begin, TypeOK, SameAt, session, tasks
  <2>2. CASE k = h
    <3>1. Reachable(h) /\ ~Closed(h) /\ lock'[h] = by
      BY <1>0, <1>8, <2>2 DEF Begin, Owned, TypeOK, Operator, Reachable
    <3>2. /\ up' = up /\ slot' = slot /\ leaving' = leaving /\ hub' = hub /\ runner' = runner
          /\ beat' = beat /\ inbox' = inbox
      BY <1>8 DEF Begin, session, tasks
    <3> QED BY <1>0, <2>2, <3>1, <3>2 DEF Owned, Reachable, Closed
  <2> QED BY <2>1, <2>2
<1>9. ASSUME NEW h \in Host, End(h) PROVE Owned(k)'
  <2>1. /\ up' = up /\ slot' = slot /\ leaving' = leaving /\ runner' = runner /\ beat' = beat
        /\ inbox' = inbox /\ lock' = [lock EXCEPT ![h] = "none"]
    BY <1>9 DEF End, session, tasks
  <2>2. PICK holding, suppress \in BOOLEAN :
          hub' = [hub EXCEPT ![h].holding = holding, ![h].suppressed = suppress]
    BY <1>9 DEF End
  <2>3. hub'[k].group = hub[k].group /\ hub'[k].closed = hub[k].closed
    BY <2>2, HubOf DEF TypeOK, Hub
  <2>4. lock'[k] = lock[k] \/ lock'[k] = "none"
    BY <2>1 DEF TypeOK
  <2> QED BY <1>0, <2>1, <2>3, <2>4 DEF Owned, Reachable, Closed
<1>10. ASSUME NEW h \in Host, NEW free \in BOOLEAN, AskLeave(h, free) PROVE Owned(k)'
  <2>1. CASE k # h
    BY <1>0, <1>10, <2>1, SameOwned DEF AskLeave, TypeOK, SameAt, tasks
  <2>2. CASE k = h
    <3>1. Leaving(h, "call", "ask") /\ slot[h]
      BY <1>10 DEF AskLeave, Leaving, TypeOK, NoLeave
    <3>2. up' = up /\ hub' = hub /\ lock' = lock /\ runner' = runner /\ beat' = beat /\ inbox' = inbox
      BY <1>10 DEF AskLeave, tasks
    <3>3. lock[h] # "call"
      BY <1>0, <1>10, <2>2 DEF AskLeave, Idle, Owned, Locked
    <3> QED
      BY <1>0, <2>2, <3>1, <3>2, <3>3 DEF Owned, Reachable, Closed, Leaving, Leaver, After, Locked
  <2> QED BY <2>1, <2>2
<1>11. ASSUME NEW h \in Host, RunFails(h) PROVE Owned(k)'
  <2>1. CASE k # h
    BY <1>0, <1>11, <2>1, SameOwned DEF RunFails, TypeOK, SameAt, session, history
  <2>2. CASE k = h
    BY <1>0, <1>11, <2>2 DEF RunFails, TypeOK, session, Owned, Reachable, Closed
  <2> QED BY <2>1, <2>2
<1>12. ASSUME NEW h \in Host, RunReturns(h) PROVE Owned(k)'
  <2>1. CASE k # h
    BY <1>0, <1>12, <2>1, SameOwned DEF RunReturns, TypeOK, SameAt, session, history
  <2>2. CASE k = h
    <3>1. /\ Reachable(h) /\ lock[h] # "worker" /\ runner'[h] = "off"
          /\ beat[h].pc = "no" /\ inbox[h] = Nothing
      BY <1>0, <1>12, <2>2 DEF RunReturns, Owned, TypeOK
    <3>2. up' = up /\ hub' = hub /\ lock' = lock /\ slot' = slot /\ beat' = beat /\ inbox' = inbox
      BY <1>12 DEF RunReturns, session
    <3>3. CASE leaving' = leaving
      BY <1>0, <2>2, <3>1, <3>2, <3>3 DEF Owned, Reachable, Closed
    <3>4. CASE /\ runner[h] = "failed"
               /\ leaving' = [leaving EXCEPT ![h]["task"] = [NoLeave EXCEPT !.pc = "ask"]]
      <4>1. Leaving(h, "task", "ask")
        BY <3>4 DEF Leaving, TypeOK, NoLeave
      <4>2. lock[h] # "task"
        BY <1>0, <2>2, <3>4 DEF Owned, Locked
      <4> QED
        BY <1>0, <2>2, <3>1, <3>2, <4>1, <4>2 DEF Owned, Reachable, Closed, Leaving, Leaver, After, Locked
    <3> QED BY <1>12, <3>3, <3>4 DEF RunReturns
  <2> QED BY <2>1, <2>2
<1>13. ASSUME NEW h \in Host, NEW w \in Leaver, Close(h, w) PROVE Owned(k)'
  <2>1. CASE k # h
    BY <1>0, <1>13, <2>1, SameOwned DEF Close, TypeOK, SameAt, session, tasks
  <2>2. CASE k = h
    <3>1. Leaving(h, w, "closed") /\ leaving[h][w].pc = "ask"
      BY <1>13, LeaveOf DEF Close, Leaving, TypeOK, Leave
    <3>2. hub'[h].closed /\ hub'[h].group = hub[h].group /\ lock'[h] = w
      BY <1>13, HubOf DEF Close, TypeOK, Hub
    <3>3. up' = up /\ slot' = slot /\ runner' = runner /\ beat' = beat /\ inbox' = inbox
      BY <1>13 DEF Close, session, tasks
    <3> QED
      BY <1>0, <2>2, <3>1, <3>2, <3>3
      DEF Owned, Reachable, Closed, Leaving, Leaver, Operator, After, Locked
  <2> QED BY <2>1, <2>2
<1>14. ASSUME NEW h \in Host, NEW w \in Leaver, Clear(h, w) PROVE Owned(k)'
  <2>1. CASE k # h
    BY <1>0, <1>14, <2>1, SameOwned DEF Clear, Goes, TypeOK, SameAt, session, tasks
  <2>2. CASE k = h
    <3>1. Leaving(h, w, "cleared") /\ leaving[h][w].pc = "closed"
      BY <1>14, LeaveOf DEF Clear, Goes, Leaving, TypeOK, Leave
    <3>2. hub'[h].closed = hub[h].closed /\ hub'[h].group = hub[h].group /\ lock' = lock
      BY <1>14, HubOf DEF Clear, TypeOK, Hub
    <3>3. up' = up /\ slot' = slot /\ runner' = runner /\ beat' = beat /\ inbox' = inbox
      BY <1>14 DEF Clear, session, tasks
    <3> QED
      BY <1>0, <2>2, <3>1, <3>2, <3>3 DEF Owned, Reachable, Closed, Leaving, Leaver, After, Locked
  <2> QED BY <2>1, <2>2
<1>15. ASSUME NEW h \in Host, NEW w \in Leaver, Restore(h, w) PROVE Owned(k)'
  <2>1. CASE k # h
    BY <1>0, <1>15, <2>1, SameOwned DEF Restore, Goes, TypeOK, SameAt, session, tasks
  <2>2. CASE k = h
    <3>1. Leaving(h, w, "restored") /\ leaving[h][w].pc = "cleared"
      BY <1>15, RestoreMoves DEF Restore, Leaving
    <3>2. hub'[h].closed = hub[h].closed /\ hub'[h].group = hub[h].group /\ lock' = lock
      BY <1>15, HubOf DEF Restore, TypeOK, Hub
    <3>3. up' = up /\ slot' = slot /\ runner' = runner /\ beat' = beat /\ inbox' = inbox
      BY <1>15 DEF Restore, session, tasks
    <3> QED
      BY <1>0, <2>2, <3>1, <3>2, <3>3 DEF Owned, Reachable, Closed, Leaving, Leaver, After, Locked
  <2> QED BY <2>1, <2>2
<1>16. ASSUME NEW h \in Host, NEW w \in Leaver, Tell(h, w) PROVE Owned(k)'
  <2>1. CASE k # h
    BY <1>0, <1>16, <2>1, SameOwned DEF Tell, TypeOK, SameAt, session, tasks
  <2>2. CASE k = h
    <3>1. Leaving(h, w, IF w = "task" THEN "no" ELSE "done") /\ leaving[h][w].pc = "restored"
      BY <1>16, TellMoves DEF Tell, Leaving
    <3>2. hub' = hub /\ lock'[h] = "none"
      BY <1>16 DEF Tell, TypeOK
    <3>3. up' = up /\ slot' = slot /\ runner' = runner /\ beat' = beat /\ inbox' = inbox
      BY <1>16 DEF Tell, session, tasks
    <3> QED
      BY <1>0, <2>2, <3>1, <3>2, <3>3
      DEF Owned, Reachable, Closed, Leaving, Leaver, Operator, After, Locked
  <2> QED BY <2>1, <2>2
<1>17. ASSUME NEW h \in Host, Return(h) PROVE Owned(k)'
  <2>1. CASE k # h
    BY <1>0, <1>17, <2>1, SameOwned DEF Return, StopTask, TypeOK, SameAt
  <2>2. CASE k = h
    <3>1. leaving[h]["call"].pc = "done" /\ Closed(h) /\ hub[h].group \in Group
      BY <1>0, <1>17, <2>2 DEF Return, Owned, Reachable, After, Locked
    <3>2. lock[h] = "none" \/ lock[h] = "task"
      BY <1>0, <2>2, <3>1 DEF Owned, Leaver, Locked, TypeOK
    <3>3. lock'[h] = "none" /\ runner'[h] = "off" /\ beat'[h].pc = "no" /\ inbox'[h] = Nothing
      BY <1>17, <3>2 DEF Return, StopTask, TypeOK, NoBeat
    <3>4. \A w \in Leaver : leaving'[h][w].pc = "no"
      BY <1>17 DEF Return, TypeOK, NoLeave
    <3>5. slot'[h] => hub'[h] = hub[h] /\ up'[h]
      BY <1>17 DEF Return, TypeOK
    <3> QED
      BY <2>2, <3>1, <3>3, <3>4, <3>5 DEF Owned, Reachable, Closed, Leaver, Operator, After, Locked
  <2> QED BY <2>1, <2>2
<1>18. ASSUME NEW h \in Host, Crash(h) PROVE Owned(k)'
  <2>1. CASE k # h
    BY <1>0, <1>18, <2>1, SameOwned DEF Crash, TypeOK, SameAt
  <2>2. CASE k = h
    <3>1. lock'[h] = "none" /\ runner'[h] = "off" /\ beat'[h].pc = "no" /\ inbox'[h] = Nothing
          /\ ~slot'[h] /\ \A w \in Leaver : leaving'[h][w].pc = "no"
      BY <1>18 DEF Crash, TypeOK, NoBeat, NoLeave
    <3> QED BY <2>2, <3>1 DEF Owned, Reachable, Closed, Leaver, Operator, After, Locked
  <2> QED BY <2>1, <2>2
<1>19. CASE Tick
  BY <1>0, <1>19, SameOwned DEF Tick, SameAt, session, tasks
<1>20. CASE UNCHANGED vars
  BY <1>0, <1>20, SameOwned DEF vars, SameAt, session, tasks
<1>21. ASSUME NEW h \in Host, Leaves(h) PROVE Owned(k)'
  BY <1>21, <1>10, <1>13, <1>14, <1>15, <1>16, <1>17, <1>18 DEF Leaves
<1> QED
  BY <1>1, <1>2, <1>3, <1>4, <1>5, <1>6, <1>7, <1>8, <1>9, <1>11, <1>12, <1>19, <1>20, <1>21
  DEF Next, Beats

-----------------------------------------------------------------------------
(* Tables and suppressions *)

TidySame(k) ==
  /\ up'[k] = up[k] /\ slot'[k] = slot[k] /\ muted'[k] = muted[k] /\ hub'[k] = hub[k]
  /\ leaving'[k] = leaving[k] /\ table'[k] = table[k]

LEMMA SameTidy ==
  ASSUME NEW k \in Host, Tidy(k), TidySame(k)
  PROVE  Tidy(k)'
BY DEF Tidy, Cleared, Clean, Recorded, TidySame, Reachable, Closed, NoPeers

LEMMA TidyNext == TypeOK /\ Ownership /\ Tidiness /\ [Next]_vars => Tidiness'
<1> SUFFICES ASSUME TypeOK, Ownership, Tidiness, [Next]_vars, NEW k \in Host PROVE Tidy(k)'
  BY DEF Tidiness
<1> USE RecordTypes
<1>0. Owned(k) /\ Tidy(k)
  BY DEF Ownership, Tidiness
<1>1. ASSUME NEW h \in Host, NEW g \in Group, Join(h, g) PROVE Tidy(k)'
  <2>1. CASE k # h
    BY <1>0, <1>1, <2>1, SameTidy DEF Join, TypeOK, TidySame
  <2>2. CASE k = h
    <3>1. leaving[h]["call"].pc = "no" /\ ~slot[h] /\ up[h]
      BY <1>1 DEF Join, Idle
    <3>2. ~muted[h]
      BY <1>0, <2>2, <3>1 DEF Tidy, Recorded, Reachable
    <3>3. ~hub'[h].closed /\ muted' = muted /\ leaving' = leaving
      BY <1>1 DEF Join, TypeOK, NoHub
    <3> QED BY <2>2, <3>1, <3>2, <3>3 DEF Tidy, Cleared, Clean, Recorded, Closed
  <2> QED BY <2>1, <2>2
<1>2. ASSUME NEW h \in Host, Beats(h) PROVE Tidy(k)'
  BY <1>0, <1>2, SameTidy DEF Beats, Clone, Check, Seal, TidySame, session
<1>3. ASSUME NEW h \in Host, NEW d \in net, Receive(h, d) PROVE Tidy(k)'
  BY <1>0, <1>3, SameTidy DEF Receive, TidySame, session
<1>4. ASSUME NEW h \in Host, Insert(h) PROVE Tidy(k)'
  <2>1. CASE Closed(h) \/ k # h
    BY <1>0, <1>4, <2>1, SameTidy DEF Insert, TypeOK, TidySame, session
  <2>2. CASE ~Closed(h) /\ k = h
    <3>1. up' = up /\ slot' = slot /\ muted' = muted /\ hub' = hub /\ leaving' = leaving
      BY <1>4 DEF Insert, session
    <3> QED BY <1>0, <2>2, <3>1 DEF Tidy, Cleared, Clean, Recorded, Reachable, Closed
  <2> QED BY <2>1, <2>2
<1>5. ASSUME NEW h \in Host, Peers(h) PROVE Tidy(k)'
  <2>1. up' = up /\ slot' = slot /\ muted' = muted /\ hub' = hub /\ leaving' = leaving
    BY <1>5 DEF Peers, session
  <2>2. table[k] = NoPeers => table'[k] = NoPeers
    <3>1. CASE k = h
      <4>1. table'[h] = [p \in Host |-> IF Listed(h, p) THEN table[h][p] ELSE Nothing]
        BY <1>5 DEF Peers, TypeOK
      <4> QED BY <3>1, <4>1 DEF NoPeers
    <3>2. CASE k # h
      BY <1>5, <3>2 DEF Peers, TypeOK
    <3> QED BY <3>1, <3>2
  <2> QED BY <1>0, <2>1, <2>2 DEF Tidy, Cleared, Clean, Recorded, Reachable, Closed, NoPeers
<1>6. ASSUME NEW h \in Host, NEW by \in Operator, Begin(h, by) PROVE Tidy(k)'
  BY <1>0, <1>6, SameTidy DEF Begin, TidySame, session
<1>7. ASSUME NEW h \in Host, End(h) PROVE Tidy(k)'
  <2>1. PICK holding, suppress \in BOOLEAN :
          /\ hub' = [hub EXCEPT ![h].holding = holding, ![h].suppressed = suppress]
          /\ muted' = [muted EXCEPT ![h] = suppress]
    BY <1>7 DEF End
  <2>2. up' = up /\ slot' = slot /\ leaving' = leaving /\ table' = table
    BY <1>7 DEF End, session
  <2>3. CASE k # h
    BY <1>0, <2>1, <2>2, <2>3, SameTidy DEF TypeOK, TidySame
  <2>4. CASE k = h
    <3>1. ~Closed(h) /\ Reachable(h)
      BY <1>0, <1>7, <2>4 DEF End, Owned, Operator
    <3>2. leaving[h]["call"].pc \notin After
      BY <1>0, <2>4, <3>1 DEF Owned
    <3>3. hub'[h].closed = hub[h].closed /\ hub'[h].suppressed = suppress /\ muted'[h] = suppress
      BY <2>1, HubOf DEF TypeOK, Hub
    <3> QED
      BY <2>2, <2>4, <3>1, <3>2, <3>3
      DEF Tidy, Cleared, Clean, Recorded, Reachable, Closed, After, Locked
  <2> QED BY <2>3, <2>4
<1>8. ASSUME NEW h \in Host, NEW free \in BOOLEAN, AskLeave(h, free) PROVE Tidy(k)'
  <2>1. CASE k # h
    BY <1>0, <1>8, <2>1, SameTidy DEF AskLeave, TypeOK, TidySame
  <2>2. CASE k = h
    <3>1. Leaving(h, "call", "ask") /\ leaving[h]["call"].pc = "no"
      BY <1>8 DEF AskLeave, Idle, Leaving, TypeOK, NoLeave
    <3>2. up' = up /\ muted' = muted /\ hub' = hub /\ table' = table /\ slot[h]
      BY <1>8 DEF AskLeave
    <3> QED
      BY <1>0, <2>2, <3>1, <3>2
      DEF Tidy, Cleared, Clean, Recorded, Reachable, Closed, Leaving, Leaver, NoPeers
  <2> QED BY <2>1, <2>2
<1>9. ASSUME NEW h \in Host, RunFails(h) PROVE Tidy(k)'
  BY <1>0, <1>9, SameTidy DEF RunFails, TidySame, session
<1>10. ASSUME NEW h \in Host, RunReturns(h) PROVE Tidy(k)'
  <2>1. up' = up /\ slot' = slot /\ muted' = muted /\ hub' = hub /\ table' = table
    BY <1>10 DEF RunReturns, session
  <2>2. CASE k # h \/ leaving' = leaving
    BY <1>0, <1>10, <2>1, <2>2, SameTidy DEF RunReturns, TypeOK, TidySame
  <2>3. CASE k = h /\ leaving' = [leaving EXCEPT ![h]["task"] = [NoLeave EXCEPT !.pc = "ask"]]
    <3>1. Leaving(h, "task", "ask") /\ leaving'[h]["call"] = leaving[h]["call"]
      BY <2>3 DEF Leaving, TypeOK, NoLeave
    <3>2. leaving[h]["task"].pc = "no"
      BY <1>0, <1>10, <2>3 DEF RunReturns, Owned
    <3> QED
      BY <1>0, <2>1, <2>3, <3>1, <3>2
      DEF Tidy, Cleared, Clean, Recorded, Reachable, Closed, Leaving, Leaver, NoPeers
  <2> QED BY <1>10, <2>2, <2>3 DEF RunReturns
<1>11. ASSUME NEW h \in Host, NEW w \in Leaver, Close(h, w) PROVE Tidy(k)'
  <2>1. CASE k # h
    BY <1>0, <1>11, <2>1, SameTidy DEF Close, TypeOK, TidySame, session
  <2>2. CASE k = h
    <3>1. Leaving(h, w, "closed") /\ leaving[h][w].pc = "ask" /\ hub'[h].suppressed = hub[h].suppressed
      BY <1>11, LeaveOf, HubOf DEF Close, Leaving, TypeOK, Leave, Hub
    <3>2. up' = up /\ slot' = slot /\ muted' = muted /\ table' = table
      BY <1>11 DEF Close, session
    <3>3. (\E v \in Leaver : leaving'[h][v].pc \in {"cleared", "restored", "done"})
            => \E v \in Leaver : leaving[h][v].pc \in {"cleared", "restored", "done"}
      BY <3>1 DEF Leaving
    <3>4. (\E v \in Leaver : leaving[h][v].pc \in {"cleared", "restored", "done"})
            => table[h] = NoPeers
      BY <1>0, <2>2 DEF Tidy, Cleared, Owned, After, Locked
    <3>5. Cleared(h)'
      BY <3>1, <3>2, <3>3, <3>4 DEF Cleared, Leaving, NoPeers
    <3>6. Clean(h)' /\ Recorded(h)'
      BY <1>0, <2>2, <3>1, <3>2 DEF Tidy, Clean, Recorded, Reachable, Leaving, Leaver
    <3> QED BY <2>2, <3>5, <3>6 DEF Tidy
  <2> QED BY <2>1, <2>2
<1>12. ASSUME NEW h \in Host, NEW w \in Leaver, Clear(h, w) PROVE Tidy(k)'
  <2>1. CASE k # h
    BY <1>0, <1>12, <2>1, SameTidy DEF Clear, Goes, TypeOK, TidySame, session
  <2>2. CASE k = h
    <3>1. Leaving(h, w, "cleared") /\ leaving[h][w].pc = "closed" /\ hub'[h].suppressed = hub[h].suppressed
      BY <1>12, LeaveOf, HubOf DEF Clear, Goes, Leaving, TypeOK, Leave, Hub
    <3>2. up' = up /\ slot' = slot /\ muted' = muted /\ table'[h] = NoPeers
      BY <1>12 DEF Clear, session, TypeOK
    <3>3. Cleared(h)'
      BY <3>2 DEF Cleared, NoPeers
    <3>4. Clean(h)' /\ Recorded(h)'
      BY <1>0, <2>2, <3>1, <3>2 DEF Tidy, Clean, Recorded, Reachable, Leaving, Leaver
    <3> QED BY <2>2, <3>3, <3>4 DEF Tidy
  <2> QED BY <2>1, <2>2
<1>13. ASSUME NEW h \in Host, NEW w \in Leaver, Restore(h, w) PROVE Tidy(k)'
  <2>1. CASE k # h
    BY <1>0, <1>13, <2>1, SameTidy DEF Restore, Goes, TypeOK, TidySame, session
  <2>2. CASE k = h
    <3>1. Leaving(h, w, "restored") /\ leaving[h][w].pc = "cleared"
      BY <1>13, RestoreMoves
    <3>2. up' = up /\ slot' = slot /\ table' = table
      BY <1>13 DEF Restore, session
    <3>3. Cleared(h)'
      BY <1>0, <1>13, <2>2, <3>1, <3>2 DEF Tidy, Cleared, Owned, After, Locked, NoPeers
    <3>4. Reachable(h)' <=> Reachable(h)
      BY <3>1, <3>2 DEF Reachable, Leaving, Leaver
    <3>5. CASE /\ hub' = [hub EXCEPT ![h].suppressed = FALSE]
               /\ muted' = [muted EXCEPT ![h] = @ /\ ~hub[h].suppressed]
      <4>1. ~hub'[h].suppressed /\ (muted'[h] = (muted[h] /\ ~hub[h].suppressed))
        BY <3>5, HubOf DEF TypeOK, Hub
      <4>2. Clean(h)' /\ Recorded(h)'
        BY <1>0, <2>2, <3>2, <4>1 DEF Tidy, Clean, Recorded
      <4> QED BY <2>2, <3>3, <4>2 DEF Tidy
    <3>6. CASE /\ leaving' = [leaving EXCEPT ![h][w].pc = "restored", ![h][w].failed = TRUE]
               /\ UNCHANGED <<hub, muted>>
      <4>1. w = "call" => leaving'[h]["call"].failed
        BY <3>6, LeaveOf DEF TypeOK, Leave
      <4>2. w # "call" => leaving'[h]["call"] = leaving[h]["call"]
        BY <3>1 DEF Leaving
      <4>3. Clean(h)' /\ Recorded(h)'
        BY <1>0, <2>2, <3>2, <3>4, <3>6, <4>1, <4>2 DEF Tidy, Clean, Recorded
      <4> QED BY <2>2, <3>3, <4>3 DEF Tidy
    <3> QED BY <1>13, <3>5, <3>6 DEF Restore
  <2> QED BY <2>1, <2>2
<1>14. ASSUME NEW h \in Host, NEW w \in Leaver, Tell(h, w) PROVE Tidy(k)'
  <2>1. CASE k # h
    BY <1>0, <1>14, <2>1, SameTidy DEF Tell, TypeOK, TidySame, session
  <2>2. CASE k = h
    <3>1. Leaving(h, w, IF w = "task" THEN "no" ELSE "done") /\ leaving[h][w].pc = "restored"
      BY <1>14, TellMoves
    <3>2. up' = up /\ slot' = slot /\ muted' = muted /\ hub' = hub /\ table' = table
      BY <1>14 DEF Tell, session
    <3>3. table[h] = NoPeers
      BY <1>0, <2>2, <3>1 DEF Tidy, Cleared, Owned, After, Locked
    <3>4. PICK fails \in BOOLEAN :
            leaving' = [leaving EXCEPT ![h][w] = Told(leaving[h][w], w, fails)]
      BY <1>14 DEF Tell
    <3>5. w = "call" => leaving'[h]["call"].failed = (leaving[h]["call"].failed \/ fails)
      BY <3>4, LeaveOf DEF TypeOK, Leave, Told
    <3>6. Clean(h)' /\ Recorded(h)'
      BY <1>0, <2>2, <3>1, <3>2, <3>5 DEF Tidy, Clean, Recorded, Reachable, Leaving, Leaver
    <3> QED BY <2>2, <3>2, <3>3, <3>6 DEF Tidy, Cleared, NoPeers
  <2> QED BY <2>1, <2>2
<1>15. ASSUME NEW h \in Host, Return(h) PROVE Tidy(k)'
  <2>1. CASE k # h
    BY <1>0, <1>15, <2>1, SameTidy DEF Return, TypeOK, TidySame
  <2>2. CASE k = h
    <3>1. leaving[h]["call"].pc = "done" /\ muted' = muted /\ table' = table
      BY <1>15 DEF Return
    <3>2. \A w \in Leaver : leaving'[h][w].pc = "no"
      BY <1>15 DEF Return, TypeOK, NoLeave
    <3>3. table[h] = NoPeers
      BY <1>0, <2>2, <3>1 DEF Tidy, Cleared, Owned, After
    <3>4. up'[h] => up[h] /\ ~leaving[h]["call"].free
      <4>1. up[h]
        BY <1>0, <2>2, <3>1 DEF Owned, Reachable
      <4> QED BY <1>15, <4>1 DEF Return, TypeOK
    <3>5. slot'[h] = (leaving[h]["call"].failed /\ ~leaving[h]["call"].free)
          /\ (slot'[h] => hub'[h] = hub[h])
      BY <1>15 DEF Return, TypeOK
    <3>6. Recorded(h)'
      BY <1>0, <2>2, <3>1, <3>4, <3>5 DEF Tidy, Clean, Recorded, Reachable
    <3> QED BY <2>2, <3>1, <3>2, <3>3, <3>6 DEF Tidy, Cleared, Clean, NoPeers, Leaver
  <2> QED BY <2>1, <2>2
<1>16. ASSUME NEW h \in Host, Crash(h) PROVE Tidy(k)'
  <2>1. CASE k # h
    BY <1>0, <1>16, <2>1, SameTidy DEF Crash, TypeOK, TidySame
  <2>2. CASE k = h
    <3>1. ~up'[h] /\ table'[h] = NoPeers /\ leaving'[h]["call"].pc = "no"
      BY <1>16 DEF Crash, TypeOK, NoLeave
    <3> QED BY <2>2, <3>1 DEF Tidy, Cleared, Clean, Recorded, NoPeers
  <2> QED BY <2>1, <2>2
<1>17. CASE Tick
  <2>1. up' = up /\ slot' = slot /\ muted' = muted /\ hub' = hub /\ leaving' = leaving
    BY <1>17 DEF Tick, session
  <2>2. table[k] = NoPeers => table'[k] = NoPeers
    BY <1>17 DEF Tick, NoPeers
  <2> QED BY <1>0, <2>1, <2>2 DEF Tidy, Cleared, Clean, Recorded, Reachable, Closed, NoPeers
<1>18. CASE UNCHANGED vars
  BY <1>0, <1>18, SameTidy DEF vars, TidySame, session
<1>19. ASSUME NEW h \in Host, Leaves(h) PROVE Tidy(k)'
  BY <1>19, <1>8, <1>11, <1>12, <1>13, <1>14, <1>15, <1>16 DEF Leaves
<1> QED
  BY <1>1, <1>2, <1>3, <1>4, <1>5, <1>6, <1>7, <1>9, <1>10, <1>17, <1>18, <1>19 DEF Next

-----------------------------------------------------------------------------
(* Time *)

\* The steps of hosts, in which no time passes.
HostStep ==
  \E h \in Host :
    \/ \E g \in Group : Join(h, g)
    \/ Beats(h) \/ (\E d \in net : Receive(h, d)) \/ Insert(h) \/ Peers(h)
    \/ (\E by \in Operator : Begin(h, by)) \/ End(h)
    \/ RunFails(h) \/ RunReturns(h) \/ Leaves(h)

LEMMA Ages ==
  ASSUME TypeOK, NEW p \in Host, NEW g \in Group
  PROVE  away[p][g] \in 0..Horizon /\ bare[p][g] \in 0..Horizon
BY DEF TypeOK

LEMMA Leads == \A h \in Host : Lead[h] \in Nat /\ MaxSkew \in Nat /\ PeerTtl \in Nat
BY MembershipAssumption

\* In such a step the history never gets older.
LEMMA HistoryFalls ==
  ASSUME TypeOK, HostStep, NEW p \in Host, NEW g \in Group
  PROVE  away'[p][g] <= away[p][g] /\ bare'[p][g] <= bare[p][g]
<1> USE RecordTypes, HorizonType, Ages
<1>1. ASSUME NEW h \in Host, NEW f \in Group, Join(h, f)
      PROVE  away'[p][g] <= away[p][g] /\ bare'[p][g] <= bare[p][g]
  BY <1>1 DEF Join, TypeOK
<1>2. ASSUME NEW h \in Host, End(h)
      PROVE  away'[p][g] <= away[p][g] /\ bare'[p][g] <= bare[p][g]
  <2>1. away' = away
    BY <1>2 DEF End
  <2>2. bare' = [bare EXCEPT ![h][hub[h].group] = 0] \/ bare' = bare
    BY <1>2 DEF End
  <2>3. bare'[p][g] = 0 \/ bare'[p][g] = bare[p][g]
    <3>1. bare \in [Host -> [Group -> 0..Horizon]]
      BY DEF TypeOK
    <3> QED BY <2>2, <3>1
  <2> QED BY <2>1, <2>3
<1>3. ASSUME NEW h \in Host, Leaves(h)
      PROVE  away' = away /\ bare' = bare
  BY <1>3 DEF Leaves, AskLeave, Close, Clear, Restore, Tell, Return, Crash, history
<1>4. ASSUME NEW h \in Host,
             Beats(h) \/ (\E d \in net : Receive(h, d)) \/ Insert(h) \/ Peers(h)
               \/ (\E by \in Operator : Begin(h, by)) \/ RunFails(h) \/ RunReturns(h)
      PROVE  away' = away /\ bare' = bare
  BY <1>4 DEF Beats, Clone, Check, Seal, Receive, Insert, Peers, Begin, RunFails, RunReturns, history
<1> QED BY <1>1, <1>2, <1>3, <1>4 DEF HostStep

\* So what was so long ago is not longer ago after it.
LEMMA SinceStays ==
  ASSUME TypeOK, TypeOK', HostStep, NEW p \in Host, NEW g \in Group, NEW holding \in BOOLEAN,
         NEW n \in Int, Since(p, g, holding, n)
  PROVE  /\ away'[p][g] <= n
         /\ holding => bare'[p][g] <= n
<1>1. away'[p][g] \in Int /\ bare'[p][g] \in Int
  BY HorizonType DEF TypeOK
<1> QED BY <1>1, HistoryFalls, Ages, HorizonType DEF Since

\* A hub keeps its group, or is new or gone: then nothing is on its way, and its
\* table is empty if it is in a group.
LEMMA GroupStays ==
  ASSUME TypeOK, Ownership, HostStep, NEW k \in Host
  PROVE  \/ hub'[k].group = hub[k].group
         \/ /\ beat'[k].pc = "no" /\ inbox'[k] = Nothing
            /\ hub'[k].group \in Group => table'[k] = NoPeers
<1> USE RecordTypes
<1>1. ASSUME NEW h \in Host, NEW g \in Group, Join(h, g), k = h
      PROVE  beat'[k].pc = "no" /\ inbox'[k] = Nothing /\ table'[k] = NoPeers
  <2>1. leaving[h]["call"].pc = "no" /\ ~slot[h]
    BY <1>1 DEF Join, Idle
  <2>2. runner[h] = "off"
    BY <2>1 DEF Ownership, Owned, Reachable
  <2>3. beat[h].pc = "no" /\ inbox[h] = Nothing
    BY <2>2 DEF Ownership, Owned
  <2> QED BY <1>1, <2>3 DEF Join, TypeOK
<1>2. ASSUME NEW h \in Host, NEW g \in Group, Join(h, g), k # h
      PROVE  hub'[k].group = hub[k].group
  BY <1>2 DEF Join, TypeOK
<1>3. ASSUME NEW h \in Host, End(h) PROVE hub'[k].group = hub[k].group
  <2>1. PICK holding, suppress \in BOOLEAN :
          hub' = [hub EXCEPT ![h].holding = holding, ![h].suppressed = suppress]
    BY <1>3 DEF End
  <2> QED BY <2>1, HubOf DEF TypeOK, Hub
<1>4. ASSUME NEW h \in Host, NEW w \in Leaver,
             Close(h, w) \/ Clear(h, w) \/ Restore(h, w) \/ Tell(h, w)
      PROVE  hub'[k].group = hub[k].group
  <2>1. CASE Close(h, w)
    BY <2>1, HubOf DEF Close, TypeOK, Hub
  <2>2. CASE Clear(h, w)
    BY <2>2, HubOf DEF Clear, TypeOK, Hub
  <2>3. CASE Restore(h, w)
    <3>1. hub' = [hub EXCEPT ![h].suppressed = FALSE] \/ hub' = hub
      BY <2>3 DEF Restore
    <3>2. hub \in [Host -> Hub]
      BY DEF TypeOK
    <3> QED BY <3>1, <3>2 DEF Hub
  <2>4. CASE Tell(h, w)
    BY <2>4 DEF Tell
  <2> QED BY <1>4, <2>1, <2>2, <2>3, <2>4
<1>5. ASSUME NEW h \in Host, Return(h) \/ Crash(h)
      PROVE  \/ hub'[k].group = hub[k].group
             \/ /\ beat'[k].pc = "no" /\ inbox'[k] = Nothing
                /\ hub'[k].group \notin Group
  <2>1. NoHub.group \notin Group /\ NoBeat.pc = "no"
    BY MembershipAssumption DEF NoHub, NoBeat
  <2>2. k # h => hub'[k] = hub[k]
    BY <1>5 DEF Return, Crash, TypeOK
  <2>3. hub'[h] = hub[h] \/ hub'[h] = NoHub
    BY <1>5 DEF Return, Crash, TypeOK
  <2>4. beat'[h].pc = "no" /\ inbox'[h] = Nothing
    BY <1>5, <2>1 DEF Return, Crash, StopTask, TypeOK
  <2> QED BY <2>1, <2>2, <2>3, <2>4
<1>6. ASSUME NEW h \in Host,
             \/ Beats(h) \/ (\E d \in net : Receive(h, d)) \/ Insert(h) \/ Peers(h)
             \/ (\E by \in Operator : Begin(h, by)) \/ RunFails(h) \/ RunReturns(h)
             \/ \E free \in BOOLEAN : AskLeave(h, free)
      PROVE  hub' = hub
  BY <1>6 DEF Beats, Clone, Check, Seal, Receive, Insert, Peers, Begin, RunFails, RunReturns, AskLeave
<1> QED BY <1>1, <1>2, <1>3, <1>4, <1>5, <1>6 DEF HostStep, Leaves

\* Nobody gets into a group but by joining it.
LEMMA InStays ==
  ASSUME TypeOK, Ownership, NEW h \in Host, NEW g \in Group,
         NEW w \in Leaver, NEW k \in Host, In(k, g)',
         \/ \E free \in BOOLEAN : AskLeave(h, free)
         \/ RunReturns(h) \/ Close(h, w) \/ Clear(h, w) \/ Restore(h, w) \/ Tell(h, w)
  PROVE  In(k, g)
<1> USE RecordTypes
<1>0. hub'[k].group = g
  BY DEF In
<1>1. CASE \E free \in BOOLEAN : AskLeave(h, free)
  <2>1. hub' = hub /\ leaving'[k]["task"] = leaving[k]["task"]
        /\ (leaving'[k]["call"] = leaving[k]["call"] \/ leaving'[k]["call"].pc = "ask")
    <3>1. PICK free \in BOOLEAN :
            /\ hub' = hub
            /\ leaving' = [leaving EXCEPT ![h]["call"] = [NoLeave EXCEPT !.pc = "ask", !.free = free]]
      BY <1>1 DEF AskLeave
    <3>2. [NoLeave EXCEPT !.pc = "ask", !.free = free].pc = "ask" /\ "task" # "call"
      BY DEF NoLeave
    <3>3. leaving \in [Host -> [Leaver -> Leave]]
      BY DEF TypeOK
    <3> QED BY <3>1, <3>2, <3>3
  <2> QED BY <2>1 DEF In, Closed, Leaver
<1>2. CASE RunReturns(h)
  <2>1. hub' = hub /\ leaving'[k]["call"] = leaving[k]["call"]
        /\ (leaving'[k]["task"] = leaving[k]["task"] \/ leaving'[k]["task"].pc = "ask")
    BY <1>2 DEF RunReturns, TypeOK, NoLeave
  <2> QED BY <2>1 DEF In, Closed, Leaver
<1>3. CASE Close(h, w)
  <2>1. k # h => hub'[k] = hub[k] /\ leaving'[k] = leaving[k]
    BY <1>3 DEF Close, TypeOK
  <2>2. /\ hub'[h].closed /\ hub'[h].group = hub[h].group
        /\ leaving'[h][w].was = Closed(h)
        /\ \A v \in Leaver \ {w} : leaving'[h][v] = leaving[h][v]
    BY <1>3, LeaveOf, HubOf DEF Close, TypeOK, Leave, Hub
  <2> QED BY <2>1, <2>2 DEF In, Closed
<1>4. CASE Clear(h, w)
  <2>1. k # h => hub'[k] = hub[k] /\ leaving'[k] = leaving[k]
    BY <1>4 DEF Clear, Goes, TypeOK
  <2>2. /\ hub'[h].closed = hub[h].closed /\ hub'[h].group = hub[h].group
        /\ leaving[h][w].pc = "closed" /\ leaving'[h][w].was = leaving[h][w].was
        /\ \A v \in Leaver \ {w} : leaving'[h][v] = leaving[h][v]
    BY <1>4, LeaveOf, HubOf DEF Clear, Goes, TypeOK, Leave, Hub
  <2> QED BY <2>1, <2>2 DEF In, Closed
<1>5. CASE Restore(h, w)
  <2>1. hub' = [hub EXCEPT ![h].suppressed = FALSE] \/ hub' = hub
    BY <1>5 DEF Restore
  <2>2. hub'[k].closed = hub[k].closed /\ hub'[k].group = hub[k].group
    <3>1. hub \in [Host -> Hub]
      BY DEF TypeOK
    <3> QED BY <2>1, <3>1 DEF Hub
  <2>3. \/ leaving' = [leaving EXCEPT ![h][w].pc = "restored"]
        \/ leaving' = [leaving EXCEPT ![h][w].pc = "restored", ![h][w].failed = TRUE]
    BY <1>5 DEF Restore, Goes
  <2>4. k # h => leaving'[k] = leaving[k]
    BY <2>3 DEF TypeOK
  <2>5. /\ leaving[h][w].pc = "cleared" /\ leaving'[h][w].was = leaving[h][w].was
        /\ \A v \in Leaver \ {w} : leaving'[h][v] = leaving[h][v]
    <3>1. leaving[h][w].pc = "cleared" /\ leaving[h][w] \in Leave
      BY <1>5, LeaveOf DEF Restore
    <3>2. leaving \in [Host -> [Leaver -> Leave]]
      BY DEF TypeOK
    <3>3. CASE leaving' = [leaving EXCEPT ![h][w].pc = "restored"]
      BY <3>1, <3>2, <3>3 DEF Leave
    <3>4. CASE leaving' = [leaving EXCEPT ![h][w].pc = "restored", ![h][w].failed = TRUE]
      BY <3>1, <3>2, <3>4 DEF Leave
    <3> QED BY <2>3, <3>3, <3>4
  <2> QED BY <2>2, <2>4, <2>5 DEF In, Closed
<1>6. CASE Tell(h, w)
  <2>1. PICK new \in Leave : leaving' = [leaving EXCEPT ![h][w] = new] /\ new.pc \in {"no", "done"}
    <3>1. PICK fails \in BOOLEAN :
            leaving' = [leaving EXCEPT ![h][w] = Told(leaving[h][w], w, fails)]
      BY <1>6 DEF Tell
    <3>2. Told(leaving[h][w], w, fails) \in Leave
          /\ Told(leaving[h][w], w, fails).pc \in {"no", "done"}
      BY LeaveOf DEF Told, Leave, NoLeave
    <3> QED BY <3>1, <3>2
  <2>2. hub' = hub /\ (k # h => leaving'[k] = leaving[k])
        /\ leaving'[h][w].pc \in {"no", "done"}
        /\ \A v \in Leaver \ {w} : leaving'[h][v] = leaving[h][v]
    BY <1>6, <2>1 DEF Tell, TypeOK
  <2> QED BY <2>2 DEF In, Closed
<1> QED BY <1>1, <1>2, <1>3, <1>4, <1>5, <1>6

\* An age that is zero stays zero while no time passes.
LEMMA ZeroStays ==
  ASSUME TypeOK, TypeOK', HostStep, NEW p \in Host, NEW g \in Group
  PROVE  (away[p][g] = 0 => away'[p][g] = 0) /\ (bare[p][g] = 0 => bare'[p][g] = 0)
<1>1. away'[p][g] \in 0..Horizon /\ bare'[p][g] \in 0..Horizon
  BY DEF TypeOK
<1> QED BY <1>1, HistoryFalls, Ages, HorizonType

LEMMA CurrentNext ==
  ASSUME TypeOK, TypeOK', Ownership, Timely, HostStep, NEW k \in Host
  PROVE  Current(k)'
<1> SUFFICES ASSUME NEW g \in Group
             PROVE  (In(k, g)' => away'[k][g] = 0) /\ (Holds(k, g)' => bare'[k][g] = 0)
  BY DEF Current
<1> USE RecordTypes
<1>0. (In(k, g) => away'[k][g] = 0) /\ (Holds(k, g) => bare'[k][g] = 0)
  BY ZeroStays DEF Timely, Current
<1>1. ASSUME NEW h \in Host, NEW f \in Group, Join(h, f)
      PROVE  (In(k, g)' => away'[k][g] = 0) /\ (Holds(k, g)' => bare'[k][g] = 0)
  <2>1. CASE k # h
    BY <1>0, <1>1, <2>1 DEF Join, TypeOK, In, Closed, Holds
  <2>2. CASE k = h
    <3>1. hub'[h].group = f /\ ~hub'[h].holding /\ away'[h][f] = 0
      BY <1>1 DEF Join, TypeOK, NoHub
    <3> QED BY <2>2, <3>1 DEF In, Holds
  <2> QED BY <2>1, <2>2
<1>2. ASSUME NEW h \in Host, End(h)
      PROVE  (In(k, g)' => away'[k][g] = 0) /\ (Holds(k, g)' => bare'[k][g] = 0)
  <2>1. PICK holding, suppress \in BOOLEAN :
          /\ hub' = [hub EXCEPT ![h].holding = holding, ![h].suppressed = suppress]
          /\ bare' = IF holding THEN [bare EXCEPT ![h][hub[h].group] = 0] ELSE bare
    BY <1>2 DEF End
  <2>2. hub'[k].group = hub[k].group /\ hub'[k].closed = hub[k].closed /\ leaving' = leaving
    BY <1>2, <2>1, HubOf DEF End, TypeOK, Hub
  <2>3. In(k, g)' => In(k, g)
    BY <2>2 DEF In, Closed
  <2>4. CASE k # h
    BY <1>0, <2>1, <2>3, <2>4 DEF Holds, TypeOK
  <2>5. CASE k = h
    <3>1. hub'[h].holding = holding /\ hub[h].group \in Group
      BY <1>2, <2>1, HubOf, InGroup DEF End, TypeOK, Hub
    <3>2. holding => bare'[h][hub[h].group] = 0
      BY <2>1, <3>1 DEF TypeOK
    <3> QED BY <1>0, <2>2, <2>3, <2>5, <3>1, <3>2 DEF Holds
  <2> QED BY <2>4, <2>5
<1>3. ASSUME NEW h \in Host, NEW w \in Leaver,
             \/ \E free \in BOOLEAN : AskLeave(h, free)
             \/ RunReturns(h) \/ Close(h, w) \/ Clear(h, w) \/ Restore(h, w) \/ Tell(h, w)
      PROVE  (In(k, g)' => away'[k][g] = 0) /\ (Holds(k, g)' => bare'[k][g] = 0)
  <2>1. In(k, g)' => In(k, g)
    BY <1>3, InStays
  <2>2. Holds(k, g)' => Holds(k, g)
    <3>1. \/ hub' = hub
          \/ hub' = [hub EXCEPT ![h].closed = TRUE]
          \/ hub' = [hub EXCEPT ![h].holding = FALSE]
          \/ hub' = [hub EXCEPT ![h].suppressed = FALSE]
      BY <1>3 DEF AskLeave, RunReturns, Close, Clear, Restore, Tell
    <3>2. hub \in [Host -> Hub]
      BY DEF TypeOK
    <3> QED BY <3>1, <3>2 DEF Holds, Hub
  <2> QED BY <1>0, <2>1, <2>2
<1>4. ASSUME NEW h \in Host, Return(h) \/ Crash(h)
      PROVE  (In(k, g)' => away'[k][g] = 0) /\ (Holds(k, g)' => bare'[k][g] = 0)
  <2>1. NoHub.closed /\ ~NoHub.holding
    BY DEF NoHub
  <2>2. k # h => hub'[k] = hub[k] /\ leaving'[k] = leaving[k]
    BY <1>4 DEF Return, Crash, TypeOK
  <2>3. \A w \in Leaver : leaving'[h][w].pc = "no"
    BY <1>4 DEF Return, Crash, TypeOK, NoLeave
  <2>4. hub'[h] = hub[h] \/ hub'[h] = NoHub
    BY <1>4 DEF Return, Crash, TypeOK
  <2> QED BY <1>0, <2>1, <2>2, <2>3, <2>4 DEF In, Closed, Holds
<1>5. ASSUME NEW h \in Host,
             \/ Beats(h) \/ (\E d \in net : Receive(h, d)) \/ Insert(h) \/ Peers(h)
             \/ (\E by \in Operator : Begin(h, by)) \/ RunFails(h)
      PROVE  (In(k, g)' => away'[k][g] = 0) /\ (Holds(k, g)' => bare'[k][g] = 0)
  <2>1. hub' = hub /\ leaving' = leaving
    BY <1>5 DEF Beats, Clone, Check, Seal, Receive, Insert, Peers, Begin, RunFails
  <2> QED BY <1>0, <2>1 DEF In, Closed, Holds
<1> QED BY <1>1, <1>2, <1>3, <1>4, <1>5 DEF HostStep, Leaves

\* An announcement of somebody who is in the group now, and what it says it holds
\* it holds now.
LEMMA AnnounceTrue ==
  ASSUME TypeOK, TypeOK', Timely, HostStep, NEW h \in Host, NEW holding \in BOOLEAN,
         hub[h].group \in Group, away[h][hub[h].group] = 0,
         holding => bare'[h][hub[h].group] = 0,
         Announce(h, holding) \/ UNCHANGED net
  PROVE  NetTrue'
<1> SUFFICES ASSUME NEW d \in net'
             PROVE  /\ away'[d.from][d.group] <= d.age
                    /\ d.holding => bare'[d.from][d.group] <= d.age
  BY DEF NetTrue, Since
<1>1. CASE d \in net
  <2>1. d \in Announcement /\ Since(d.from, d.group, d.holding, d.age)
    BY <1>1 DEF TypeOK, Timely, NetTrue
  <2>2. d.from \in Host /\ d.group \in Group /\ d.holding \in BOOLEAN /\ d.age \in Int
    BY <2>1, MembershipAssumption DEF Announcement
  <2> QED BY <2>1, <2>2, SinceStays
<1>2. CASE d = [from |-> h, group |-> hub[h].group, holding |-> holding, age |-> 0]
  <2>1. away'[h][hub[h].group] = 0
    BY ZeroStays
  <2> QED BY <1>2, <2>1
<1> QED BY <1>1, <1>2 DEF Announce

LEMMA NetStays ==
  ASSUME TypeOK, TypeOK', Timely, HostStep, net' = net
  PROVE  NetTrue'
<1> SUFFICES ASSUME NEW d \in net
             PROVE  /\ away'[d.from][d.group] <= d.age
                    /\ d.holding => bare'[d.from][d.group] <= d.age
  BY DEF NetTrue, Since
<1>1. d \in Announcement /\ Since(d.from, d.group, d.holding, d.age)
  BY DEF TypeOK, Timely, NetTrue
<1>2. d.from \in Host /\ d.group \in Group /\ d.holding \in BOOLEAN /\ d.age \in Int
  BY <1>1, MembershipAssumption DEF Announcement
<1> QED BY <1>1, <1>2, SinceStays

LEMMA NetNext ==
  ASSUME TypeOK, TypeOK', Ownership, Timely, HostStep
  PROVE  NetTrue'
<1> USE RecordTypes
<1>1. ASSUME NEW h \in Host, Seal(h) PROVE NetTrue'
  <2>1. beat[h].pc # "no" /\ Announce(h, beat[h].holding) /\ hub[h].group \in Group
    BY <1>1, InGroup DEF Seal
  <2>2. Since(h, hub[h].group, beat[h].holding, 0) /\ beat[h].holding \in BOOLEAN
    BY <2>1 DEF Timely, BeatTrue, TypeOK, Beat
  <2>3. away[h][hub[h].group] = 0 /\ (beat[h].holding => bare[h][hub[h].group] = 0)
    BY <2>1, <2>2, Ages, HorizonType DEF Since
  <2> QED BY <2>1, <2>2, <2>3, ZeroStays, AnnounceTrue
<1>2. ASSUME NEW h \in Host, End(h) PROVE NetTrue'
  <2>1. PICK holding, suppress \in BOOLEAN :
          /\ Announce(h, holding) \/ UNCHANGED net
          /\ bare' = IF holding THEN [bare EXCEPT ![h][hub[h].group] = 0] ELSE bare
    BY <1>2 DEF End
  <2>2. hub[h].group \in Group /\ ~Closed(h)
    BY <1>2, InGroup DEF End, Ownership, Owned
  <2>3. away[h][hub[h].group] = 0
    BY <2>2 DEF Timely, Current, In
  <2>4. holding => bare'[h][hub[h].group] = 0
    BY <2>1, <2>2 DEF TypeOK
  <2> QED BY <2>1, <2>2, <2>3, <2>4, AnnounceTrue
<1>3. ASSUME NEW h \in Host, NEW w \in Leaver, Tell(h, w) PROVE NetTrue'
  <2>1. CASE UNCHANGED net
    BY <2>1, NetStays
  <2>2. CASE ~leaving[h][w].was /\ Announce(h, hub[h].holding)
    <3>1. leaving[h][w].pc = "restored"
      BY <1>3 DEF Tell
    <3>2. hub[h].group \in Group /\ hub[h].holding \in BOOLEAN
      BY <3>1, InGroup, HubOf DEF Hub
    <3>3. In(h, hub[h].group)
      BY <2>2, <3>1 DEF In
    <3>4. away[h][hub[h].group] = 0 /\ (hub[h].holding => bare[h][hub[h].group] = 0)
      BY <3>2, <3>3 DEF Timely, Current, Holds
    <3> QED BY <2>2, <3>2, <3>4, ZeroStays, AnnounceTrue
  <2> QED BY <1>3, <2>1, <2>2 DEF Tell
<1>4. ASSUME NEW h \in Host,
             \/ \E g \in Group : Join(h, g)
             \/ Clone(h) \/ Check(h) \/ (\E d \in net : Receive(h, d)) \/ Insert(h) \/ Peers(h)
             \/ (\E by \in Operator : Begin(h, by)) \/ RunFails(h) \/ RunReturns(h)
             \/ (\E free \in BOOLEAN : AskLeave(h, free)) \/ Return(h) \/ Crash(h)
             \/ \E w \in Leaver : Close(h, w) \/ Clear(h, w) \/ Restore(h, w)
      PROVE  net' = net
  BY <1>4 DEF Join, Clone, Check, Receive, Insert, Peers, Begin, RunFails, RunReturns, AskLeave,
     Return, Crash, Close, Clear, Restore
<1> QED BY <1>1, <1>2, <1>3, <1>4, NetStays DEF HostStep, Beats, Leaves

\* A heartbeat stays true: it copies what the hub says of itself, and only takes
\* back what it copied.
LEMMA BeatNext ==
  ASSUME TypeOK, TypeOK', Ownership, Timely, HostStep, NEW k \in Host
  PROVE  BeatTrue(k)'
<1> SUFFICES ASSUME beat'[k].pc # "no"
             PROVE  /\ away'[k][hub'[k].group] <= 0
                    /\ beat'[k].holding => bare'[k][hub'[k].group] <= 0
  BY DEF BeatTrue, Since
<1> USE RecordTypes
<1>1. ASSUME NEW h \in Host, k = h, Clone(h)
      PROVE  /\ away'[k][hub'[k].group] <= 0
             /\ beat'[k].holding => bare'[k][hub'[k].group] <= 0
  <2>1. ~Closed(h) /\ hub[h].group \in Group
    BY <1>1, InGroup DEF Clone
  <2>2. away[h][hub[h].group] = 0 /\ (hub[h].holding => bare[h][hub[h].group] = 0)
    BY <2>1 DEF Timely, Current, In, Holds
  <2> QED BY <1>1, <2>2 DEF Clone, history, TypeOK
<1>2. ASSUME NEW h \in Host, k = h, Check(h)
      PROVE  /\ away'[k][hub'[k].group] <= 0
             /\ beat'[k].holding => bare'[k][hub'[k].group] <= 0
  <2>1. beat[h].pc # "no"
    BY <1>2 DEF Check
  <2>2. Since(h, hub[h].group, beat[h].holding, 0)
    BY <2>1 DEF Timely, BeatTrue
  <2>3. beat'[h].holding => beat[h].holding
    BY <1>2 DEF Check, TypeOK
  <2> QED BY <1>2, <2>2, <2>3 DEF Check, history, Since
<1>3. ASSUME beat'[k] = beat[k]
      PROVE  /\ away'[k][hub'[k].group] <= 0
             /\ beat'[k].holding => bare'[k][hub'[k].group] <= 0
  <2>1. hub'[k].group = hub[k].group
    BY GroupStays
  <2>2. Since(k, hub[k].group, beat[k].holding, 0) /\ hub[k].group \in Group
    BY <1>3, InGroup DEF Timely, BeatTrue
  <2>3. beat[k].holding \in BOOLEAN
    BY DEF TypeOK, Beat
  <2> QED BY <1>3, <2>1, <2>2, <2>3, SinceStays
<1>4. \/ beat'[k] = beat[k]
      \/ \E h \in Host : k = h /\ (Clone(h) \/ Check(h))
  <2>1. ASSUME NEW h \in Host, Seal(h) \/ Return(h) \/ Crash(h) PROVE beat'[k] = beat[k]
    BY <2>1 DEF Seal, Return, Crash, StopTask, TypeOK, NoBeat
  <2>2. ASSUME NEW h \in Host, Clone(h) \/ Check(h), k # h PROVE beat'[k] = beat[k]
    BY <2>2 DEF Clone, Check, TypeOK
  <2>3. ASSUME NEW h \in Host,
               \/ \E g \in Group : Join(h, g)
               \/ (\E d \in net : Receive(h, d)) \/ Insert(h) \/ Peers(h)
               \/ (\E by \in Operator : Begin(h, by)) \/ End(h) \/ RunFails(h) \/ RunReturns(h)
               \/ (\E free \in BOOLEAN : AskLeave(h, free))
               \/ \E w \in Leaver : Close(h, w) \/ Clear(h, w) \/ Restore(h, w) \/ Tell(h, w)
        PROVE  beat' = beat
    BY <2>3 DEF Join, Receive, Insert, Peers, Begin, End, RunFails, RunReturns, AskLeave,
       Close, Clear, Restore, Tell, tasks
  <2> QED BY <2>1, <2>2, <2>3 DEF HostStep, Beats, Leaves
<1> QED BY <1>1, <1>2, <1>3, <1>4

\* What is received is within the window of the time stamps.
LEMMA InboxNext ==
  ASSUME TypeOK, TypeOK', Ownership, Timely, HostStep, NEW k \in Host
  PROVE  InboxTrue(k)'
<1> DEFINE Within(from) == MaxSkew + Lead[from] - Lead[k]
<1> SUFFICES ASSUME inbox'[k] # Nothing
             PROVE  /\ away'[inbox'[k].from][hub'[k].group] <= Within(inbox'[k].from)
                    /\ inbox'[k].holding =>
                         bare'[inbox'[k].from][hub'[k].group] <= Within(inbox'[k].from)
  BY DEF InboxTrue, Since
<1> USE RecordTypes
<1>1. ASSUME NEW h \in Host, k = h, NEW d \in net, Receive(h, d)
      PROVE  /\ away'[inbox'[k].from][hub'[k].group] <= Within(inbox'[k].from)
             /\ inbox'[k].holding =>
                  bare'[inbox'[k].from][hub'[k].group] <= Within(inbox'[k].from)
  <2>1. d \in Announcement /\ Since(d.from, d.group, d.holding, d.age)
    BY DEF TypeOK, Timely, NetTrue
  <2>2. d.from \in Host /\ d.group \in Group /\ d.age \in Int
    BY <2>1, MembershipAssumption DEF Announcement
  <2>3. d.age <= Within(d.from)
    BY <1>1, <2>2, Leads DEF Receive, InTime
  <2>4. away[d.from][d.group] <= Within(d.from)
        /\ (d.holding => bare[d.from][d.group] <= Within(d.from))
    BY <2>1, <2>2, <2>3, Leads, Ages, HorizonType DEF Since
  <2>5. /\ inbox'[k] = [from |-> d.from, holding |-> d.holding] /\ d.group = hub[k].group
        /\ hub' = hub /\ away' = away /\ bare' = bare
    BY <1>1 DEF Receive, history, TypeOK
  <2> QED BY <2>4, <2>5
<1>2. ASSUME inbox'[k] = inbox[k]
      PROVE  /\ away'[inbox'[k].from][hub'[k].group] <= Within(inbox'[k].from)
             /\ inbox'[k].holding =>
                  bare'[inbox'[k].from][hub'[k].group] <= Within(inbox'[k].from)
  <2>1. hub'[k].group = hub[k].group
    BY GroupStays
  <2>2. hub[k].group \in Group
    BY <1>2, InGroup
  <2>3. Since(inbox[k].from, hub[k].group, inbox[k].holding, Within(inbox[k].from))
    BY <1>2 DEF Timely, InboxTrue
  <2>4. inbox[k].holding \in BOOLEAN /\ inbox[k].from \in Host
    BY <1>2 DEF TypeOK, Heard
  <2>5. Within(inbox[k].from) \in Int
    BY <2>4, Leads
  <2> QED BY <1>2, <2>1, <2>2, <2>3, <2>4, <2>5, SinceStays
<1>3. \/ inbox'[k] = inbox[k]
      \/ \E h \in Host : k = h /\ \E d \in net : Receive(h, d)
  <2>1. ASSUME NEW h \in Host, Insert(h) \/ Return(h) \/ Crash(h) PROVE inbox'[k] = inbox[k]
    BY <2>1 DEF Insert, Return, Crash, StopTask, TypeOK
  <2>2. ASSUME NEW h \in Host, NEW d \in net, Receive(h, d), k # h PROVE inbox'[k] = inbox[k]
    BY <2>2 DEF Receive, TypeOK
  <2>3. ASSUME NEW h \in Host,
               \/ \E g \in Group : Join(h, g)
               \/ Beats(h) \/ Peers(h)
               \/ (\E by \in Operator : Begin(h, by)) \/ End(h) \/ RunFails(h) \/ RunReturns(h)
               \/ (\E free \in BOOLEAN : AskLeave(h, free))
               \/ \E w \in Leaver : Close(h, w) \/ Clear(h, w) \/ Restore(h, w) \/ Tell(h, w)
        PROVE  inbox' = inbox
    BY <2>3 DEF Join, Beats, Clone, Check, Seal, Peers, Begin, End, RunFails, RunReturns, AskLeave,
       Close, Clear, Restore, Tell, tasks
  <2> QED BY <2>1, <2>2, <2>3 DEF HostStep, Leaves
<1> QED BY <1>1, <1>2, <1>3

\* An entry is as true as what was received.
LEMMA TableNext ==
  ASSUME TypeOK, TypeOK', Ownership, Timely, HostStep, NEW k \in Host
  PROVE  TableTrue(k)'
<1> SUFFICES ASSUME NEW p \in Host, hub'[k].group \in Group, table'[k][p] # Nothing,
                    table'[k][p].age < PeerTtl
             PROVE  Since(p, hub[k].group, table[k][p].holding,
                          MaxSkew + Lead[p] - Lead[k] + table[k][p].age)'
  BY DEF TableTrue, Listed
<1> DEFINE Within == MaxSkew + Lead[p] - Lead[k]
<1> USE RecordTypes
<1>1. ASSUME NEW h \in Host, k = h, Insert(h), table'[k][p] # table[k][p]
      PROVE  Since(p, hub[k].group, table[k][p].holding, Within + table[k][p].age)'
  <2>1. inbox[k] # Nothing /\ inbox[k] \in Heard
    BY <1>1 DEF Insert, TypeOK
  <2>2. table' = [table EXCEPT ![k][inbox[k].from] = [age |-> 0, holding |-> inbox[k].holding]]
    BY <1>1 DEF Insert
  <2>3. p = inbox[k].from /\ table'[k][p] = [age |-> 0, holding |-> inbox[k].holding]
    BY <1>1, <2>1, <2>2 DEF TypeOK, Heard
  <2>4. Since(p, hub[k].group, inbox[k].holding, Within)
    BY <2>1, <2>3 DEF Timely, InboxTrue
  <2>5. hub' = hub /\ away' = away /\ bare' = bare
    BY <1>1 DEF Insert, history
  <2>6. Within + 0 = Within
    BY Leads
  <2> QED BY <2>3, <2>4, <2>5, <2>6 DEF Since
<1>2. ASSUME table'[k][p] = table[k][p]
      PROVE  Since(p, hub[k].group, table[k][p].holding, Within + table[k][p].age)'
  <2>1. hub'[k].group = hub[k].group
    <3>1. CASE table'[k] = NoPeers
      BY <3>1 DEF NoPeers
    <3>2. CASE table'[k] # NoPeers
      BY <3>2, GroupStays
    <3> QED BY <3>1, <3>2
  <2>2. Since(p, hub[k].group, table[k][p].holding, Within + table[k][p].age)
    BY <1>2, <2>1 DEF Timely, TableTrue, Listed
  <2>3. table[k][p].holding \in BOOLEAN /\ Within + table[k][p].age \in Int
    <3>1. table[k][p] \in Entry
      BY <1>2 DEF TypeOK
    <3> QED BY <3>1, Leads DEF Entry
  <2> QED BY <1>2, <2>1, <2>2, <2>3, SinceStays DEF Since
<1>3. \/ table'[k][p] = table[k][p]
      \/ \E h \in Host : k = h /\ Insert(h)
  <2>1. ASSUME NEW h \in Host, NEW g \in Group, Join(h, g) PROVE table'[k][p] = table[k][p]
    BY <2>1 DEF Join, TypeOK, NoPeers
  <2>2. ASSUME NEW h \in Host, Peers(h) PROVE table'[k][p] = table[k][p]
    <3>1. CASE k # h
      BY <2>2, <3>1 DEF Peers, TypeOK
    <3>2. CASE k = h
      <4>1. table'[h] = [q \in Host |-> IF Listed(h, q) THEN table[h][q] ELSE Nothing]
        BY <2>2 DEF Peers, TypeOK
      <4> QED BY <3>2, <4>1
    <3> QED BY <3>1, <3>2
  <2>3. ASSUME NEW h \in Host, Crash(h) \/ \E w \in Leaver : Clear(h, w)
        PROVE  table'[k][p] = table[k][p]
    <3>1. table' = [table EXCEPT ![h] = NoPeers]
      <4>1. CASE Crash(h)
        BY <4>1 DEF Crash
      <4>2. CASE \E w \in Leaver : Clear(h, w)
        BY <4>2 DEF Clear
      <4> QED BY <2>3, <4>1, <4>2
    <3>2. table \in [Host -> [Host -> Entry \cup {Nothing}]]
      BY DEF TypeOK
    <3>3. CASE k = h
      BY <3>1, <3>2, <3>3 DEF NoPeers
    <3>4. CASE k # h
      BY <3>1, <3>2, <3>4
    <3> QED BY <3>3, <3>4
  <2>4. ASSUME NEW h \in Host, Insert(h), k # h PROVE table'[k][p] = table[k][p]
    BY <2>4 DEF Insert, TypeOK
  <2>5. ASSUME NEW h \in Host,
               \/ Beats(h) \/ (\E d \in net : Receive(h, d))
               \/ (\E by \in Operator : Begin(h, by)) \/ End(h) \/ RunFails(h) \/ RunReturns(h)
               \/ (\E free \in BOOLEAN : AskLeave(h, free)) \/ Return(h)
               \/ \E w \in Leaver : Close(h, w) \/ Restore(h, w) \/ Tell(h, w)
        PROVE  table' = table
    BY <2>5 DEF Beats, Clone, Check, Seal, Receive, Begin, End, RunFails, RunReturns, AskLeave,
       Return, Close, Restore, Tell, tasks
  <2> QED BY <2>1, <2>2, <2>3, <2>4, <2>5 DEF HostStep, Leaves
<1> QED BY <1>1, <1>2, <1>3

\* An interval makes everything one older, and nothing more than that.
LEMMA TimelyTick == TypeOK /\ Timely /\ Tick => Timely'
<1> SUFFICES ASSUME TypeOK, Timely, Tick PROVE Timely'
  OBVIOUS
<1> USE RecordTypes
<1>1. hub' = hub /\ lock' = lock /\ leaving' = leaving /\ beat' = beat /\ inbox' = inbox
  BY DEF Tick, tasks
<1>2. \A p \in Host : \A g \in Group :
        /\ away'[p][g] = IF In(p, g) THEN 0 ELSE Older(away[p][g], Horizon)
        /\ bare'[p][g] = IF Holds(p, g) THEN 0 ELSE Older(bare[p][g], Horizon)
  BY DEF Tick
<1>3. \A p \in Host : \A g \in Group :
        /\ away'[p][g] \in Int /\ away'[p][g] <= away[p][g] + 1
        /\ bare'[p][g] \in Int /\ bare'[p][g] <= bare[p][g] + 1
  BY <1>2, Ages, HorizonType DEF Older
<1>4. ASSUME NEW h \in Host PROVE Current(h)'
  BY <1>1, <1>2 DEF Current, In, Closed, Holds
<1>5. NetTrue'
  <2> SUFFICES ASSUME NEW e \in net, e.age < Delay
               PROVE  Since(e.from, e.group, e.holding, e.age + 1)'
    <3>1. ASSUME NEW d \in net' PROVE Since(d.from, d.group, d.holding, d.age)'
      <4>1. PICK e \in net : e.age < Delay /\ d = [e EXCEPT !.age = e.age + 1]
        BY DEF Tick
      <4>2. e \in Announcement
        BY DEF TypeOK
      <4>3. d.from = e.from /\ d.group = e.group /\ d.holding = e.holding /\ d.age = e.age + 1
        BY <4>1, <4>2 DEF Announcement
      <4> QED BY <4>1, <4>3 DEF Since
    <3> QED BY <3>1 DEF NetTrue
  <2>1. e \in Announcement /\ Since(e.from, e.group, e.holding, e.age)
    BY DEF TypeOK, Timely, NetTrue
  <2>2. e.from \in Host /\ e.group \in Group /\ e.age \in Int
    BY <2>1, MembershipAssumption DEF Announcement
  <2> QED BY <2>1, <2>2, <1>3, Ages, HorizonType DEF Since
<1>6. ASSUME NEW h \in Host PROVE BeatTrue(h)' /\ InboxTrue(h)'
  BY <1>1 DEF Tick, BeatTrue, InboxTrue
<1>7. ASSUME NEW h \in Host PROVE TableTrue(h)'
  <2> SUFFICES ASSUME NEW p \in Host, hub'[h].group \in Group, table'[h][p] # Nothing,
                      table'[h][p].age < PeerTtl
               PROVE  Since(p, hub[h].group, table[h][p].holding,
                            MaxSkew + Lead[p] - Lead[h] + table[h][p].age)'
    BY DEF TableTrue, Listed
  <2>1. table'[h][p] = IF table[h][p] = Nothing THEN Nothing
                       ELSE [table[h][p] EXCEPT !.age = Older(table[h][p].age, PeerTtl)]
    BY DEF Tick
  <2>2. table[h][p] # Nothing /\ table[h][p] \in Entry
    BY <2>1 DEF TypeOK
  <2>3. table[h][p].age \in 0..PeerTtl
        /\ table'[h][p].age = Older(table[h][p].age, PeerTtl)
        /\ table'[h][p].holding = table[h][p].holding
    BY <2>1, <2>2 DEF Entry
  <2>4. table'[h][p].age = table[h][p].age + 1 /\ table[h][p].age < PeerTtl
        /\ table[h][p].age \in Int
    BY <2>3, Leads DEF Older
  <2>5. Since(p, hub[h].group, table[h][p].holding, MaxSkew + Lead[p] - Lead[h] + table[h][p].age)
    BY <1>1, <2>2, <2>4 DEF Timely, TableTrue, Listed
  <2> QED BY <1>1, <1>3, <2>3, <2>4, <2>5, Leads, Ages, HorizonType DEF Since
<1> QED BY <1>4, <1>5, <1>6, <1>7 DEF Timely

LEMMA TimelyNext ==
  TypeOK /\ TypeOK' /\ Ownership /\ Timely /\ [Next]_vars => Timely'
<1> SUFFICES ASSUME TypeOK, TypeOK', Ownership, Timely, [Next]_vars PROVE Timely'
  OBVIOUS
<1>1. CASE HostStep
  BY <1>1, NetNext, CurrentNext, BeatNext, InboxNext, TableNext DEF Timely
<1>2. CASE Tick
  BY <1>2, TimelyTick
<1>3. CASE UNCHANGED vars
  BY <1>3 DEF vars, session, tasks, history, Timely, NetTrue, Current, BeatTrue, InboxTrue,
     TableTrue, Since, In, Closed, Holds, Listed
<1> QED BY <1>1, <1>2, <1>3 DEF Next, HostStep

-----------------------------------------------------------------------------
(* Theorems *)

IInv == TypeOK /\ Ownership /\ Tidiness /\ Timely

LEMMA InitInv == Init => IInv
<1> SUFFICES ASSUME Init PROVE IInv
  OBVIOUS
<1>1. TypeOK
  BY InitType
<1>2. Ownership
  BY RecordTypes
  DEF Init, Ownership, Owned, Reachable, NoLeave, NoBeat, Leaver, Operator, After, Locked
<1>3. Tidiness
  BY RecordTypes DEF Init, Tidiness, Tidy, Cleared, Clean, Recorded, NoLeave, NoPeers
<1>4. Timely
  BY MembershipAssumption
  DEF Init, Timely, NetTrue, Current, BeatTrue, InboxTrue, TableTrue, In, Holds, NoHub, NoBeat
<1> QED BY <1>1, <1>2, <1>3, <1>4 DEF IInv

\* The inductive invariant.
THEOREM Inductive == Spec => []IInv
<1>1. IInv /\ [Next]_vars => IInv'
  BY TypeNext, OwnershipNext, TidyNext, TimelyNext DEF IInv
<1> QED BY <1>1, InitInv, PTL DEF Spec

\* Every variable has its type.
THEOREM TypeCorrect == Spec => []TypeOK
<1>1. IInv => TypeOK
  BY DEF IInv
<1> QED BY <1>1, Inductive, PTL

\* Whoever left has an empty table: the hub is looked at again under the lock of
\* the table, and leave closes it before it clears (runner.rs:186).
THEOREM LeaversForget == Spec => []LeftTableEmpty
<1>1. IInv => LeftTableEmpty
  BY DEF IInv, Tidiness, Tidy, Cleared, LeftTableEmpty
<1> QED BY <1>1, Inductive, PTL

\* A suppression of the platform can be taken back as long as the session lives:
\* it is on the record of a hub that is in the slot or being left
\* (session.rs:336).
THEOREM SuppressionsStay == Spec => []SuppressionReachable
<1>1. IInv => SuppressionReachable
  BY DEF IInv, Tidiness, Tidy, Recorded, Reachable, SuppressionReachable
<1> QED BY <1>1, Inductive, PTL

\* Lists are true within the window of the time stamps and the life of an entry,
\* for any window, life, difference of clocks and delay (runner.rs:88).
THEOREM ListsInTime == Spec => []ListedInTime
<1>1. IInv => ListedInTime
  <2> SUFFICES ASSUME IInv, NEW h \in Host, NEW p \in Host, NEW g \in Group,
                      hub[h].group = g, Listed(h, p)
               PROVE  /\ away[p][g] + Lead[h] < MaxSkew + Lead[p] + PeerTtl
                      /\ table[h][p].holding => bare[p][g] + Lead[h] < MaxSkew + Lead[p] + PeerTtl
    BY DEF ListedInTime
  <2>1. Since(p, g, table[h][p].holding, MaxSkew + Lead[p] - Lead[h] + table[h][p].age)
    BY DEF IInv, Timely, TableTrue
  <2>2. table[h][p].age < PeerTtl /\ table[h][p].age \in Int
    BY RecordTypes DEF Listed, IInv, TypeOK, Entry
  <2>3. away[p][g] \in Int /\ bare[p][g] \in Int
    BY Ages, HorizonType DEF IInv
  <2> QED BY <2>1, <2>2, <2>3, Leads DEF Since
<1> QED BY <1>1, Inductive, PTL
=============================================================================
