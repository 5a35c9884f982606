----------------------- MODULE WinAudioServices_proofs -----------------------
(***************************************************************************)
(* Proofs about WinAudioServices: type correctness, and from one inductive *)
(* invariant, in two parts, its three safety properties.                   *)
(***************************************************************************)
EXTENDS WinAudioServices, TLAPS

-----------------------------------------------------------------------------
(* Type correctness *)

\* How a closure returns and how it starts to walk keep the types.
LEMMA ReturnType ==
  ASSUME TypeOK, NEW r \in Request, NEW ok \in BOOLEAN, Return(r, ok)
  PROVE  /\ job' \in Job
         /\ caller' \in [request : Request, inside : BOOLEAN] \cup {NoRequest}
         /\ newest' \in [Address -> Op \cup {"none", "failed"}]
BY DEF TypeOK, Return, Resting, Job, Request, Stage

\* Starting to walk a list of services keeps the types (services.rs, set_services).
LEMMA WalkType ==
  ASSUME TypeOK, NEW r \in Request, NEW stage \in Stage, NEW list \in SUBSET Service,
         NEW error \in BOOLEAN, Walk(r, stage, list, error)
  PROVE  /\ job' \in Job
         /\ caller' \in [request : Request, inside : BOOLEAN] \cup {NoRequest}
         /\ newest' \in [Address -> Op \cup {"none", "failed"}]
BY DEF TypeOK, Walk, Job, Request, Stage

\* The request of the running closure is a request.
LEMMA JobRequestType ==
  ASSUME TypeOK
  PROVE  JobRequest \in Request
BY DEF TypeOK, JobRequest, Job, Request

\* Beginning a closure keeps the types (audio.rs, update_services).
LEMMA BeginType ==
  ASSUME TypeOK, NEW r \in Request, Begin(r)
  PROVE  TypeOK'
<1> DEFINE Rest == /\ job' \in Job
                   /\ caller' \in [request : Request, inside : BOOLEAN] \cup {NoRequest}
                   /\ newest' \in [Address -> Op \cup {"none", "failed"}]
<1> DEFINE Kept == /\ recorded' \subseteq Address
                   /\ snapshot' \in [Address -> SUBSET Service]
                   /\ restored' \subseteq Address
<1>a. r.op \in Op /\ r.address \in Address
  BY DEF Request
<1>b. enabled[r.address] \in SUBSET Service /\ snapshot[r.address] \in SUBSET Service
  BY <1>a DEF TypeOK
<1>1. CASE BeginRelease(r)
  <2>1. Rest
    <3>1. CASE Walk(r, "disable", enabled[r.address], FALSE)
      BY <3>1, <1>b, WalkType DEF Stage
    <3>2. CASE Return(r, FALSE)
      BY <3>2, ReturnType
    <3> QED BY <1>1, <3>1, <3>2 DEF BeginRelease
  <2>2. Kept
    BY <1>1, <1>a, <1>b DEF BeginRelease, TypeOK, Unsettled, Recording
  <2> QED BY <2>1, <2>2 DEF Begin, TypeOK
<1>2. CASE BeginRestore(r)
  <2>1. Rest
    <3>1. CASE Walk(r, "enable", snapshot[r.address], FALSE)
      BY <3>1, <1>b, WalkType DEF Stage
    <3>2. CASE Return(r, TRUE)
      BY <3>2, ReturnType
    <3> QED BY <1>2, <3>1, <3>2 DEF BeginRestore
  <2>2. Kept
    BY <1>2, <1>a DEF BeginRestore, TypeOK
  <2> QED BY <2>1, <2>2 DEF Begin, TypeOK
<1>3. CASE BeginConnect(r)
  <2>1. Rest
    <3>1. CASE Walk(r, "enable", snapshot[r.address], FALSE)
      BY <3>1, <1>b, WalkType DEF Stage
    <3>2. CASE \E ok \in BOOLEAN : Return(r, ok)
      BY <3>2, ReturnType
    <3>3. CASE Walk(r, "first", {A2dp}, FALSE)
      BY <3>3, ServiceAssumption, WalkType DEF Stage
    <3>4. CASE Walk(r, "cycle", enabled[r.address], FALSE)
      BY <3>4, <1>b, WalkType DEF Stage
    <3> QED BY <1>3, <3>1, <3>2, <3>3, <3>4 DEF BeginConnect
  <2>2. Kept
    BY <1>3, <1>a, <1>b DEF BeginConnect, TypeOK, services
  <2> QED BY <2>1, <2>2 DEF Begin, TypeOK
<1> QED BY <1>1, <1>2, <1>3 DEF Begin

\* Setting one service keeps the types (services.rs, set_service).
LEMMA SetServiceType ==
  ASSUME TypeOK, NEW s \in Service, SetService(s)
  PROVE  TypeOK'
<1>a. job.address \in Address /\ job.todo \in SUBSET Service
  BY DEF TypeOK, Job
<1>b. enabled[job.address] \in SUBSET Service /\ turnedOff[job.address] \in SUBSET Service
      /\ snapshot[job.address] \in SUBSET Service
  BY <1>a DEF TypeOK
<1>1. enabled' \in [Address -> SUBSET Service] /\ turnedOff' \in [Address -> SUBSET Service]
  BY <1>a, <1>b DEF SetService, TypeOK
<1>2. job' \in Job
  <2>1. CASE job' = [job EXCEPT !.todo = @ \ {s}]
    BY <2>1 DEF TypeOK, Job
  <2>2. CASE job' = [job EXCEPT !.todo = @ \ {s}, !.stuck = TRUE]
    BY <2>2 DEF TypeOK, Job
  <2>3. CASE job' = [job EXCEPT !.stage = "enable", !.todo = snapshot[job.address],
                                !.error = TRUE]
    BY <2>3, <1>b DEF TypeOK, Job, Stage
  <2> QED BY <2>1, <2>2, <2>3 DEF SetService, Stuck
<1>3. recorded' = recorded /\ snapshot' = snapshot
  BY DEF SetService, Stuck
<1> QED BY <1>1, <1>2, <1>3 DEF SetService, TypeOK

\* The ends of the walks keep the types (services.rs).
LEMMA EndJobType ==
  ASSUME TypeOK, EndJob
  PROVE  TypeOK'
<1>a. job.address \in Address /\ snapshot[job.address] \in SUBSET Service
      /\ job.stuck \in BOOLEAN /\ job.error \in BOOLEAN
  BY DEF TypeOK, Job
<1>b. JobRequest \in Request
  BY JobRequestType
<1>1. CASE EndDisable
  BY <1>1, <1>b, ReturnType DEF EndDisable, EndJob, TypeOK, services
<1>2. CASE EndCycle
  BY <1>2, <1>a, <1>b, WalkType DEF EndCycle, EndJob, TypeOK, services, Stage
<1>3. CASE EndEnable
  <2>1. recorded' \subseteq Address /\ snapshot' \in [Address -> SUBSET Service]
        /\ restored' \subseteq Address
    BY <1>3, <1>a DEF EndEnable, TypeOK, services
  <2> QED BY <1>3, <1>a, <1>b, <2>1, ReturnType DEF EndEnable, EndJob, TypeOK
<1>4. CASE EndFirst
  BY <1>4, <1>a, <1>b, ReturnType DEF EndFirst, EndJob, TypeOK, services
<1> QED BY <1>1, <1>2, <1>3, <1>4 DEF EndJob

\* Every step keeps the types.
LEMMA TypeStep ==
  ASSUME TypeOK, [Next]_vars
  PROVE  TypeOK'
<1>1. ASSUME NEW r \in Request, Ask(r) \/ Enter(r) \/ GiveUp(r) PROVE TypeOK'
  <2>1. Waiting(r) \in [request : Request, inside : BOOLEAN]
        /\ Inside(r) \in [request : Request, inside : BOOLEAN]
    BY DEF Waiting, Inside
  <2>2. r.op \in Op /\ r.address \in Address
    BY DEF Request
  <2>3. CASE Ask(r)
    BY <2>1, <2>3 DEF Ask, TypeOK, services
  <2>4. CASE Enter(r)
    BY <2>1, <2>2, <2>4 DEF Enter, TypeOK, services
  <2>5. CASE GiveUp(r)
    BY <2>5 DEF GiveUp, TypeOK, services
  <2> QED BY <1>1, <2>3, <2>4, <2>5
<1>2. CASE Closure
  BY <1>2, BeginType, SetServiceType, EndJobType DEF Closure
<1>3. ASSUME NEW a \in Address, Observe(a) \/ SettleTimePasses(a) PROVE TypeOK'
  BY <1>3 DEF Observe, SettleTimePasses, TypeOK
<1>4. ASSUME NEW a \in Address, NEW s \in Service, UserSets(a, s) PROVE TypeOK'
  BY <1>4 DEF UserSets, TypeOK, services
<1>5. CASE Crash
  BY <1>5, JobRequestType DEF Crash, TypeOK, Resting, Job, Stage, Request
<1>6. CASE UNCHANGED vars
  BY <1>6 DEF vars, TypeOK
<1> QED BY <1>1, <1>2, <1>3, <1>4, <1>5, <1>6 DEF Next

\* The initial state is well typed.
LEMMA TypeInit ==
  ASSUME Init
  PROVE  TypeOK
BY DEF Init, TypeOK, Resting, Job, Stage, Op

\* All variables keep their types.
THEOREM TypeCorrect == Spec => []TypeOK
<1>1. Init => TypeOK
  BY TypeInit
<1>2. TypeOK /\ [Next]_vars => TypeOK'
  BY TypeStep
<1> QED BY <1>1, <1>2, PTL DEF Spec

-----------------------------------------------------------------------------
(* The snapshot *)

\* What keeps a service recoverable: it is recorded before it is turned off,
\* and the record is dropped at the end of a walk that left nothing out.
SnapshotInv ==
  /\ \A a \in Address : turnedOff[a] \subseteq snapshot[a]
  /\ \A a \in Address : a \notin recorded => snapshot[a] = {}
  /\ \A a \in Address : a \in restored => a \notin recorded
  /\ job.stage \in {"disable", "cycle", "enable"} => job.address \in recorded
  /\ job.stage \in {"disable", "cycle"} => job.todo \subseteq snapshot[job.address]
  /\ job.stage = "enable" /\ ~job.stuck => turnedOff[job.address] \subseteq job.todo

\* SnapshotInv says what Recoverable and SettlingIsOn say.
LEMMA SnapshotSafe ==
  ASSUME SnapshotInv
  PROVE  Recoverable /\ SettlingIsOn
BY DEF SnapshotInv, Recoverable, SettlingIsOn

\* Initially nothing has been turned off.
LEMMA SnapshotInit ==
  ASSUME Init
  PROVE  SnapshotInv
BY DEF Init, SnapshotInv, Resting

\* Beginning a release, restoration or connection (services.rs).
LEMMA SnapshotBegin ==
  ASSUME TypeOK, SnapshotInv, NEW r \in Request, Begin(r)
  PROVE  SnapshotInv'
<1>a. r.address \in Address
  BY DEF Request
<1>b. turnedOff' = turnedOff
  BY DEF Begin
<1>1. CASE BeginRelease(r)
  <2>1. CASE Return(r, FALSE)
    BY <1>1, <1>a, <1>b, <2>1 DEF BeginRelease, Return, Resting, Unsettled, SnapshotInv, TypeOK,
      Recording, Walk
  <2>2. CASE Walk(r, "disable", enabled[r.address], FALSE)
    <3>1. recorded' = recorded \cup {r.address}
          /\ snapshot' = [snapshot EXCEPT ![r.address] =
                            snapshot[r.address] \cup enabled[r.address]]
          /\ restored' = restored \ {r.address}
      BY <1>1, <2>2 DEF BeginRelease, Recording, Unsettled, Walk, Return, Resting
    <3>2. job'.stage = "disable" /\ job'.address = r.address /\ job'.todo = enabled[r.address]
      BY <2>2 DEF Walk
    <3> QED BY <1>a, <1>b, <3>1, <3>2 DEF SnapshotInv, TypeOK
  <2> QED BY <1>1, <2>1, <2>2 DEF BeginRelease
<1>2. CASE BeginRestore(r)
  BY <1>2, <1>a, <1>b DEF BeginRestore, Return, Resting, Walk, SnapshotInv, TypeOK
<1>3. CASE BeginConnect(r)
  <2>1. CASE \E ok \in BOOLEAN : Return(r, ok) /\ UNCHANGED <<recorded, snapshot>>
                               /\ restored' \subseteq restored
    BY <1>b, <2>1 DEF Return, Resting, SnapshotInv, TypeOK
  <2>2. CASE /\ r.address \in recorded
             /\ Walk(r, "enable", snapshot[r.address], FALSE)
             /\ UNCHANGED services
    BY <1>a, <1>b, <2>2 DEF Walk, SnapshotInv, TypeOK, services
  <2>3. CASE Walk(r, "first", {A2dp}, FALSE) /\ UNCHANGED services
    BY <1>b, <2>3 DEF Walk, SnapshotInv, TypeOK, services
  <2>4. CASE /\ r.address \notin restored \cup recorded
             /\ recorded' = recorded \cup {r.address}
             /\ snapshot' = [snapshot EXCEPT ![r.address] = enabled[r.address]]
             /\ Walk(r, "cycle", enabled[r.address], FALSE)
             /\ UNCHANGED restored
    <3>1. turnedOff[r.address] = {}
      BY <1>a, <2>4 DEF SnapshotInv
    <3> QED BY <1>a, <1>b, <2>4, <3>1 DEF Walk, SnapshotInv, TypeOK
  <2> QED BY <1>3, <2>1, <2>2, <2>3, <2>4 DEF BeginConnect, services
<1> QED BY <1>1, <1>2, <1>3 DEF Begin

\* Setting one service: it is turned off only where the walk found it in the
\* snapshot, and leaves the walk that turns everything on only when it is on.
LEMMA SnapshotSetService ==
  ASSUME TypeOK, SnapshotInv, NEW s \in Service, SetService(s)
  PROVE  SnapshotInv'
<1>a. job.address \in Address /\ s \in job.todo
  BY DEF TypeOK, Job, SetService
<1>b. recorded' = recorded /\ snapshot' = snapshot /\ restored' = restored
  BY DEF SetService, Stuck
<1>c. /\ turnedOff' \in [Address -> SUBSET Service]
      /\ \A a \in Address : a # job.address => turnedOff'[a] = turnedOff[a]
      /\ turnedOff'[job.address] \subseteq turnedOff[job.address] \cup {s}
      /\ job.stage \notin {"disable", "cycle"} => turnedOff'[job.address] \subseteq turnedOff[job.address]
  BY <1>a, SetServiceType DEF SetService, TypeOK, Running, Job, Stage
<1>d. job.stage \in {"disable", "cycle", "enable", "first"}
  BY DEF SetService, Running, TypeOK, Job, Stage
<1>e. turnedOff'[job.address] \subseteq snapshot[job.address]
  BY <1>a, <1>c, <1>d DEF SnapshotInv
<1>1. CASE job' = [job EXCEPT !.todo = @ \ {s}] /\ turnedOff' = [turnedOff EXCEPT ![job.address] =
              IF job.stage \in {"enable", "first"} THEN @ \ {s} ELSE @ \cup (enabled[job.address] \cap {s})]
  BY <1>1, <1>a, <1>b, <1>c, <1>e DEF SnapshotInv, TypeOK, Job
<1>2. CASE job' = [job EXCEPT !.todo = @ \ {s}, !.stuck = TRUE]
  BY <1>2, <1>a, <1>b, <1>c, <1>e DEF SnapshotInv, TypeOK, Job
<1>3. CASE job.stage = "cycle" /\ job' = [job EXCEPT !.stage = "enable", !.todo = snapshot[job.address],
                                !.error = TRUE]
  BY <1>3, <1>a, <1>b, <1>c, <1>e DEF SnapshotInv, TypeOK, Job
<1> QED BY <1>1, <1>2, <1>3 DEF SetService, Stuck

\* The ends of the walks: the snapshot goes only when everything is on again.
LEMMA SnapshotEndJob ==
  ASSUME TypeOK, SnapshotInv, EndJob
  PROVE  SnapshotInv'
<1>a. job.address \in Address
  BY DEF TypeOK, Job
<1>b. turnedOff' = turnedOff
  BY DEF EndJob
<1>1. CASE EndDisable
  BY <1>1, <1>b DEF EndDisable, Return, Resting, SnapshotInv, TypeOK, services
<1>2. CASE EndCycle
  BY <1>2, <1>a, <1>b DEF EndCycle, Walk, JobRequest, SnapshotInv, TypeOK, services
<1>3. CASE EndEnable
  <2>1. job'.stage = "idle"
    BY <1>3 DEF EndEnable, Return, Resting
  <2>2. CASE job.stuck
    BY <1>3, <1>b, <2>1, <2>2 DEF EndEnable, SnapshotInv, TypeOK, services
  <2>3. CASE ~job.stuck
    <3>1. turnedOff[job.address] = {}
      BY <1>3, <2>3 DEF EndEnable, SnapshotInv
    <3> QED BY <1>3, <1>a, <1>b, <2>1, <2>3, <3>1 DEF EndEnable, SnapshotInv, TypeOK
  <2> QED BY <2>2, <2>3
<1>4. CASE EndFirst
  BY <1>4, <1>b DEF EndFirst, Return, Resting, SnapshotInv, TypeOK, services
<1> QED BY <1>1, <1>2, <1>3, <1>4 DEF EndJob

\* Every step keeps the invariant of the snapshot.
LEMMA SnapshotStep ==
  ASSUME TypeOK, SnapshotInv, [Next]_vars
  PROVE  SnapshotInv'
<1>1. ASSUME NEW r \in Request, Ask(r) \/ Enter(r) \/ GiveUp(r) PROVE SnapshotInv'
  BY <1>1 DEF Ask, Enter, GiveUp, SnapshotInv, services
<1>2. CASE Closure
  BY <1>2, SnapshotBegin, SnapshotSetService, SnapshotEndJob DEF Closure
<1>3. ASSUME NEW a \in Address, Observe(a) \/ SettleTimePasses(a) PROVE SnapshotInv'
  BY <1>3 DEF Observe, SettleTimePasses, SnapshotInv
<1>4. ASSUME NEW a \in Address, NEW s \in Service, UserSets(a, s) PROVE SnapshotInv'
  <2>1. \A x \in Address : turnedOff'[x] \subseteq turnedOff[x]
    BY <1>4 DEF UserSets, TypeOK
  <2> QED BY <1>4, <2>1 DEF UserSets, SnapshotInv, services, TypeOK, Job
<1>5. CASE Crash
  BY <1>5 DEF Crash, SnapshotInv, Resting
<1>6. CASE UNCHANGED vars
  BY <1>6 DEF vars, SnapshotInv
<1> QED BY <1>1, <1>2, <1>3, <1>4, <1>5, <1>6 DEF Next

\* The types and the invariant of the snapshot hold in every reachable state.
THEOREM SnapshotHolds == Spec => [](TypeOK /\ SnapshotInv)
<1>1. Init => TypeOK /\ SnapshotInv
  BY TypeInit, SnapshotInit
<1>2. TypeOK /\ SnapshotInv /\ [Next]_vars => (TypeOK /\ SnapshotInv)'
  BY TypeStep, SnapshotStep
<1> QED BY <1>1, <1>2, PTL DEF Spec

\* Whatever fails, what the process turned off can be turned on again.
THEOREM NothingLost == Spec => []Recoverable
<1>1. TypeOK /\ SnapshotInv => Recoverable
  BY SnapshotSafe
<1> QED BY <1>1, SnapshotHolds, PTL

\* A connect that trusts a recent restoration finds nothing turned off.
THEOREM SettlingIsSafe == Spec => []SettlingIsOn
<1>1. TypeOK /\ SnapshotInv => SettlingIsOn
  BY SnapshotSafe
<1> QED BY <1>1, SnapshotHolds, PTL

-----------------------------------------------------------------------------
(* The gate *)

\* One closure at a time is past the gate, and it is that of the newest call;
\* so whoever restored last has left no snapshot.
GateInv ==
  /\ Running => accepted = {}
  /\ \A r, q \in accepted : r = q
  /\ \A r \in accepted : newest[r.address] = r.op
  /\ Running => newest[job.address] = job.op
  /\ job.stage = "disable" => job.op \in {"suppress", "release"}
  /\ job.stage \in {"cycle", "first"} => job.op = "connect"
  /\ \A a \in Address :
        /\ newest[a] = "restore" /\ a \in recorded
        => (\E r \in accepted : r.address = a) \/ (Running /\ job.address = a)

\* Initially nobody is inside the gate.
LEMMA GateInit ==
  ASSUME Init
  PROVE  GateInv
BY DEF Init, GateInv, Resting, Running

\* Calls enter one at a time (audio.rs, update_services).
LEMMA GateCaller ==
  ASSUME TypeOK, GateInv, NEW r \in Request, Ask(r) \/ Enter(r) \/ GiveUp(r)
  PROVE  GateInv'
<1>1. CASE Ask(r) \/ GiveUp(r)
  BY <1>1 DEF Ask, GiveUp, GateInv, Running, services
<1>2. CASE Enter(r)
  <2>1. accepted = {} /\ ~Running /\ accepted' = {r} /\ job' = job /\ recorded' = recorded
    BY <1>2 DEF Enter, GateFree, services
  <2>2. r.address \in Address /\ newest' = [newest EXCEPT ![r.address] = r.op]
    BY <1>2 DEF Enter, Request
  <2> QED BY <2>1, <2>2 DEF GateInv, Running, TypeOK
<1> QED BY <1>1, <1>2

\* A closure that returns at once or starts to walk.
LEMMA GateBegin ==
  ASSUME TypeOK, GateInv, NEW r \in Request, Begin(r)
  PROVE  GateInv'
<1>a. r.address \in Address /\ newest[r.address] = r.op /\ accepted' = {} /\ ~Running
      /\ \A q \in accepted : q = r
  BY DEF Begin, GateInv, Request
<1>b. \A a \in Address : a # r.address /\ newest[a] = "restore" => a \notin recorded
  BY <1>a DEF GateInv
<1>c. \A a \in Address : a # r.address /\ a \in recorded' => a \in recorded
  BY DEF Begin, BeginRelease, BeginRestore, BeginConnect, services
<1>1. CASE Return(r, TRUE)
  <2>1. r.op # "restore" \/ r.address \notin recorded'
    BY <1>1 DEF Begin, BeginRelease, BeginRestore, BeginConnect, Return, Resting, Walk
  <2> QED BY <1>1, <1>a, <1>b, <1>c, <2>1 DEF Return, Resting, Running, GateInv, TypeOK
<1>2. CASE Return(r, FALSE)
  BY <1>2, <1>a, <1>b, <1>c DEF Return, Resting, Running, GateInv, TypeOK
<1>3. CASE \E stage \in {"disable", "cycle", "enable", "first"}, list \in SUBSET Service :
             /\ Walk(r, stage, list, FALSE)
             /\ stage = "disable" => r.op \in {"suppress", "release"}
             /\ stage \in {"cycle", "first"} => r.op = "connect"
  BY <1>3, <1>a, <1>b, <1>c DEF Walk, Running, GateInv, TypeOK
<1>4. enabled[r.address] \in SUBSET Service /\ snapshot[r.address] \in SUBSET Service
      /\ {A2dp} \in SUBSET Service
  BY <1>a, ServiceAssumption DEF TypeOK
<1>5. CASE BeginRelease(r)
  BY <1>5, <1>2, <1>3, <1>4 DEF BeginRelease
<1>6. CASE BeginRestore(r)
  BY <1>6, <1>1, <1>3, <1>4 DEF BeginRestore
<1>7. CASE BeginConnect(r)
  BY <1>7, <1>1, <1>2, <1>3, <1>4 DEF BeginConnect
<1> QED BY <1>5, <1>6, <1>7 DEF Begin

\* Setting one service keeps the gate's invariant.
LEMMA GateSetService ==
  ASSUME TypeOK, GateInv, NEW s \in Service, SetService(s)
  PROVE  GateInv'
<1>1. recorded' = recorded /\ accepted' = accepted /\ newest' = newest
  BY DEF SetService, Stuck
<1>2. job'.op = job.op /\ job'.address = job.address
  BY DEF SetService, Stuck, TypeOK, Job
<1>3. job'.stage = job.stage \/ (job.stage = "cycle" /\ job'.stage = "enable")
  BY DEF SetService, Stuck, TypeOK, Job
<1> QED BY <1>1, <1>2, <1>3 DEF GateInv, Running

\* The end of a closure keeps the gate's invariant: its result is its address's newest.
LEMMA GateEndJob ==
  ASSUME TypeOK, GateInv, EndJob
  PROVE  GateInv'
<1>a. job.address \in Address /\ Running /\ accepted = {} /\ accepted' = {}
      /\ newest[job.address] = job.op
  BY DEF EndJob, EndDisable, EndCycle, EndEnable, EndFirst, Running, GateInv, TypeOK, Job
<1>b. \A a \in Address : a # job.address /\ newest[a] = "restore" => a \notin recorded
  BY <1>a DEF GateInv
<1>c. recorded' \subseteq recorded
  BY DEF EndJob, EndDisable, EndCycle, EndEnable, EndFirst, services
<1>1. CASE EndCycle
  BY <1>1, <1>a, <1>b, <1>c DEF EndCycle, Walk, JobRequest, GateInv, Running
<1>2. ASSUME NEW ok \in BOOLEAN, Return(JobRequest, ok),
             ~ok \/ job.op # "restore" \/ job.address \notin recorded'
      PROVE  GateInv'
  <2>1. job'.stage = "idle"
    BY <1>2 DEF Return, Resting
  <2>2. newest' = IF ok THEN newest ELSE [newest EXCEPT ![job.address] = "failed"]
    BY <1>2 DEF Return, JobRequest
  <2> QED BY <1>2, <1>a, <1>b, <1>c, <2>1, <2>2 DEF GateInv, Running, TypeOK
<1>3. CASE EndDisable
  BY <1>3, <1>2 DEF EndDisable, GateInv
<1>4. CASE EndEnable
  <2>1. job.stuck \in BOOLEAN /\ job.error \in BOOLEAN
    BY DEF TypeOK, Job
  <2> QED BY <1>4, <1>2, <2>1 DEF EndEnable
<1>5. CASE EndFirst
  <2>1. job.stuck \in BOOLEAN /\ job.error \in BOOLEAN
    BY DEF TypeOK, Job
  <2> QED BY <1>5, <1>2, <2>1 DEF EndFirst, GateInv
<1> QED BY <1>1, <1>3, <1>4, <1>5 DEF EndJob

\* Every step keeps the gate's invariant.
LEMMA GateStep ==
  ASSUME TypeOK, GateInv, [Next]_vars
  PROVE  GateInv'
<1>1. ASSUME NEW r \in Request, Ask(r) \/ Enter(r) \/ GiveUp(r) PROVE GateInv'
  BY <1>1, GateCaller
<1>2. CASE Closure
  BY <1>2, GateBegin, GateSetService, GateEndJob DEF Closure
<1>3. ASSUME NEW a \in Address, Observe(a) \/ SettleTimePasses(a) PROVE GateInv'
  BY <1>3 DEF Observe, SettleTimePasses, GateInv, Running
<1>4. ASSUME NEW a \in Address, NEW s \in Service, UserSets(a, s) PROVE GateInv'
  BY <1>4 DEF UserSets, GateInv, Running, services
<1>5. CASE Crash
  BY <1>5 DEF Crash, GateInv, Running, Resting
<1>6. CASE UNCHANGED vars
  BY <1>6 DEF vars, GateInv, Running
<1> QED BY <1>1, <1>2, <1>3, <1>4, <1>5, <1>6 DEF Next

\* After a restoration that succeeded nothing is turned off behind its back,
\* not even by a call whose caller had given up waiting.
THEOREM LastWordRestores == Spec => []RestoreHasLastWord
<1>1. Init => GateInv
  BY GateInit
<1>2. TypeOK /\ GateInv /\ [Next]_vars => GateInv'
  BY GateStep
<1>3. SnapshotInv /\ GateInv => RestoreHasLastWord
  BY DEF SnapshotInv, GateInv, RestoreHasLastWord
<1> QED BY <1>1, <1>2, <1>3, SnapshotHolds, PTL DEF Spec
=============================================================================
