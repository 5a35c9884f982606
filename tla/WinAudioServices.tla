-------------------------- MODULE WinAudioServices --------------------------
(***************************************************************************)
(* Bluetooth audio on Windows (crates/edifier-bt-windows/src/audio.rs and  *)
(* audio/services.rs).  Windows has no call to connect a headset or to     *)
(* suppress its reconnection: the program disables and enables the audio   *)
(* services of the headset instead, and remembers in a snapshot what it    *)
(* has to enable again.  Every call to the driver may fail, with or        *)
(* without having worked, and a caller that is tired of waiting leaves an  *)
(* operation running in its blocking thread.                               *)
(*                                                                         *)
(* The order in which a list of services is walked is abstracted: every    *)
(* list is a set, walked in any order.                                     *)
(***************************************************************************)
EXTENDS FiniteSets

CONSTANTS
  Address,
  Service,     \* AudioService
  A2dp,
  NoRequest,
  CallFaults,  \* which calls may fail
  Inputs       \* what happens besides: "crash", "user" (Bluetooth settings)

FaultKind == {"enumerate", "set", "acl", "observe"}
InputKind == {"crash", "user"}

ASSUME ServiceAssumption == A2dp \in Service
ASSUME CallAssumption == CallFaults \subseteq FaultKind /\ Inputs \subseteq InputKind

\* The calls of AudioControl: connect_audio, disconnect_audio, and
\* suppress_autoreconnect with TRUE and with FALSE.
Op == {"connect", "release", "suppress", "restore"}
Request == [op : Op, address : Address]

ASSUME RequestAssumption == NoRequest \notin [request : Request, inside : BOOLEAN]

VARIABLES
  enabled,    \* the services Windows has enabled
  recorded,   \* keys of ServiceState.restore
  snapshot,   \* ServiceState.restore
  restored,   \* addresses in restored_at for less than RESTORE_SETTLE
  caller,     \* the call in progress and whether it is past operation_gate
  accepted,   \* closures past the gate that no blocking thread has begun
  job,        \* the closure that runs
  turnedOff,  \* services this process turned off and not on again
  newest      \* the newest call past the gate for each address

vars == <<enabled, recorded, snapshot, restored, caller, accepted, job,
          turnedOff, newest>>

services == <<recorded, snapshot, restored>>

Waiting(r) == [request |-> r, inside |-> FALSE]
Inside(r)  == [request |-> r, inside |-> TRUE]

Stage == {"idle", "disable", "cycle", "enable", "first"}

\* todo is what is left of the list being walked, stuck whether a service of
\* it failed, error whether an error is going to be returned anyway.
Job == [op : Op, address : Address, stage : Stage, todo : SUBSET Service,
        stuck : BOOLEAN, error : BOOLEAN]

Running == job.stage # "idle"

\* Mutant: the guard is dropped with the caller's future.
AlwaysFree == TRUE

\* operation_gate is held from the moment a call gets past it until its
\* closure has returned.
GateFree == accepted = {} /\ ~Running

TypeOK ==
  /\ enabled \in [Address -> SUBSET Service]
  /\ recorded \subseteq Address
  /\ snapshot \in [Address -> SUBSET Service]
  /\ restored \subseteq Address
  /\ caller \in [request : Request, inside : BOOLEAN] \cup {NoRequest}
  /\ accepted \subseteq Request
  /\ job \in Job
  /\ turnedOff \in [Address -> SUBSET Service]
  /\ newest \in [Address -> Op \cup {"none", "failed"}]

Resting(r) == [op |-> r.op, address |-> r.address, stage |-> "idle", todo |-> {},
               stuck |-> FALSE, error |-> FALSE]

Init ==
  /\ enabled \in [Address -> SUBSET Service]
  /\ recorded = {}
  /\ snapshot = [a \in Address |-> {}]
  /\ restored = {}
  /\ caller = NoRequest
  /\ accepted = {}
  /\ \E a \in Address : job = Resting([op |-> "restore", address |-> a])
  /\ turnedOff = [a \in Address |-> {}]
  /\ newest = [a \in Address |-> "none"]

-----------------------------------------------------------------------------
(* Callers and the gate *)

Ask(r) ==
  /\ caller = NoRequest
  /\ caller' = Waiting(r)
  /\ UNCHANGED <<enabled, services, accepted, job, turnedOff, newest>>

Enter(r) ==
  /\ caller = Waiting(r) /\ GateFree
  /\ caller' = Inside(r)
  /\ accepted' = accepted \cup {r}
  /\ newest' = [newest EXCEPT ![r.address] = r.op]
  /\ UNCHANGED <<enabled, services, job, turnedOff>>

\* The hub's timeout.  A call that still waits for the gate is gone, one that
\* is past it goes on without its caller.  Restorations are awaited.
GiveUp(r) ==
  /\ caller \in {Waiting(r), Inside(r)} /\ r.op # "restore"
  /\ caller' = NoRequest
  /\ UNCHANGED <<enabled, services, accepted, job, turnedOff, newest>>

-----------------------------------------------------------------------------
(* The blocking closure *)

\* The closure of r returns.
Return(r, ok) ==
  /\ job' = Resting(r)
  /\ caller' = IF caller = Inside(r) THEN NoRequest ELSE caller
  /\ newest' = IF ok THEN newest ELSE [newest EXCEPT ![r.address] = "failed"]

\* The closure of r goes on to walk over list.
Walk(r, stage, list, error) ==
  /\ job' = [op |-> r.op, address |-> r.address, stage |-> stage, todo |-> list,
             stuck |-> FALSE, error |-> error]
  /\ UNCHANGED <<caller, newest>>

MayFail(call) == call \in CallFaults

\* Mutant: a second release overwrites the first one's snapshot.
OverwrittenBy(a, found) == found

\* What a release records: the services it found on join an older snapshot.
Recording(a, found) == snapshot[a] \cup found

\* Mutant: a release leaves restored_at alone.
KeepSettling(a) == restored

\* A release forgets that the services were just restored.
Unsettled(a) == restored \ {a}

\* disconnect
BeginRelease(r) ==
  /\ r.op \in {"suppress", "release"}
  /\ restored' = Unsettled(r.address)
  /\ \/ /\ recorded' = recorded \cup {r.address}
        /\ snapshot' = [snapshot EXCEPT ![r.address] =
                          Recording(r.address, enabled[r.address])]
        /\ Walk(r, "disable", enabled[r.address], FALSE)
     \/ /\ MayFail("enumerate")
        /\ Return(r, FALSE)
        /\ UNCHANGED <<recorded, snapshot>>

\* restore
BeginRestore(r) ==
  /\ r.op = "restore"
  /\ restored' = restored \ {r.address}
  /\ IF r.address \in recorded
     THEN Walk(r, "enable", snapshot[r.address], FALSE)
     ELSE Return(r, TRUE)
  /\ UNCHANGED <<recorded, snapshot>>

\* connect, unless the audio is seen to be connected already.  Services that
\* were just restored are given time to connect by themselves.
BeginConnect(r) ==
  /\ r.op = "connect"
  /\ \/ /\ MayFail("observe")
        /\ Return(r, FALSE)
        /\ UNCHANGED services
     \/ /\ restored' = restored \ {r.address}  \* seen, or still settling
        /\ Return(r, TRUE)
        /\ UNCHANGED <<recorded, snapshot>>
     \/ /\ r.address \notin restored
        /\ r.address \in recorded
        /\ Walk(r, "enable", snapshot[r.address], FALSE)
        /\ UNCHANGED services
     \/ /\ r.address \notin restored \cup recorded
        /\ \/ /\ MayFail("enumerate")
              /\ Return(r, FALSE)
              /\ UNCHANGED services
           \/ /\ enabled[r.address] = {}
              /\ Walk(r, "first", {A2dp}, FALSE)
              /\ UNCHANGED services
           \/ /\ enabled[r.address] # {}
              /\ recorded' = recorded \cup {r.address}
              /\ snapshot' = [snapshot EXCEPT ![r.address] = enabled[r.address]]
              /\ Walk(r, "cycle", enabled[r.address], FALSE)
              /\ UNCHANGED restored

\* A blocking thread begins an accepted closure; they share one mutex.
Begin(r) ==
  /\ ~Running /\ r \in accepted
  /\ accepted' = accepted \ {r}
  /\ BeginRelease(r) \/ BeginRestore(r) \/ BeginConnect(r)
  /\ UNCHANGED <<enabled, turnedOff>>

\* The service s could not be set.  The first failure of a cycle ends it, and
\* everything is enabled again; the other walks go on.
Stuck(s) ==
  /\ job' = IF job.stage = "cycle"
            THEN [job EXCEPT !.stage = "enable", !.todo = snapshot[job.address],
                             !.error = TRUE]
            ELSE [job EXCEPT !.todo = @ \ {s}, !.stuck = TRUE]
  /\ UNCHANGED <<recorded, snapshot>>

\* set_service: a service that has the wanted state, or has it after all when
\* the services are enumerated again, is fine, whatever the driver returned.
SetService(s) ==
  /\ Running /\ s \in job.todo
  /\ LET a == job.address
         on == job.stage \in {"enable", "first"}
         missing == on # (s \in enabled[a])
         done == /\ enabled' = [enabled EXCEPT ![a] =
                                  IF on THEN @ \cup {s} ELSE @ \ {s}]
                 /\ turnedOff' = [turnedOff EXCEPT ![a] =
                      IF on THEN @ \ {s} ELSE @ \cup (enabled[a] \cap {s})]
     IN \/ /\ done
           /\ job' = [job EXCEPT !.todo = @ \ {s}]
           /\ UNCHANGED <<recorded, snapshot>>
        \/ /\ (MayFail("set") /\ missing) \/ MayFail("enumerate")
           /\ Stuck(s)
           /\ UNCHANGED <<enabled, turnedOff>>
        \/ /\ MayFail("set") /\ missing /\ MayFail("enumerate")
           /\ Stuck(s)
           /\ done  \* the call worked, but nobody can tell
  /\ UNCHANGED <<restored, caller, accepted, newest>>

JobRequest == [op |-> job.op, address |-> job.address]

\* The end of disconnect, and the request to drop the ACL of disconnect_audio.
EndDisable ==
  /\ job.stage = "disable" /\ job.todo = {}
  /\ \E ok \in BOOLEAN :
        /\ job.stuck => ~ok
        /\ ~ok => job.stuck \/ (job.op = "release" /\ MayFail("acl"))
        /\ Return(JobRequest, ok)
  /\ UNCHANGED services

\* Everything is off: on again.
EndCycle ==
  /\ job.stage = "cycle" /\ job.todo = {}
  /\ Walk(JobRequest, "enable", snapshot[job.address], FALSE)
  /\ UNCHANGED services

\* The end of restore_snapshot.  Only a complete restoration drops the snapshot.
EndEnable ==
  /\ job.stage = "enable" /\ job.todo = {}
  /\ IF job.stuck
     THEN UNCHANGED services
     ELSE /\ recorded' = recorded \ {job.address}
          /\ snapshot' = [snapshot EXCEPT ![job.address] = {}]
          /\ restored' = IF job.op = "restore" THEN restored \cup {job.address}
                                               ELSE restored
  /\ Return(JobRequest, ~job.stuck /\ ~job.error)

EndFirst ==
  /\ job.stage = "first" /\ job.todo = {}
  /\ Return(JobRequest, ~job.stuck /\ ~job.error)
  /\ UNCHANGED services

EndJob ==
  /\ EndDisable \/ EndCycle \/ EndEnable \/ EndFirst
  /\ UNCHANGED <<enabled, accepted, turnedOff>>

-----------------------------------------------------------------------------
(* Everything else *)

\* audio_state answers Unknown while the gate is held; a connection it sees
\* ends the settling, as does the time.
Observe(a) ==
  /\ GateFree /\ a \in restored
  /\ restored' = restored \ {a}
  /\ UNCHANGED <<enabled, recorded, snapshot, caller, accepted, job, turnedOff, newest>>

SettleTimePasses(a) ==
  /\ a \in restored
  /\ restored' = restored \ {a}
  /\ UNCHANGED <<enabled, recorded, snapshot, caller, accepted, job, turnedOff, newest>>

\* The user changes a service in the Bluetooth settings.
UserSets(a, s) ==
  /\ "user" \in Inputs
  /\ \/ enabled' = [enabled EXCEPT ![a] = @ \cup {s}]
     \/ enabled' = [enabled EXCEPT ![a] = @ \ {s}]
  /\ turnedOff' = [turnedOff EXCEPT ![a] = @ \ {s}]
  /\ UNCHANGED <<services, caller, accepted, job, newest>>

\* The process dies; nothing of ServiceState is on disk.
Crash ==
  /\ "crash" \in Inputs
  /\ recorded' = {} /\ restored' = {}
  /\ snapshot' = [a \in Address |-> {}]
  /\ caller' = NoRequest /\ accepted' = {}
  /\ job' = Resting(JobRequest)
  /\ turnedOff' = [a \in Address |-> {}]
  /\ newest' = [a \in Address |-> "none"]
  /\ UNCHANGED enabled

Closure == (\E r \in Request : Begin(r)) \/ (\E s \in Service : SetService(s)) \/ EndJob

Next ==
  \/ \E r \in Request : Ask(r) \/ Enter(r) \/ GiveUp(r)
  \/ Closure
  \/ \E a \in Address : \/ Observe(a) \/ SettleTimePasses(a)
                        \/ \E s \in Service : UserSets(a, s)
  \/ Crash

Spec == Init /\ [][Next]_vars

-----------------------------------------------------------------------------
(* What makes it correct *)

\* Whatever fails, whatever is called again and whoever gives up waiting: a
\* service the process turned off is in the snapshot it enables from
\* (services.rs, disconnect, connect and restore_snapshot).
Recoverable ==
  \A a \in Address : turnedOff[a] # {} => a \in recorded /\ turnedOff[a] \subseteq snapshot[a]

\* A connect that trusts restored_at does not wait in vain: nothing that the
\* process turned off is still off (services.rs, connect and disconnect).
SettlingIsOn == \A a \in Address : a \in restored => a \notin recorded /\ turnedOff[a] = {}

\* The last word counts: when all is quiet after a restoration that succeeded,
\* no earlier call, given up by its caller or not, has turned anything off
\* behind its back (audio.rs, update_services and its operation_gate).
RestoreHasLastWord ==
  \A a \in Address : accepted = {} /\ ~Running /\ newest[a] = "restore" =>
     turnedOff[a] = {} /\ a \notin recorded
=============================================================================
