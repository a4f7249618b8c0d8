------------------------------- MODULE Sidecar -------------------------------
(***************************************************************************)
(* The engine side of the embedding sidecar (galaxdb-sidecar               *)
(* SidecarManager): requests that are sent or parked in the backlog, the   *)
(* threads that start, stop, restart, drain and record heartbeats, and the *)
(* gauges they publish.  The sidecar process (main.rs) answers a request   *)
(* while it listens and may fail any one; it exits when it cannot load its *)
(* model, and the operating system may end it.                             *)
(***************************************************************************)
EXTENDS Naturals, Sequences, Functions

CONSTANTS Requests, Supervisors,
          MaxInFlight,     \* MAX_IN_FLIGHT
          BackoffSteps,    \* length of RESTART_BACKOFF
          MaxOps

ASSUME SidecarConstants == MaxInFlight \in Nat \ {0}

VARIABLES scState, child, missed, attempt, inFlight, shutdown, backlog,
          depth, status,   \* the embedding_queue_depth and sidecar_status gauges
          call, sup,       \* what each embed call and each supervisor is doing
          answered, redone,\* requests answered to the caller, and by a drain
          ops, raced,
          stopped, revived \* a stop returned; a start or restart outlived it

scvars == <<scState, child, missed, attempt, inFlight, shutdown, backlog, depth,
            status, call, sup, answered, redone, ops, raced,
            stopped, revived>>
manager == <<scState, child, missed, attempt, shutdown, status>>

ScInit == /\ scState = "Stopped" /\ child = "none" /\ missed = 0 /\ attempt = 0
          /\ inFlight = 0 /\ shutdown = FALSE /\ backlog = << >>
          /\ depth = 0 /\ status = 0
          /\ call = [r \in Requests |-> [pc |-> "new"]]
          /\ sup = [m \in Supervisors |-> "idle"]
          /\ answered = {} /\ redone = {}
          /\ ops = 0 /\ raced = FALSE /\ stopped = FALSE /\ revived = FALSE

IsDegraded == scState # "Healthy"

SetCall(r, st) == /\ call' = [call EXCEPT ![r] = st]
                  /\ UNCHANGED <<manager, sup, redone, ops, stopped, revived>>

BacklogFree == \A m \in Supervisors : sup[m] # "draining"

(* embed: the state check. *)
EmbedCheck(r) ==
  /\ call[r].pc = "new"
  /\ SetCall(r, [pc |-> IF IsDegraded THEN "park" ELSE "count"])
  /\ UNCHANGED <<inFlight, backlog, depth, answered, raced>>

AddToBacklog(r) ==
  /\ call[r].pc = "park" /\ BacklogFree
  /\ backlog' = Append(backlog, r)
  /\ SetCall(r, [pc |-> "done"])
  /\ UNCHANGED <<inFlight, depth, answered, raced>>

(* embed: fetch_add; the gauge is set in a later step. *)
CountIn(r) ==
  /\ call[r].pc = "count"
  /\ inFlight' = inFlight + 1
  /\ SetCall(r, [pc |-> "gaugeIn", seen |-> inFlight])
  /\ UNCHANGED <<backlog, depth, answered, raced>>

(* A gauge written out of order with another call's. *)
Overlapping(r) == \E o \in Requests \ {r} : call[o].pc \in {"gaugeIn", "full", "send", "gaugeOut"}

GaugeIn(r) ==
  /\ call[r].pc = "gaugeIn"
  /\ depth' = call[r].seen + 1
  /\ raced' = (raced \/ Overlapping(r))
  /\ SetCall(r, [call[r] EXCEPT !.pc = IF call[r].seen >= MaxInFlight
                                           THEN "full" ELSE "send"])
  /\ UNCHANGED <<inFlight, backlog, answered>>

(* Over capacity: the count is given back, the request is parked. *)
OverCapacity(r) ==
  /\ call[r].pc = "full"
  /\ inFlight' = inFlight - 1 /\ depth' = call[r].seen
  /\ SetCall(r, [pc |-> "park"])
  /\ UNCHANGED <<backlog, answered, raced>>

(* send_embed_request; an answer that comes too late is an error. *)
SendEmbedRequest(r) ==
  /\ call[r].pc = "send"
  /\ \E ok \in {TRUE, FALSE} :
       /\ ok => child = "up"
       /\ inFlight' = inFlight - 1
       /\ SetCall(r, [pc |-> "gaugeOut", ok |-> ok, after |-> inFlight - 1])
  /\ UNCHANGED <<backlog, depth, answered, raced>>

GaugeOut(r) ==
  /\ call[r].pc = "gaugeOut"
  /\ depth' = call[r].after
  /\ raced' = (raced \/ Overlapping(r))
  /\ IF call[r].ok
     THEN SetCall(r, [pc |-> "done"]) /\ answered' = answered \cup {r}
     ELSE SetCall(r, [pc |-> "park"]) /\ UNCHANGED answered
  /\ UNCHANGED <<inFlight, backlog>>

SetSup(m, pc) == /\ sup' = [sup EXCEPT ![m] = pc]
                 /\ UNCHANGED <<inFlight, depth, call, answered>>

Begins(m, pc) == /\ sup[m] = "idle" /\ ops < MaxOps /\ ops' = ops + 1
                 /\ SetSup(m, pc)
                 /\ UNCHANGED <<backlog, redone, raced, stopped, revived>>

(* start: nothing to do while a child is recorded, even one that exited. *)
Spawn(m, next) ==
  IF child # "none" THEN SetSup(m, "idle") /\ UNCHANGED <<scState, child>>
  ELSE child' = "loading" /\ scState' = "Healthy" /\ SetSup(m, next)

StartSidecar(m) ==
  /\ sup[m] = "idle" /\ ops < MaxOps /\ ops' = ops + 1
  /\ Spawn(m, "started")
  /\ revived' = (revived \/ stopped)
  /\ UNCHANGED <<missed, attempt, shutdown, status, backlog, redone, raced, stopped>>

StartCounters(m) ==
  /\ sup[m] = "started"
  /\ missed' = 0 /\ status' = 1 /\ attempt' = 0
  /\ SetSup(m, "idle")
  /\ UNCHANGED <<scState, child, shutdown, backlog, redone, ops, raced, stopped, revived>>

Stop(m) ==
  /\ Begins(m, "stopping")
  /\ shutdown' = TRUE
  /\ UNCHANGED <<scState, child, missed, attempt, status>>

StopChild(m) ==
  /\ sup[m] = "stopping"
  /\ child' = "none" /\ scState' = "Stopped"
  /\ SetSup(m, "idle")
  /\ stopped' = TRUE
  /\ revived' = (revived \/ \E o \in Supervisors : sup[o] \in {"kill", "backoff"})
  /\ UNCHANGED <<missed, attempt, shutdown, status, backlog, redone, ops, raced>>

(* restart: the shutdown check and the state, the kill, the sleep, start. *)
RestartSidecar(m) ==
  /\ ~shutdown
  /\ Begins(m, "kill")
  /\ scState' = "Restarting"
  /\ UNCHANGED <<child, missed, attempt, shutdown, status>>

RestartKill(m) ==
  /\ sup[m] = "kill"
  /\ child' = "none"
  /\ attempt' = IF attempt < BackoffSteps THEN attempt + 1 ELSE attempt
  /\ SetSup(m, "backoff")
  /\ UNCHANGED <<scState, missed, shutdown, status, backlog, redone, ops, raced, stopped, revived>>

RestartStart(m) ==
  /\ sup[m] = "backoff"
  /\ Spawn(m, "started")
  /\ UNCHANGED <<missed, attempt, shutdown, status, backlog, redone, ops, raced,
                 stopped, revived>>

RecordMissedHeartbeat(m) ==
  /\ Begins(m, IF missed + 1 >= 3 THEN "degrade" ELSE "idle")
  /\ missed' = missed + 1
  /\ UNCHANGED <<scState, child, attempt, shutdown, status>>

Degrade(m) ==
  /\ sup[m] = "degrade"
  /\ scState' = "Degraded" /\ status' = 0
  /\ SetSup(m, "idle")
  /\ UNCHANGED <<child, missed, attempt, shutdown, backlog, redone, ops, raced, stopped, revived>>

RecordHeartbeat(m) ==
  /\ Begins(m, IF scState = "Degraded" THEN "recover" ELSE "idle")
  /\ missed' = 0
  /\ status' = IF scState = "Degraded" THEN status ELSE 1
  /\ UNCHANGED <<scState, child, attempt, shutdown>>

Recover(m) ==
  /\ sup[m] = "recover"
  /\ scState' = "Healthy" /\ status' = 1
  /\ SetSup(m, "idle")
  /\ UNCHANGED <<child, missed, attempt, shutdown, backlog, redone, ops, raced, stopped, revived>>

(* drain_backlog: the lock is held across the sends. *)
DrainBegin(m) ==
  /\ BacklogFree
  /\ Begins(m, IF IsDegraded THEN "idle" ELSE "draining")
  /\ UNCHANGED manager

DrainSendEager(m) ==
  /\ sup[m] = "draining" /\ backlog # << >>
  /\ backlog' = Tail(backlog)
  /\ \/ child = "up" /\ redone' = redone \cup {Head(backlog)} /\ SetSup(m, "draining")
     \/ SetSup(m, "idle") /\ UNCHANGED redone
  /\ UNCHANGED <<manager, ops, raced, stopped, revived>>

DrainSend(m) ==
  /\ sup[m] = "draining" /\ backlog # << >>
  /\ \/ /\ child = "up"
        /\ backlog' = Tail(backlog)
        /\ redone' = redone \cup {Head(backlog)}
        /\ SetSup(m, "draining")
     \/ SetSup(m, "idle") /\ UNCHANGED <<backlog, redone>>
  /\ UNCHANGED <<manager, ops, raced, stopped, revived>>

DrainEnd(m) ==
  /\ sup[m] = "draining" /\ backlog = << >>
  /\ SetSup(m, "idle")
  /\ UNCHANGED <<manager, backlog, redone, ops, raced, stopped, revived>>

(* main.rs: the model is loaded and the socket bound, or the process exits. *)
ChildMoves ==
  /\ \/ child = "loading" /\ child' \in {"up", "exited"}
     \/ child = "up" /\ child' = "exited"
  /\ UNCHANGED <<scState, missed, attempt, inFlight, shutdown, backlog, depth, status,
                 call, sup, answered, redone, ops, raced, stopped, revived>>

ScNext ==
  \/ \E r \in Requests :
       \/ EmbedCheck(r) \/ AddToBacklog(r) \/ CountIn(r) \/ GaugeIn(r)
       \/ OverCapacity(r) \/ SendEmbedRequest(r) \/ GaugeOut(r)
  \/ \E m \in Supervisors :
       \/ StartSidecar(m) \/ StartCounters(m) \/ Stop(m) \/ StopChild(m)
       \/ RestartSidecar(m) \/ RestartKill(m) \/ RestartStart(m)
       \/ RecordMissedHeartbeat(m) \/ Degrade(m) \/ RecordHeartbeat(m) \/ Recover(m)
       \/ DrainBegin(m) \/ DrainSend(m) \/ DrainEnd(m)
  \/ ChildMoves

ScSpec == ScInit /\ [][ScNext]_scvars

(* The manager keeps track of what it started.  A request embed gave up   *)
(* on is in the backlog, once, until a drain has sent it, whatever the     *)
(* sidecar, the restarts and the other drains do in between (embed,        *)
(* add_to_backlog, drain_backlog).  The queue-depth gauge returns to zero  *)
(* with the last call, unless the gauge writes of two calls crossed.       *)
(* After stop no sidecar process runs, unless the caller starts it again   *)
(* or a restart that had passed its shutdown check is still in its backoff *)
(* sleep (stop, restart).                                                  *)
KeepsTrackUnlessRaced ==
  /\ IsInjective(backlog)
  /\ \A r \in Requests :
       call[r].pc = "done" =>
         \/ r \in answered
         \/ (r \in Range(backlog)) # (r \in redone)
  /\ (~raced /\ \A r \in Requests : call[r].pc \in {"new", "park", "done"})
       => depth = 0 /\ inFlight = 0
  /\ (stopped /\ ~revived) => child = "none"

=============================================================================
