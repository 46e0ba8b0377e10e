----------------------------- MODULE DeviceGate -----------------------------
(***************************************************************************)
(* Who may open an SDR device (src/app/main.py).  Every start request      *)
(* looks up the sessions of the four RX and TX managers, answers 409 when  *)
(* one of them occupies the device, and otherwise lets its manager start a *)
(* process, which is listed only once it runs.  replace_existing first     *)
(* stops the RX sessions of the device.  Nothing is locked in between.     *)
(* Two simplifications: the four dicts are read in one step, and an IQ     *)
(* sweep is a session with a process of its own, as start_iq_sweep makes.  *)
(***************************************************************************)
EXTENDS Integers, Sequences

CONSTANTS
    Devices,
    Requesters,     \* request threads of the web server
    Ids,            \* session ids; an id is free again once its session is gone
                    \* and no request names it
    ApexRuns,       \* missions of ApexHunterService.run start sweeps
    None

VARIABLES
    sessions,       \* id -> its manager (kind), its device, whether the
                    \* manager lists it and whether its process is open
    request,        \* requester -> what it does
    raced           \* history: requester -> another request dealt with its
                    \* device meanwhile, or it never asked the gate

state == <<sessions, request>>
vars == <<sessions, request, raced>>

Kinds == {"stream", "sweep", "iq_sweep", "tx"}
Session == [kind : Kinds, dev : Devices, listed : BOOLEAN, open : BOOLEAN]

\* Error: sweeps are not released.
RxManagersButSweep == <<"iq_sweep", "stream">>

\* The managers _release_rx_owners_for_device goes through.
RxManagers == <<"iq_sweep", "sweep", "stream">>

Idle == [pc |-> "idle", kind |-> None, dev |-> None, replace |-> FALSE,
         managers |-> <<>>, victims |-> {}, id |-> None]

Held == DOMAIN sessions

TypeOK ==
    /\ \E S \in SUBSET Ids : sessions \in [S -> Session]
    /\ request \in [Requesters ->
          [pc : {"idle", "release", "stop", "check", "open", "list"},
           kind : Kinds \cup {None}, dev : Devices \cup {None}, replace : BOOLEAN,
           managers : {SubSeq(RxManagers, i, Len(RxManagers)) : i \in 1 .. 4},
           victims : SUBSET Ids, id : Ids \cup {None}]]
    /\ raced \in [Requesters -> BOOLEAN]
    /\ \A q \in Requesters : request[q].pc = "list" =>
          request[q].id \in Held /\ ~sessions[request[q].id].listed

Init ==
    /\ sessions = [i \in {} |-> None]
    /\ request = [q \in Requesters |-> Idle]
    /\ raced = [q \in Requesters |-> FALSE]

Listed(kind) == {i \in Held : sessions[i].kind = kind /\ sessions[i].listed}

Goto(q, pc) == request' = [request EXCEPT ![q].pc = pc]
Return(q) == request' = [request EXCEPT ![q] = Idle]

-----------------------------------------------------------------------------
(* _device_occupancy                                                       *)

\* Error: IQ sweeps are forgotten.
OccupyingButIQ(i) ==
    \/ sessions[i].listed /\ sessions[i].kind \in {"stream", "sweep"}
    \/ sessions[i].listed /\ sessions[i].kind = "tx" /\ sessions[i].open

\* A listed RX session occupies its device whatever its status, a TX session
\* while poll() says that it still runs.
Occupying(i) ==
    \/ sessions[i].listed /\ sessions[i].kind # "tx"
    \/ sessions[i].listed /\ sessions[i].kind = "tx" /\ sessions[i].open

Occupied(dev) == \E i \in Held : sessions[i].dev = dev /\ Occupying(i)

-----------------------------------------------------------------------------
(* The start routes                                                        *)

Start(q, kind, dev, replace) ==
    /\ request[q].pc = "idle"
    /\ replace => kind = "stream"
    /\ request' = [request EXCEPT ![q] =
          [Idle EXCEPT !.pc = IF replace THEN "release" ELSE "check", !.kind = kind, !.dev = dev,
                       !.replace = replace, !.managers = IF replace THEN RxManagers ELSE <<>>]]
    /\ UNCHANGED sessions

\* ApexHunterService.run calls sweep_manager.start without the gate.
ApexStart(q, dev) ==
    /\ ApexRuns /\ request[q].pc = "idle"
    /\ request' = [request EXCEPT ![q] = [Idle EXCEPT !.pc = "open", !.kind = "sweep", !.dev = dev]]
    /\ UNCHANGED sessions

\* The sessions of the next manager that _release_rx_owners_for_device stops.
Victims(q) == {i \in Listed(Head(request[q].managers)) : sessions[i].dev = request[q].dev}

ReleaseNext(q) ==
    /\ request[q].pc = "release" /\ request[q].victims = {} /\ request[q].managers # <<>>
    /\ request' = [request EXCEPT ![q].victims = Victims(q), ![q].managers = Tail(@)]
    /\ UNCHANGED sessions

ReleaseDone(q) ==
    /\ request[q].pc = "release" /\ request[q].victims = {} /\ request[q].managers = <<>>
    /\ Goto(q, "check")
    /\ UNCHANGED sessions

\* Error: the request waits until the device is free.
RefuseWaits(q) == FALSE

\* _ensure_device_available
Refuse(q) ==
    /\ request[q].pc = "check" /\ Occupied(request[q].dev)
    /\ Return(q)
    /\ UNCHANGED sessions

Admit(q) ==
    /\ request[q].pc = "check" /\ ~Occupied(request[q].dev)
    /\ Goto(q, "open")
    /\ UNCHANGED sessions

Named == UNION {request[q].victims \cup {request[q].id} : q \in Requesters}

\* The manager's start: the process, then the entry in its dict.
Open(q) ==
    /\ request[q].pc = "open"
    /\ \E i \in Ids \ (Held \cup Named) :
          /\ sessions' = [x \in Held \cup {i} |->
                IF x = i THEN [kind |-> request[q].kind, dev |-> request[q].dev,
                               listed |-> FALSE, open |-> TRUE]
                         ELSE sessions[x]]
          /\ request' = [request EXCEPT ![q].pc = "list", ![q].id = i]

OpenFails(q) ==
    /\ request[q].pc = "open"
    /\ Return(q)
    /\ UNCHANGED sessions

List(q) ==
    /\ request[q].pc = "list"
    /\ sessions' = [sessions EXCEPT ![request[q].id].listed = TRUE]
    /\ Return(q)

-----------------------------------------------------------------------------
(* The stop of a session, by a stop route or a release.  StreamManager and *)
(* IQSweepManager take the session out of their dict before its process    *)
(* ends, SweepManager and TxManager after.                                 *)

PopsFirst(i) == sessions[i].kind \in {"stream", "iq_sweep"}
Unlisted(i) == [sessions[i] EXCEPT !.listed = FALSE]
Closed(i) == [sessions[i] EXCEPT !.open = FALSE]

StopBegins(q, i) ==
    /\ \/ request[q].pc = "idle"
       \/ request[q].pc = "release" /\ i \in request[q].victims
    /\ i \in Held /\ sessions[i].listed
    /\ sessions' = [sessions EXCEPT ![i] = IF PopsFirst(i) THEN Unlisted(i) ELSE Closed(i)]
    /\ request' = [request EXCEPT ![q].pc = "stop", ![q].victims = @ \ {i}, ![q].id = i,
                                   ![q].dev = IF request[q].replace THEN @ ELSE sessions[i].dev]

\* The victim was stopped by somebody else: the KeyError is logged.
StopMissed(q) ==
    /\ request[q].pc = "release"
    /\ \E i \in request[q].victims :
          /\ i \in Held => ~sessions[i].listed
          /\ request' = [request EXCEPT ![q].victims = @ \ {i}]
    /\ UNCHANGED sessions

StopEnds(q) ==
    /\ request[q].pc = "stop"
    /\ sessions' = [x \in Held \ {request[q].id} |-> sessions[x]]
    /\ request' = [request EXCEPT ![q] = IF request[q].replace
                                           THEN [@ EXCEPT !.pc = "release", !.id = None]
                                           ELSE Idle]

\* A process ends by itself; a session leaves its manager only by a stop.
Exit(i) ==
    /\ sessions[i].open
    /\ sessions' = [sessions EXCEPT ![i] = Closed(i)]
    /\ UNCHANGED request

-----------------------------------------------------------------------------
Step(q) ==
    \/ ReleaseNext(q) \/ ReleaseDone(q) \/ StopMissed(q) \/ StopEnds(q)
    \/ Refuse(q) \/ Admit(q) \/ Open(q) \/ OpenFails(q) \/ List(q)
    \/ request[q].pc = "release" /\ \E i \in Ids : StopBegins(q, i)

Move ==
    \/ \E q \in Requesters :
          \/ \E kind \in Kinds, dev \in Devices, replace \in BOOLEAN : Start(q, kind, dev, replace)
          \/ \E dev \in Devices : ApexStart(q, dev)
          \/ request[q].pc = "idle" /\ \E i \in Ids : StopBegins(q, i)
          \/ Step(q)
    \/ \E i \in Held : Exit(i)

Contended(q) == \E r \in Requesters \ {q} : request[r].pc # "idle" /\ request[r].dev = request[q].dev

Next ==
    /\ Move
    /\ raced' = [q \in Requesters |->
          /\ request'[q].pc # "idle"
          /\ \/ raced[q] \/ Contended(q)'
             \/ request[q].pc = "idle" /\ request'[q].pc = "open"]

Spec == Init /\ [][Next]_vars
FairSpec == Spec /\ \A q \in Requesters : WF_state(Step(q))

-----------------------------------------------------------------------------
(* Properties                                                              *)

\* A device is opened by one session at a time: a start on a device in use is
\* answered 409 (the "already in use" example of ERROR_RESPONSES).  A device is
\* opened a second time only by a mission, which does not ask, or by a request
\* that was not alone with it between its first and its last step.
ExclusiveUnlessRaced ==
    [][\A q \in Requesters :
          (request[q].pc = "open" /\ request'[q].pc = "list" /\ ~raced[q])
              => \A i \in Held : sessions[i].open => sessions[i].dev # request[q].dev]_vars

\* A request that is alone with its device and replaces its owner is refused by
\* nothing but a transmission: every receiver of the device, of whichever
\* manager, is out of the way by then.
ReplaceRefusedOnlyByTx ==
    \A q \in Requesters :
        (request[q].pc = "check" /\ request[q].replace /\ Occupied(request[q].dev) /\ ~raced[q])
            => \E i \in Listed("tx") : sessions[i].dev = request[q].dev /\ sessions[i].open

Safe == TypeOK /\ ReplaceRefusedOnlyByTx

\* Every start or stop request is answered.
RequestsAnswered == \A q \in Requesters : (request[q].pc # "idle") ~> (request[q].pc = "idle")
=============================================================================
