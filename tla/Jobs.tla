------------------------------- MODULE Jobs -------------------------------
(***************************************************************************)
(* TX bursts, power sweeps and missions: TxManager and SweepManager of     *)
(* src/app/services.py with the processes their backends start, the burst  *)
(* file a backend writes for the process, the collector thread that keeps  *)
(* the newest rows of a sweep, and ApexHunterService.run, which goes       *)
(* through the actions of its plan (src/app/apex_hunter.py).               *)
(*                                                                         *)
(* Requests run in threads of the web server and no lock is taken, so they *)
(* interleave at every blocking call and between the lookup of a session   *)
(* and its removal.  A job is a number; its record also holds what belongs *)
(* to its process.  Who may open a device is left to DeviceGate.           *)
(***************************************************************************)
EXTENDS Integers, Sequences, SequencesExt, FiniteSets

CONSTANTS
    Clients,        \* request threads
    Workers,        \* TX workers used, among "hackrf", "libiio", "soapy"
    Plans,          \* the action lists of missions: sequences over Targets
    MaxJobs,        \* bound on the jobs ever started
    Window,         \* samples a session keeps
    Capacity,       \* rows that fit in the pipe of a sweep
    MaxRows,        \* job -> bound on the well-formed rows of a sweep
    Samples,        \* pieces of a burst
    None

\* The action of a plan: a sweep of a device that run() sweeps, a sweep of
\* another device, which it skips, or a call of an external API.
Targets == {"swept", "unswept", "api"}

\* A session with its process: left of its burst is still to be sent, rows were
\* printed so far, out is in the pipe.
Job == [kind : {"tx", "sweep"}, worker : Workers \cup {None}, listed : BOOLEAN,
        status : {"running", "completed", "failed", "stopped"},
        proc : {"none", "live", "ok", "failed"}, file : BOOLEAN, stop : BOOLEAN,
        left : 0 .. Samples, rows : Nat, out : Seq(Nat), window : Seq(Nat)]

Mission == [status : {"planned", "running", "degraded"}, actions : Plans, next : Nat,
            failures : Nat, started : Nat, skipped : Nat]

ASSUME JobsAssumption ==
    /\ Workers \subseteq {"hackrf", "libiio", "soapy"}
    /\ Plans \subseteq Seq(Targets)
    /\ MaxJobs \in Nat /\ Window \in Nat \ {0} /\ Capacity \in Nat \ {0}
    /\ MaxRows \in [1 .. MaxJobs -> Nat] /\ Samples \in Nat
    /\ None \notin Int /\ None \notin Mission

VARIABLES
    job,            \* the sessions started so far, with their processes
    collector,      \* sweep -> where its collector thread is
    mission,        \* the record of the one mission, or None
    client          \* request thread -> where it is and its local variables

vars == <<job, collector, mission, client>>

Jobs == DOMAIN job
Newest == Cardinality(Jobs) + 1
Ended(i) == job[i].proc \in {"ok", "failed"}
Listed == {i \in Jobs : job[i].listed}
Bursts == {i \in Jobs : job[i].kind = "tx"}

\* The request of a thread: the job it starts or stops, the bursts its list has
\* still to refresh and how many there were, and whether it is the mission's.
Request == [pc : {"idle", "spawn", "register", "collect", "end", "delete", "refresh", "act"},
            id : (1 .. MaxJobs) \cup {None}, todo : SUBSET (1 .. MaxJobs),
            size : 0 .. MaxJobs, mission : BOOLEAN]

Idle == [pc |-> "idle", id |-> None, todo |-> {}, size |-> 0, mission |-> FALSE]

TypeOK ==
    /\ job \in Seq(Job) /\ Len(job) <= MaxJobs
    /\ \A i \in Jobs :
          /\ job[i].listed => job[i].proc # "none"
          /\ job[i].rows <= MaxRows[i] /\ Len(job[i].out) <= Capacity
    /\ collector \in [1 .. MaxJobs -> {"none", "top", "readline", "ended"}]
    /\ mission \in Mission \cup {None}
    /\ client \in [Clients -> Request]

Init ==
    /\ job = <<>>
    /\ collector = [i \in 1 .. MaxJobs |-> "none"]
    /\ mission = None
    /\ client = [c \in Clients |-> Idle]

Goto(c, pc) == client' = [client EXCEPT ![c].pc = pc]

\* The request returns; a start made by a mission returns to the mission.
Return(c) == client' = [client EXCEPT ![c] = IF @.mission THEN [@ EXCEPT !.pc = "act", !.id = None]
                                             ELSE Idle]

-----------------------------------------------------------------------------
(* TxManager.start and SweepManager.start                                  *)

NewJob(kind, worker) ==
    [kind |-> kind, worker |-> worker, listed |-> FALSE, status |-> "running", proc |-> "none",
     file |-> (kind = "tx"), stop |-> FALSE, left |-> IF kind = "tx" THEN Samples ELSE 0,
     rows |-> 0, out |-> <<>>, window |-> <<>>]

Start(c, kind, worker) ==
    /\ Newest <= MaxJobs
    /\ job' = Append(job, NewJob(kind, worker))
    /\ client' = [client EXCEPT ![c].pc = "spawn", ![c].id = Newest]

\* The request is valid, the payload is decoded and written to a file.
StartTx(c, worker) ==
    /\ client[c].pc = "idle"
    /\ Start(c, "tx", worker)
    /\ UNCHANGED <<collector, mission>>

StartSweep(c) ==
    /\ client[c].pc = "idle"
    /\ Start(c, "sweep", None)
    /\ UNCHANGED <<collector, mission>>

Spawn(c) ==
    /\ client[c].pc = "spawn"
    /\ job' = [job EXCEPT ![client[c].id].proc = "live"]
    /\ Goto(c, "register")
    /\ UNCHANGED <<collector, mission>>

\* Error: an action that succeeds forgives the ones before it.
FailuresOfLast(failures, failed) == IF failed THEN failures + 1 ELSE 0

Failures(failures, failed) == IF failed THEN failures + 1 ELSE failures

\* The file cannot be written, in which case only the libiio backend removes
\* it, or the process cannot be started; a sweep is refused by its backend.
StartFails(c) ==
    LET i == client[c].id IN
    /\ client[c].pc = "spawn"
    /\ \/ UNCHANGED job
       \/ job[i].worker = "libiio" /\ job' = [job EXCEPT ![i].file = FALSE]
    /\ Return(c)
    /\ mission' = IF client[c].mission THEN [mission EXCEPT !.failures = Failures(@, TRUE)]
                                       ELSE mission
    /\ UNCHANGED collector

Register(c) ==
    LET i == client[c].id IN
    /\ client[c].pc = "register"
    /\ job' = [job EXCEPT ![i].listed = TRUE]
    /\ IF job[i].kind = "sweep" THEN Goto(c, "collect") ELSE Return(c)
    /\ UNCHANGED <<collector, mission>>

StartCollector(c) ==
    /\ client[c].pc = "collect"
    /\ collector' = [collector EXCEPT ![client[c].id] = "top"]
    /\ Return(c)
    /\ mission' = IF client[c].mission THEN [mission EXCEPT !.failures = Failures(@, FALSE),
                                                            !.started = @ + 1]
                                       ELSE mission
    /\ UNCHANGED job

-----------------------------------------------------------------------------
(* stop of both managers, with stop_tx_burst and stop_sweep                *)

Stop(c, i) ==
    /\ client[c].pc = "idle" /\ i \in Listed
    /\ job' = [job EXCEPT ![i].stop = (job[i].kind = "sweep")]
    /\ client' = [client EXCEPT ![c].pc = "end", ![c].id = i]
    /\ UNCHANGED <<collector, mission>>

\* Error: the file of a burst that is over is left where it is.
EndLive(i) ==
    IF job[i].proc = "live" THEN {[job[i] EXCEPT !.proc = "failed", !.file = FALSE]} ELSE {job[i]}

\* Terminated, killed after 3 s, and in any case without its file.
End(i) ==
    {[job[i] EXCEPT !.proc = IF @ = "live" THEN code ELSE @, !.file = FALSE] :
        code \in {"ok", "failed"}}

EndProcess(c) ==
    /\ client[c].pc = "end"
    /\ \E ended \in End(client[c].id) : job' = [job EXCEPT ![client[c].id] = ended]
    /\ Goto(c, "delete")
    /\ UNCHANGED <<collector, mission>>

\* The second of two stops finds the key gone (KeyError).
Delete(c) ==
    /\ client[c].pc = "delete"
    /\ job' = [job EXCEPT ![client[c].id].status = "stopped", ![client[c].id].listed = FALSE]
    /\ Return(c)
    /\ UNCHANGED <<collector, mission>>

-----------------------------------------------------------------------------
(* TxManager.list_states                                                   *)

List(c) ==
    /\ client[c].pc = "idle"
    /\ client' = [client EXCEPT ![c].pc = "refresh", ![c].todo = Listed \cap Bursts,
                                ![c].size = Cardinality(Listed \cap Bursts)]
    /\ UNCHANGED <<job, collector, mission>>

Refresh(c) ==
    /\ client[c].pc = "refresh"
    /\ Cardinality(Listed \cap Bursts) = client[c].size
    /\ \E i \in client[c].todo :
          /\ job' = IF job[i].status = "running" /\ Ended(i)
                    THEN [job EXCEPT ![i].status = IF job[i].proc = "ok" THEN "completed"
                                                   ELSE "failed"]
                    ELSE job
          /\ client' = [client EXCEPT ![c].todo = @ \ {i}]
    /\ UNCHANGED <<collector, mission>>

\* All are seen, or the dict has changed its size under the iterator.
RefreshEnds(c) ==
    /\ client[c].pc = "refresh"
    /\ client[c].todo = {} \/ Cardinality(Listed \cap Bursts) # client[c].size
    /\ Return(c)
    /\ UNCHANGED <<job, collector, mission>>

-----------------------------------------------------------------------------
(* ApexHunterService.run                                                   *)

Run(c, plan) ==
    /\ client[c].pc = "idle" /\ mission = None
    /\ mission' = [status |-> "planned", actions |-> plan, next |-> 1, failures |-> 0, started |-> 0,
                   skipped |-> 0]
    /\ client' = [client EXCEPT ![c] = [Idle EXCEPT !.pc = "act", !.mission = TRUE]]
    /\ UNCHANGED <<job, collector>>

Acting(c) == client[c].pc = "act" /\ mission.next <= Len(mission.actions)

ActSweep(c) ==
    /\ Acting(c) /\ mission.actions[mission.next] = "swept"
    /\ Start(c, "sweep", None)
    /\ mission' = [mission EXCEPT !.next = @ + 1]
    /\ UNCHANGED collector

\* A start_sweep of a device of another driver (antsdr, sdrplay, mock) is noted
\* and skipped, and is no failure.
ActSkip(c) ==
    /\ Acting(c) /\ mission.actions[mission.next] = "unswept"
    /\ mission' = [mission EXCEPT !.next = @ + 1, !.skipped = @ + 1]
    /\ UNCHANGED <<job, collector, client>>

\* call_external_api is only noted.
ActQueue(c) ==
    /\ Acting(c) /\ mission.actions[mission.next] = "api"
    /\ mission' = [mission EXCEPT !.next = @ + 1]
    /\ UNCHANGED <<job, collector, client>>

Conclude(c) ==
    /\ client[c].pc = "act" /\ ~Acting(c)
    /\ mission' = [mission EXCEPT !.status = IF mission.failures > 0 THEN "degraded" ELSE "running"]
    /\ client' = [client EXCEPT ![c] = Idle]
    /\ UNCHANGED <<job, collector>>

-----------------------------------------------------------------------------
(* The processes                                                           *)

Exit(i, code) == job' = [job EXCEPT ![i].proc = code] /\ UNCHANGED <<collector, mission, client>>

\* writeStream takes some samples, or none in time.
Transmit(i) ==
    /\ i \in Bursts /\ job[i].proc = "live" /\ job[i].left > 0
    /\ job' = [job EXCEPT ![i].left = @ - 1]
    /\ UNCHANGED <<collector, mission, client>>

\* hackrf_transfer ends with its file, libiio_worker when its seconds are
\* over, soapy_worker with the first of the two.
Over(i) == job[i].left = 0 \/ job[i].worker # "hackrf"

BurstOver(i) == i \in Bursts /\ job[i].proc = "live" /\ Over(i) /\ Exit(i, "ok")

ProcessFails(i) == i \in Jobs /\ job[i].proc = "live" /\ Exit(i, "failed")

\* A stream that finds its HackRF busy ends every hackrf_transfer that the
\* gateway has started (_terminate_child_hackrf_transfers).
BusyStreamStart ==
    LET killed == {i \in Bursts : job[i].worker = "hackrf" /\ job[i].proc = "live"} IN
    /\ killed # {}
    /\ job' = [i \in Jobs |-> IF i \in killed THEN [job[i] EXCEPT !.proc = "failed"] ELSE job[i]]
    /\ UNCHANGED <<collector, mission, client>>

\* A sweep prints a row; row 0 is one that _parse_sweep_line does not accept.
PrintRow(i) ==
    /\ i \in Jobs \ Bursts /\ job[i].proc = "live" /\ Len(job[i].out) < Capacity
    /\ job[i].rows < MaxRows[i]
    /\ \/ job' = [job EXCEPT ![i].out = Append(@, 0)]
       \/ job' = [job EXCEPT ![i].rows = @ + 1, ![i].out = Append(@, job[i].rows + 1)]
    /\ UNCHANGED <<collector, mission, client>>

-----------------------------------------------------------------------------
(* SweepManager._collect_sweep_output                                      *)

CollectTop(i) ==
    /\ collector[i] = "top"
    /\ collector' = [collector EXCEPT ![i] = IF job[i].stop THEN "ended" ELSE "readline"]
    /\ UNCHANGED <<job, mission, client>>

\* Error: a full window takes no more rows.
KeptOldest(window, row) == IF Len(window) = Window THEN window ELSE Append(window, row)

\* deque(maxlen=200).append
Kept(window, row) == Append(IF Len(window) = Window THEN Tail(window) ELSE window, row)

CollectRow(i) ==
    /\ collector[i] = "readline" /\ job[i].out # <<>>
    /\ job' = [job EXCEPT ![i].out = Tail(@),
                          ![i].window = IF Head(job[i].out) = 0 THEN @ ELSE Kept(@, Head(job[i].out))]
    /\ collector' = [collector EXCEPT ![i] = "top"]
    /\ UNCHANGED <<mission, client>>

\* Error: only a stop ends the thread.
CollectEndStopped(i) ==
    /\ collector[i] = "readline" /\ job[i].out = <<>> /\ Ended(i) /\ job[i].stop
    /\ collector' = [collector EXCEPT ![i] = "ended"]
    /\ UNCHANGED <<job, mission, client>>

\* readline() returns nothing and poll() shows the exit.
CollectEnd(i) ==
    /\ collector[i] = "readline" /\ job[i].out = <<>> /\ Ended(i)
    /\ collector' = [collector EXCEPT ![i] = "ended"]
    /\ UNCHANGED <<job, mission, client>>

-----------------------------------------------------------------------------
Collect(i) == CollectTop(i) \/ CollectRow(i) \/ CollectEnd(i)
Work(i) == Transmit(i) \/ BurstOver(i)
RequestStep(c) ==
    \/ Spawn(c) \/ StartFails(c) \/ Register(c) \/ StartCollector(c)
    \/ EndProcess(c) \/ Delete(c) \/ Refresh(c) \/ RefreshEnds(c)
    \/ ActSweep(c) \/ ActSkip(c) \/ ActQueue(c) \/ Conclude(c)
Next ==
    \/ \E c \in Clients :
          \/ \E w \in Workers : StartTx(c, w)
          \/ StartSweep(c) \/ List(c)
          \/ \E i \in Jobs : Stop(c, i)
          \/ \E plan \in Plans : Run(c, plan)
          \/ RequestStep(c)
    \/ BusyStreamStart
    \/ \E i \in Jobs : Work(i) \/ ProcessFails(i) \/ PrintRow(i) \/ Collect(i)

Spec == Init /\ [][Next]_vars

\* The collector threads are scheduled, and a stop that has begun ends its
\* process.
FairSpec ==
    /\ Spec
    /\ \A i \in 1 .. MaxJobs : WF_vars(i \in Jobs /\ Collect(i))
    /\ WF_vars(\E c \in Clients : EndProcess(c))

-----------------------------------------------------------------------------
(* Properties                                                              *)

\* A job that no manager lists, and that no request is starting or stopping,
\* has neither a live process nor a burst file; only a burst that could not
\* be started leaves its file behind.
Handled(i) == job[i].listed \/ \E c \in Clients : client[c].id = i
NothingLeftBehind ==
    \A i \in Jobs : ~Handled(i) => job[i].proc # "live" /\ (job[i].file => job[i].proc = "none")

\* The samples of a sweep are the newest rows read from its process, as many
\* as it keeps, without a gap and in their order, and the rows that come next
\* are still in the pipe, whatever malformed rows lie between them.
NewestOf(window, read) ==
    /\ Len(window) = IF read < Window THEN read ELSE Window
    /\ \A k \in 1 .. Len(window) : window[k] = read - Len(window) + k

Unread(out, read, rows) ==
    /\ Range(out) \ {0} = read + 1 .. rows
    /\ \A k, l \in DOMAIN out : k < l /\ out[l] # 0 => out[k] < out[l]

WindowIsNewest ==
    \A i \in Jobs \ Bursts : \E read \in 0 .. job[i].rows :
        NewestOf(job[i].window, read) /\ Unread(job[i].out, read, job[i].rows)

\* The status of a mission tells whether a sweep it tried to start failed, and
\* no more: "running" means that each sweep of its plan was started, or was
\* skipped for its driver, so that a mission whose sweeps were all skipped is
\* "running" with nothing started.
Sweeps(actions, n) == Cardinality({k \in 1 .. n : actions[k] # "api"})
MissionTold ==
    mission # None /\ mission.status # "planned" =>
        (mission.status = "running"
            <=> mission.started + mission.skipped = Sweeps(mission.actions, Len(mission.actions)))

Safe == TypeOK /\ MissionTold

\* The collector of a sweep ends after a stop and after an exit of the process.
CollectorsEnd ==
    \A i \in 1 .. MaxJobs :
        (i \in Jobs /\ collector[i] # "none" /\ (job[i].stop \/ Ended(i))) ~> collector[i] = "ended"
=============================================================================
