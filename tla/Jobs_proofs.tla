---------------------------- MODULE Jobs_proofs ----------------------------
(***************************************************************************)
(* Proofs about TX bursts, sweeps and missions (Jobs), and about the       *)
(* frequencies they are given (FrequencyPlans): for every set of clients,  *)
(* plan of a mission, window, pipe and bound on the jobs.                  *)
(***************************************************************************)
EXTENDS Jobs, FrequencyPlans, FiniteSetTheorems, SequenceTheorems, TLAPS

-----------------------------------------------------------------------------
(* The invariant of jobs and requests                                      *)

Starting(c) == client[c].pc \in {"spawn", "register"}
AtRest(j) == j.proc # "live" /\ (j.file => j.proc = "none")

\* What a request knows of the job it works on: one that starts a job is the
\* only one to see it until it is listed, one that has ended a process finds it
\* ended for good, even when others stop the same job.
Knows(r) ==
    /\ r.pc \in {"spawn", "register", "collect", "end", "delete"} => r.id \in Jobs
    /\ r.pc = "spawn" => job[r.id].proc = "none" /\ ~job[r.id].listed
    /\ r.pc = "register" => job[r.id].proc # "none" /\ ~job[r.id].listed
    /\ r.pc \in {"end", "delete"} => job[r.id].proc # "none"
    /\ r.pc = "delete" => job[r.id].proc # "live" /\ ~job[r.id].file
ClientsKnow == \A c \in Clients : Knows(client[c])

StartsApart ==
    \A c, d \in Clients : Starting(c) /\ Starting(d) /\ c # d => client[c].id # client[d].id

Accounted ==
    \A i \in Jobs : job[i].listed \/ AtRest(job[i])
                        \/ \E c \in Clients : Starting(c) /\ client[c].id = i

\* A mission has one thread, which works on a sweep or goes through its plan.
Pending == \E c \in Clients : client[c].mission /\ client[c].pc # "act"
OneMission ==
    /\ \A c, d \in Clients : client[c].mission /\ client[d].mission => c = d
    /\ \A c \in Clients :
          /\ client[c].mission =>
                /\ mission # None /\ mission.status = "planned"
                /\ client[c].pc \in {"spawn", "register", "collect", "act"}
                /\ client[c].pc \in {"spawn", "register", "collect"} => job[client[c].id].kind = "sweep"
          /\ client[c].pc = "act" => client[c].mission

\* Every sweep of the plan so far was started, was skipped, or failed, or is under
\* way.
PlanCounted ==
    mission # None =>
        /\ mission.next \in 1 .. Len(mission.actions) + 1
        /\ mission.started + mission.skipped + mission.failures + (IF Pending THEN 1 ELSE 0)
               = Sweeps(mission.actions, mission.next - 1)
        /\ mission.status # "planned" =>
               /\ mission.next = Len(mission.actions) + 1
               /\ mission.status = "running" <=> mission.failures = 0

JobsInv == TypeOK /\ ClientsKnow /\ StartsApart /\ Accounted /\ OneMission

-----------------------------------------------------------------------------
(* Steps on jobs and on requests                                           *)

Fits(i, j) == (j.listed => j.proc # "none") /\ j.rows <= MaxRows[i] /\ Len(j.out) <= Capacity

LEMMA JobsTyped ==
    ASSUME TypeOK
    PROVE  /\ job \in Seq(Job) /\ Jobs = 1 .. Len(job) /\ Len(job) \in Nat /\ Len(job) <= MaxJobs
           /\ \A i \in Jobs : job[i] \in Job /\ Fits(i, job[i]) /\ i \in 1 .. MaxJobs
           /\ client \in [Clients -> Request] /\ \A c \in Clients : client[c] \in Request
           /\ MaxJobs \in Nat /\ Newest = Len(job) + 1
<1>1. job \in Seq(Job) /\ Len(job) \in Nat /\ Len(job) <= MaxJobs /\ Jobs = 1 .. Len(job)
  BY DEF TypeOK, Jobs
<1>2. Cardinality(1 .. Len(job)) = Len(job)
  BY <1>1, FS_Interval
<1>3. MaxJobs \in Nat  BY JobsAssumption
<1>4. \A i \in Jobs : job[i] \in Job /\ Fits(i, job[i]) /\ i \in 1 .. MaxJobs
  BY <1>1, <1>3 DEF TypeOK, Fits
<1>5. client \in [Clients -> Request]  BY DEF TypeOK
<1> QED  BY <1>1, <1>2, <1>3, <1>4, <1>5 DEF Newest

\* One job changes.
LEMMA OneJob ==
    ASSUME TypeOK, NEW i \in Jobs, NEW new \in Job, Fits(i, new), job' = [job EXCEPT ![i] = new]
    PROVE  /\ job' \in Seq(Job) /\ Len(job') = Len(job) /\ Jobs' = Jobs
           /\ job'[i] = new /\ \A j \in Jobs : j # i => job'[j] = job[j]
           /\ \A j \in Jobs : Fits(j, job'[j])
<1>1. job \in Seq(Job) /\ Jobs = 1 .. Len(job) /\ \A j \in Jobs : Fits(j, job[j])
  BY JobsTyped
<1>2. /\ job' \in Seq(Job) /\ Len(job') = Len(job)
      /\ \A j \in 1 .. Len(job) : job'[j] = IF j = i THEN new ELSE job[j]
  BY <1>1, ExceptSeq
<1>3. Jobs' = Jobs  BY <1>1, <1>2 DEF Jobs
<1> QED  BY <1>1, <1>2, <1>3

\* The jobs of a typed state, by what a step leaves.
LEMMA TypedAgain ==
    ASSUME job' \in Seq(Job), Len(job') <= MaxJobs, \A j \in 1 .. Len(job') : Fits(j, job'[j]),
           collector' \in [1 .. MaxJobs -> {"none", "top", "readline", "ended"}],
           mission' \in Mission \cup {None}, client' \in [Clients -> Request]
    PROVE  TypeOK'
<1>1. Jobs' = 1 .. Len(job')  BY DEF Jobs
<1> QED  BY <1>1 DEF TypeOK, Fits

\* The life of a job goes on: none is started, its file may only go.
Continues(old, new) ==
    /\ new.listed = old.listed /\ new.kind = old.kind
    /\ new.proc = "none" <=> old.proc = "none"
    /\ old.proc # "live" => new.proc # "live"
    /\ new.file => old.file

\* A step in which no job is started, listed or taken off the list, and no
\* request gets hold of a job.
LEMMA QuietStep ==
    ASSUME JobsInv, TypeOK', Jobs' = Jobs,
           \A j \in Jobs : Continues(job[j], job'[j]),
           \A c \in Clients :
              \/ client'[c].pc = client[c].pc /\ client'[c].id = client[c].id
              \/ client'[c].pc \in {"idle", "refresh", "act"} /\ ~Starting(c)
    PROVE  ClientsKnow' /\ StartsApart' /\ Accounted'
<1>1. ClientsKnow'
  <2> SUFFICES ASSUME NEW c \in Clients PROVE Knows(client[c])'
    BY DEF ClientsKnow
  <2>1. CASE client'[c].pc = client[c].pc /\ client'[c].id = client[c].id
    <3>1. Knows(client[c])  BY DEF JobsInv, ClientsKnow
    <3> QED  BY <3>1, <2>1 DEF Knows, Continues
  <2>2. CASE client'[c].pc \in {"idle", "refresh", "act"}
    BY <2>2 DEF Knows
  <2> QED  BY <2>1, <2>2
<1>2. \A c \in Clients : Starting(c)' <=> Starting(c)
  BY DEF Starting
<1>3. \A c \in Clients : Starting(c) => client'[c].id = client[c].id
  OBVIOUS
<1>4. StartsApart'
  BY <1>2, <1>3 DEF JobsInv, StartsApart
<1>5. Accounted'
  <2> SUFFICES ASSUME NEW i \in Jobs
               PROVE  job'[i].listed \/ AtRest(job'[i])
                        \/ \E c \in Clients : Starting(c)' /\ client'[c].id = i
    BY DEF Accounted
  <2>1. job[i].listed \/ AtRest(job[i]) \/ \E c \in Clients : Starting(c) /\ client[c].id = i
    BY DEF JobsInv, Accounted
  <2>2. CASE job[i].listed  BY <2>2 DEF Continues
  <2>3. CASE AtRest(job[i])  BY <2>3 DEF Continues, AtRest
  <2>4. CASE \E c \in Clients : Starting(c) /\ client[c].id = i  BY <2>4, <1>2, <1>3
  <2> QED  BY <2>1, <2>2, <2>3, <2>4
<1> QED  BY <1>1, <1>4, <1>5

\* What Return does to the requests.
LEMMA Returned ==
    ASSUME TypeOK, NEW c \in Clients, Return(c)
    PROVE  /\ client' \in [Clients -> Request]
           /\ client'[c].mission = client[c].mission
           /\ client'[c].pc = IF client[c].mission THEN "act" ELSE "idle"
           /\ \A d \in Clients : d # c => client'[d] = client[d]
<1>1. client \in [Clients -> Request] /\ client[c] \in Request /\ MaxJobs \in Nat  BY JobsTyped
<1>2. Idle \in Request  BY <1>1 DEF Idle, Request
<1>3. [client[c] EXCEPT !.pc = "act", !.id = None] \in Request  BY <1>1 DEF Request
<1>4. client' = [client EXCEPT ![c] = IF client[c].mission
                                      THEN [client[c] EXCEPT !.pc = "act", !.id = None] ELSE Idle]
  BY DEF Return
<1>5. CASE client[c].mission
  <2>1. client' = [client EXCEPT ![c] = [client[c] EXCEPT !.pc = "act", !.id = None]]
    BY <1>4, <1>5
  <2> QED  BY <2>1, <1>1, <1>3, <1>5 DEF Request
<1>6. CASE ~client[c].mission
  <2>1. client' = [client EXCEPT ![c] = Idle]  BY <1>4, <1>6
  <2>2. client'[c] = Idle /\ client' \in [Clients -> Request]
        /\ \A d \in Clients : d # c => client'[d] = client[d]
    BY <2>1, <1>1, <1>2
  <2>3. client[c].mission = FALSE  BY <1>1, <1>6 DEF Request
  <2>4. Idle.pc = "idle" /\ Idle.mission = FALSE  BY DEF Idle
  <2> QED  BY <2>2, <2>3, <2>4, <1>6
<1> QED  BY <1>5, <1>6

LEMMA WentTo ==
    ASSUME TypeOK, NEW c \in Clients, NEW at \in {"register", "collect", "delete"}, Goto(c, at)
    PROVE  /\ client' \in [Clients -> Request]
           /\ client'[c] = [client[c] EXCEPT !.pc = at]
           /\ \A d \in Clients : d # c => client'[d] = client[d]
<1>1. client \in [Clients -> Request] /\ client[c] \in Request  BY JobsTyped
<1>2. [client[c] EXCEPT !.pc = at] \in Request  BY <1>1 DEF Request
<1> QED  BY <1>1, <1>2 DEF Goto

LEMMA OneMissionStill ==
    ASSUME JobsInv, TypeOK',
           mission # None => mission' # None /\ mission'.status = mission.status,
           \A c \in Clients :
              /\ client'[c].mission = client[c].mission
              /\ client'[c].pc = "act" => client[c].mission
              /\ client[c].mission =>
                    /\ client'[c].pc \in {"spawn", "register", "collect", "act"}
                    /\ client'[c].pc \in {"spawn", "register", "collect"}
                          => job'[client'[c].id].kind = "sweep"
    PROVE  OneMission'
BY DEF JobsInv, OneMission

LEMMA QuietInv ==
    ASSUME JobsInv,
           job' \in Seq(Job), Len(job') = Len(job),
           \A j \in Jobs : Fits(j, job'[j]) /\ Continues(job[j], job'[j]),
           collector' \in [1 .. MaxJobs -> {"none", "top", "readline", "ended"}],
           mission' \in Mission \cup {None},
           mission # None => mission' # None /\ mission'.status = mission.status,
           client' \in [Clients -> Request],
           \A c \in Clients :
              \/ /\ client'[c].pc = client[c].pc /\ client'[c].id = client[c].id
                 /\ client'[c].mission = client[c].mission
              \/ /\ client'[c].pc \in {"idle", "refresh", "act"} /\ ~Starting(c)
                 /\ client'[c].mission = client[c].mission
                 /\ client'[c].pc = "act" <=> client[c].mission
    PROVE  JobsInv'
<1>1. TypeOK /\ Jobs = 1 .. Len(job) /\ Jobs' = Jobs /\ Len(job) <= MaxJobs
  BY JobsTyped DEF JobsInv, Jobs
<1>2. TypeOK'  BY <1>1, TypedAgain
<1>3. ClientsKnow' /\ StartsApart' /\ Accounted'  BY <1>1, <1>2, QuietStep
<1>4. ASSUME NEW c \in Clients
      PROVE  /\ client'[c].mission = client[c].mission
             /\ client'[c].pc = "act" => client[c].mission
             /\ client[c].mission =>
                   /\ client'[c].pc \in {"spawn", "register", "collect", "act"}
                   /\ client'[c].pc \in {"spawn", "register", "collect"}
                         => job'[client'[c].id].kind = "sweep"
  <2>1. /\ client[c].pc \in {"spawn", "register", "collect"} => client[c].id \in Jobs
        /\ client[c].mission =>
              /\ client[c].pc \in {"spawn", "register", "collect", "act"}
              /\ client[c].pc \in {"spawn", "register", "collect"} => job[client[c].id].kind = "sweep"
        /\ client[c].pc = "act" => client[c].mission
    BY DEF JobsInv, ClientsKnow, Knows, OneMission
  <2>2. CASE /\ client'[c].pc = client[c].pc /\ client'[c].id = client[c].id
             /\ client'[c].mission = client[c].mission
    BY <2>1, <2>2 DEF Continues
  <2>3. CASE /\ client'[c].pc \in {"idle", "refresh", "act"}
             /\ client'[c].mission = client[c].mission
             /\ client'[c].pc = "act" <=> client[c].mission
    BY <2>3
  <2> QED  BY <2>2, <2>3
<1>5. OneMission'  BY <1>2, <1>4, OneMissionStill
<1> QED  BY <1>2, <1>3, <1>5 DEF JobsInv

\* The same for steps that leave the requests alone, of a process or of a
\* collector.
LEMMA ProcessInv ==
    ASSUME JobsInv, NEW i \in Jobs, NEW new \in Job, Fits(i, new), Continues(job[i], new),
           job' = [job EXCEPT ![i] = new],
           collector' \in [1 .. MaxJobs -> {"none", "top", "readline", "ended"}],
           UNCHANGED <<mission, client>>
    PROVE  JobsInv'
<1>1. TypeOK  BY DEF JobsInv
<1>2. /\ job' \in Seq(Job) /\ Len(job') = Len(job) /\ job'[i] = new
      /\ \A j \in Jobs : Fits(j, job'[j]) /\ (j # i => job'[j] = job[j])
  BY <1>1, OneJob
<1>3. \A j \in Jobs : Continues(job[j], job'[j])  BY <1>2 DEF Continues
<1>4. mission' \in Mission \cup {None} /\ client' \in [Clients -> Request]  BY <1>1 DEF TypeOK
<1> QED  BY <1>2, <1>3, <1>4, QuietInv

-----------------------------------------------------------------------------
(* The processes and the collectors                                        *)

LEMMA JobFields ==
    ASSUME NEW j \in Job
    PROVE  /\ j.kind \in {"tx", "sweep"} /\ j.listed \in BOOLEAN /\ j.file \in BOOLEAN
           /\ j.proc \in {"none", "live", "ok", "failed"} /\ j.left \in 0 .. Samples
           /\ j.rows \in Nat /\ j.out \in Seq(Nat) /\ j.window \in Seq(Nat)
           /\ \A p \in {"none", "live", "ok", "failed"} : [j EXCEPT !.proc = p] \in Job
           /\ \A n \in 0 .. Samples : [j EXCEPT !.left = n] \in Job
           /\ \A n \in Nat, out \in Seq(Nat) : [j EXCEPT !.rows = n, !.out = out] \in Job
           /\ \A out \in Seq(Nat) : [j EXCEPT !.out = out] \in Job
           /\ \A out, window \in Seq(Nat) : [j EXCEPT !.out = out, !.window = window] \in Job
           /\ \A b \in BOOLEAN : /\ [j EXCEPT !.listed = b] \in Job
                                 /\ [j EXCEPT !.stop = b] \in Job
                                 /\ [j EXCEPT !.file = b] \in Job
           /\ \A s \in {"running", "completed", "failed", "stopped"}, b \in BOOLEAN :
                 /\ [j EXCEPT !.status = s] \in Job
                 /\ [j EXCEPT !.status = s, !.listed = b] \in Job
           /\ \A p \in {"none", "live", "ok", "failed"}, b \in BOOLEAN :
                 [j EXCEPT !.proc = p, !.file = b] \in Job
BY ZenonT(30) DEF Job

LEMMA CollectorTyped ==
    ASSUME JobsInv
    PROVE  /\ collector \in [1 .. MaxJobs -> {"none", "top", "readline", "ended"}]
           /\ \A i \in 1 .. MaxJobs, s \in {"none", "top", "readline", "ended"} :
                 [collector EXCEPT ![i] = s] \in [1 .. MaxJobs -> {"none", "top", "readline", "ended"}]
BY DEF JobsInv, TypeOK

LEMMA ExitInv ==
    ASSUME JobsInv, NEW i \in Jobs, NEW code \in {"ok", "failed"}, job[i].proc = "live", Exit(i, code)
    PROVE  JobsInv'
<1> DEFINE new == [job[i] EXCEPT !.proc = code]
<1>1. job[i] \in Job /\ Fits(i, job[i])  BY JobsTyped DEF JobsInv
<1>2. job' = [job EXCEPT ![i] = new]  BY DEF Exit
<1>3. /\ new \in Job /\ new.proc = code
      /\ new.listed = job[i].listed /\ new.kind = job[i].kind /\ new.file = job[i].file
      /\ new.rows = job[i].rows /\ new.out = job[i].out
  <2>1. new \in Job  BY <1>1, JobFields
  <2> QED  BY <1>1, <2>1 DEF Job
<1> HIDE DEF new
<1>4. Fits(i, new) /\ Continues(job[i], new)  BY <1>1, <1>3 DEF Fits, Continues
<1>5. collector' = collector /\ UNCHANGED <<mission, client>>  BY DEF Exit
<1> QED  BY <1>2, <1>3, <1>4, <1>5, ProcessInv, CollectorTyped

LEMMA TransmitInv == ASSUME JobsInv, NEW i \in Jobs, Transmit(i) PROVE JobsInv'
<1> DEFINE new == [job[i] EXCEPT !.left = job[i].left - 1]
<1>1. job[i] \in Job /\ Fits(i, job[i])  BY JobsTyped DEF JobsInv
<1>2. job' = [job EXCEPT ![i] = new] /\ job[i].left > 0  BY DEF Transmit
<1>3. Samples \in Nat  BY JobsAssumption
<1>4. job[i].left \in 0 .. Samples  BY <1>1, JobFields
<1>5. /\ new \in Job /\ new.proc = job[i].proc
      /\ new.listed = job[i].listed /\ new.kind = job[i].kind /\ new.file = job[i].file
      /\ new.rows = job[i].rows /\ new.out = job[i].out
  <2>1. job[i].left - 1 \in 0 .. Samples  BY <1>2, <1>3, <1>4
  <2>2. new \in Job  BY <1>1, <2>1, JobFields
  <2> QED  BY <1>1, <2>2 DEF Job
<1> HIDE DEF new
<1>6. Fits(i, new) /\ Continues(job[i], new)  BY <1>1, <1>5 DEF Fits, Continues
<1>7. collector' = collector /\ UNCHANGED <<mission, client>>  BY DEF Transmit
<1> QED  BY <1>2, <1>5, <1>6, <1>7, ProcessInv, CollectorTyped

LEMMA BusyStreamStartInv == ASSUME JobsInv, BusyStreamStart PROVE JobsInv'
<1> DEFINE killed == {i \in Bursts : job[i].worker = "hackrf" /\ job[i].proc = "live"}
           new(i) == [job[i] EXCEPT !.proc = "failed"]
<1>1. TypeOK /\ Jobs = 1 .. Len(job) /\ Len(job) \in Nat
      /\ \A i \in Jobs : job[i] \in Job /\ Fits(i, job[i])
  BY JobsTyped DEF JobsInv
<1>2. job' = [i \in 1 .. Len(job) |-> IF i \in killed THEN new(i) ELSE job[i]]
  BY <1>1 DEF BusyStreamStart
<1>3. ASSUME NEW i \in Jobs PROVE new(i) \in Job /\ Fits(i, new(i))
                                  /\ (job[i].proc = "live" => Continues(job[i], new(i)))
  <2>1. job[i] \in Job /\ Fits(i, job[i])  BY <1>1
  <2>2. /\ new(i) \in Job /\ new(i).proc = "failed"
        /\ new(i).listed = job[i].listed /\ new(i).kind = job[i].kind /\ new(i).file = job[i].file
        /\ new(i).rows = job[i].rows /\ new(i).out = job[i].out
    <3>1. new(i) \in Job  BY <2>1, JobFields
    <3> QED  BY <2>1, <3>1 DEF Job
  <2> HIDE DEF new
  <2> QED  BY <2>1, <2>2 DEF Fits, Continues
<1>4. \A i \in killed : job[i].proc = "live"  OBVIOUS
<1> HIDE DEF killed, new
<1>5. job' \in Seq(Job) /\ Len(job') = Len(job)  BY <1>1, <1>2, <1>3
<1>6. \A i \in Jobs : job'[i] = IF i \in killed THEN new(i) ELSE job[i]  BY <1>1, <1>2
<1>7. \A i \in Jobs : Fits(i, job'[i])  BY <1>1, <1>3, <1>6
<1>8. \A i \in Jobs : Continues(job[i], job'[i])
  <2>1. \A i \in Jobs : Continues(job[i], job[i])  BY DEF Continues
  <2> QED  BY <2>1, <1>3, <1>4, <1>6
<1>9. UNCHANGED <<collector, mission, client>>  BY DEF BusyStreamStart
<1>10. mission' \in Mission \cup {None} /\ client' \in [Clients -> Request]
  BY <1>1, <1>9 DEF TypeOK
<1> QED  BY <1>5, <1>7, <1>8, <1>9, <1>10, QuietInv, CollectorTyped

\* What a row or its absence adds to a sweep that prints, and what its
\* collector leaves of it when it takes one.
LEMMA PrintRowIs ==
    ASSUME JobsInv, NEW i \in Jobs, PrintRow(i)
    PROVE  LET new == job'[i] IN
           /\ job' = [job EXCEPT ![i] = new] /\ new \in Job /\ Fits(i, new)
           /\ Continues(job[i], new) /\ new.window = job[i].window
           /\ \/ new.rows = job[i].rows /\ new.out = Append(job[i].out, 0)
              \/ new.rows = job[i].rows + 1 /\ new.out = Append(job[i].out, job[i].rows + 1)
           /\ UNCHANGED <<collector, mission, client>>
<1>1. /\ job[i] \in Job /\ Fits(i, job[i]) /\ job[i].rows \in Nat /\ job[i].out \in Seq(Nat)
      /\ job \in Seq(Job) /\ Jobs = 1 .. Len(job)
  BY JobsTyped, JobFields DEF JobsInv
<1>2. Capacity \in Nat /\ MaxRows[i] \in Nat  BY JobsAssumption, JobsTyped DEF JobsInv
<1>3. job[i].rows < MaxRows[i] /\ Len(job[i].out) < Capacity
      /\ UNCHANGED <<collector, mission, client>>
  BY DEF PrintRow
<1>4. PICK rows \in {job[i].rows, job[i].rows + 1}, out \in Seq(Nat) :
         /\ job' = [job EXCEPT ![i] = [job[i] EXCEPT !.rows = rows, !.out = out]]
         /\ Len(out) = Len(job[i].out) + 1
         /\ \/ rows = job[i].rows /\ out = Append(job[i].out, 0)
            \/ rows = job[i].rows + 1 /\ out = Append(job[i].out, job[i].rows + 1)
  <2>1. \A n \in Nat : Append(job[i].out, n) \in Seq(Nat)
                       /\ Len(Append(job[i].out, n)) = Len(job[i].out) + 1
    BY <1>1, AppendProperties
  <2>2. CASE job' = [job EXCEPT ![i].out = Append(job[i].out, 0)]
    <3>1. [job[i] EXCEPT !.out = Append(job[i].out, 0)]
             = [job[i] EXCEPT !.rows = job[i].rows, !.out = Append(job[i].out, 0)]
      BY <1>1 DEF Job
    <3>2. job' = [job EXCEPT ![i] = [job[i] EXCEPT !.out = Append(job[i].out, 0)]]  BY <2>2
    <3> QED  BY <3>1, <3>2, <2>1
  <2>3. CASE job' = [job EXCEPT ![i].rows = job[i].rows + 1,
                                ![i].out = Append(job[i].out, job[i].rows + 1)]
    <3>1. job' = [job EXCEPT ![i] = [job[i] EXCEPT !.rows = job[i].rows + 1,
                                                   !.out = Append(job[i].out, job[i].rows + 1)]]
      BY <2>3, <1>1
    <3>2. /\ Append(job[i].out, job[i].rows + 1) \in Seq(Nat)
          /\ Len(Append(job[i].out, job[i].rows + 1)) = Len(job[i].out) + 1
      BY <1>1, <2>1
    <3> QED  BY <3>1, <3>2
  <2> QED  BY <2>2, <2>3 DEF PrintRow
<1> DEFINE new == [job[i] EXCEPT !.rows = rows, !.out = out]
<1>5. new \in Job
  <2>1. rows \in Nat  BY <1>1
  <2> QED  BY <1>1, <2>1, JobFields
<1>6. /\ new.rows = rows /\ new.out = out /\ new.window = job[i].window
      /\ new.proc = job[i].proc /\ new.listed = job[i].listed /\ new.kind = job[i].kind
      /\ new.file = job[i].file
  BY <1>1 DEF Job
<1>7. job' = [job EXCEPT ![i] = new]  BY <1>4
<1> HIDE DEF new
<1>8. job'[i] = new  BY <1>1, <1>7
<1>9. Continues(job[i], new)  BY <1>6 DEF Continues
<1>10. Fits(i, new)  BY <1>1, <1>2, <1>3, <1>4, <1>6 DEF Fits
<1> QED  BY <1>3, <1>4, <1>5, <1>6, <1>7, <1>8, <1>9, <1>10

LEMMA CollectRowIs ==
    ASSUME JobsInv, NEW i \in Jobs, CollectRow(i)
    PROVE  LET new == job'[i]
               row == Head(job[i].out) IN
           /\ job' = [job EXCEPT ![i] = new] /\ new \in Job /\ Fits(i, new)
           /\ Continues(job[i], new) /\ new.rows = job[i].rows
           /\ job[i].out # <<>> /\ new.out = Tail(job[i].out)
           /\ new.window = IF row = 0 THEN job[i].window ELSE Kept(job[i].window, row)
           /\ collector' = [collector EXCEPT ![i] = "top"] /\ UNCHANGED <<mission, client>>
<1>1. /\ job[i] \in Job /\ Fits(i, job[i]) /\ job[i].rows \in Nat /\ job[i].out \in Seq(Nat)
      /\ job[i].window \in Seq(Nat) /\ job \in Seq(Job) /\ Jobs = 1 .. Len(job)
  BY JobsTyped, JobFields DEF JobsInv
<1>2. Capacity \in Nat /\ Window \in Nat \ {0}  BY JobsAssumption
<1>3. job[i].out # <<>> /\ UNCHANGED <<mission, client>>
      /\ collector' = [collector EXCEPT ![i] = "top"]
  BY DEF CollectRow
<1> DEFINE row == Head(job[i].out)
           window == IF row = 0 THEN job[i].window ELSE Kept(job[i].window, row)
           new == [job[i] EXCEPT !.out = Tail(job[i].out), !.window = window]
<1>4. row \in Nat /\ Tail(job[i].out) \in Seq(Nat)
      /\ Len(Tail(job[i].out)) <= Len(job[i].out)
  BY <1>1, <1>3
<1>5. window \in Seq(Nat)
  <2>1. ASSUME NEW w \in Seq(Nat), NEW n \in Nat PROVE Kept(w, n) \in Seq(Nat)
    <3>1. Len(w) = Window => Tail(w) \in Seq(Nat)  BY <1>2
    <3> QED  BY <3>1, AppendProperties DEF Kept
  <2> HIDE DEF row
  <2> QED  BY <2>1, <1>1, <1>4
<1>6. job' = [job EXCEPT ![i] = new]
  BY <1>1 DEF CollectRow
<1> HIDE DEF row, window
<1>7. new \in Job  BY <1>1, <1>4, <1>5, JobFields
<1>8. /\ new.out = Tail(job[i].out) /\ new.window = window /\ new.rows = job[i].rows
      /\ new.proc = job[i].proc /\ new.listed = job[i].listed /\ new.kind = job[i].kind
      /\ new.file = job[i].file
  BY <1>1 DEF Job
<1> HIDE DEF new
<1>9. job'[i] = new  BY <1>1, <1>6
<1>10. Continues(job[i], new)  BY <1>8 DEF Continues
<1>11. Fits(i, new)
  <2>1. Len(job[i].out) \in Nat /\ Len(new.out) \in Nat  BY <1>1, <1>4, <1>8
  <2> QED  BY <2>1, <1>1, <1>2, <1>4, <1>8 DEF Fits
<1> QED  BY <1>3, <1>6, <1>7, <1>8, <1>9, <1>10, <1>11 DEF row, window

LEMMA PrintRowInv == ASSUME JobsInv, NEW i \in Jobs, PrintRow(i) PROVE JobsInv'
<1>1. PICK new : /\ job' = [job EXCEPT ![i] = new] /\ new \in Job /\ Fits(i, new)
                 /\ Continues(job[i], new) /\ UNCHANGED <<collector, mission, client>>
  BY PrintRowIs
<1> QED  BY <1>1, ProcessInv, CollectorTyped

LEMMA CollectInv == ASSUME JobsInv, NEW i \in Jobs, Collect(i) PROVE JobsInv'
<1>1. i \in 1 .. MaxJobs /\ job[i] \in Job /\ Fits(i, job[i])
      /\ job \in Seq(Job) /\ Jobs = 1 .. Len(job)
  BY JobsTyped DEF JobsInv
<1>2. ASSUME UNCHANGED <<job, mission, client>>,
             collector' \in [1 .. MaxJobs -> {"none", "top", "readline", "ended"}]
      PROVE  JobsInv'
  <2>1. job' = [job EXCEPT ![i] = job[i]]  BY <1>1, <1>2
  <2>2. Continues(job[i], job[i])  BY DEF Continues
  <2> QED  BY <1>1, <1>2, <2>1, <2>2, ProcessInv
<1>3. CASE CollectTop(i)
  <2>1. PICK s \in {"ended", "readline"} : collector' = [collector EXCEPT ![i] = s]
    BY <1>3 DEF CollectTop
  <2> QED  BY <1>1, <1>2, <1>3, <2>1, CollectorTyped DEF CollectTop
<1>4. CASE CollectRow(i)
  <2>1. PICK new : /\ job' = [job EXCEPT ![i] = new] /\ new \in Job /\ Fits(i, new)
                   /\ Continues(job[i], new) /\ UNCHANGED <<mission, client>>
                   /\ collector' = [collector EXCEPT ![i] = "top"]
    BY <1>4, CollectRowIs
  <2> QED  BY <1>1, <2>1, ProcessInv, CollectorTyped
<1>5. CASE CollectEnd(i)
  BY <1>1, <1>2, <1>5, CollectorTyped DEF CollectEnd
<1> QED  BY <1>3, <1>4, <1>5 DEF Collect

-----------------------------------------------------------------------------
(* Requests that start, list or end no job                                 *)

LEMMA SameJobs ==
    ASSUME JobsInv, job' = job
    PROVE  /\ job' \in Seq(Job) /\ Len(job') = Len(job)
           /\ \A j \in Jobs : Fits(j, job'[j]) /\ Continues(job[j], job'[j])
BY JobsTyped DEF JobsInv, Continues

LEMMA MissionTyped ==
    ASSUME JobsInv
    PROVE  /\ mission \in Mission \cup {None} /\ None \notin Mission
           /\ \A c \in Clients : client[c].mission => mission \in Mission
           /\ \A c \in Clients : client[c].pc = "act" => mission \in Mission
           /\ \A c \in Clients : client[c].mission \in BOOLEAN
BY JobsAssumption, JobsTyped DEF JobsInv, TypeOK, OneMission, Request

LEMMA StartCollectorInv == ASSUME JobsInv, NEW c \in Clients, StartCollector(c) PROVE JobsInv'
<1>1. client[c].pc = "collect" /\ job' = job /\ Return(c)  BY DEF StartCollector
<1>2. TypeOK /\ client[c].id \in 1 .. MaxJobs
  BY <1>1, JobsTyped DEF JobsInv, ClientsKnow, Knows
<1>3. /\ client' \in [Clients -> Request]
      /\ client'[c].mission = client[c].mission
      /\ client'[c].pc = IF client[c].mission THEN "act" ELSE "idle"
      /\ \A d \in Clients : d # c => client'[d] = client[d]
  BY <1>1, <1>2, Returned
<1>4. collector' \in [1 .. MaxJobs -> {"none", "top", "readline", "ended"}]
  BY <1>2, CollectorTyped DEF StartCollector
<1>5. mission' \in Mission \cup {None} /\ (mission # None => mission' # None /\ mission'.status = mission.status)
  <2>1. CASE client[c].mission
    <3>1. mission \in Mission /\ None \notin Mission  BY <2>1, MissionTyped
    <3>2. mission' = [mission EXCEPT !.failures = mission.failures, !.started = mission.started + 1]
      BY <2>1 DEF StartCollector, Failures
    <3>3. \A m \in Mission : \A n \in Nat : 
             /\ [m EXCEPT !.failures = m.failures, !.started = n] \in Mission
             /\ [m EXCEPT !.failures = m.failures, !.started = n].status = m.status
      BY DEF Mission
    <3>4. mission.started + 1 \in Nat  BY <3>1 DEF Mission
    <3> QED  BY <3>1, <3>2, <3>3, <3>4
  <2>2. CASE ~client[c].mission  BY <2>2, MissionTyped DEF StartCollector
  <2> QED  BY <2>1, <2>2
<1>6. ASSUME NEW d \in Clients
      PROVE  \/ /\ client'[d].pc = client[d].pc /\ client'[d].id = client[d].id
                /\ client'[d].mission = client[d].mission
             \/ /\ client'[d].pc \in {"idle", "refresh", "act"} /\ ~Starting(d)
                /\ client'[d].mission = client[d].mission
                /\ client'[d].pc = "act" <=> client[d].mission
  BY <1>1, <1>3, <1>6 DEF Starting
<1> QED  BY <1>1, <1>3, <1>4, <1>5, <1>6, SameJobs, QuietInv

LEMMA MissionKept ==
    ASSUME JobsInv, mission' = mission
    PROVE  mission' \in Mission \cup {None}
           /\ (mission # None => mission' # None /\ mission'.status = mission.status)
BY MissionTyped

\* Listed bursts, and so the bound on the size that list_states remembers.
LEMMA BurstsListed ==
    ASSUME JobsInv
    PROVE  /\ Listed \cap Bursts \in SUBSET (1 .. MaxJobs)
           /\ Cardinality(Listed \cap Bursts) \in 0 .. MaxJobs
<1>1. Listed \cap Bursts \subseteq 1 .. MaxJobs /\ MaxJobs \in Nat
  BY JobsTyped DEF JobsInv, Listed
<1>2. IsFiniteSet(1 .. MaxJobs) /\ Cardinality(1 .. MaxJobs) = MaxJobs  BY <1>1, FS_Interval
<1>3. /\ Cardinality(Listed \cap Bursts) <= MaxJobs
      /\ Cardinality(Listed \cap Bursts) \in Nat
  BY <1>1, <1>2, FS_Subset, FS_CardinalityType
<1> QED  BY <1>1, <1>3

LEMMA ListInv == ASSUME JobsInv, NEW c \in Clients, List(c) PROVE JobsInv'
<1>1. /\ client[c].pc = "idle" /\ UNCHANGED <<job, collector, mission>>
      /\ client' = [client EXCEPT ![c] = [client[c] EXCEPT !.pc = "refresh", !.todo = Listed \cap Bursts,
                                                           !.size = Cardinality(Listed \cap Bursts)]]
  BY JobsTyped DEF JobsInv, List
<1>2. client \in [Clients -> Request] /\ client[c] \in Request  BY JobsTyped DEF JobsInv
<1>3. ~client[c].mission  BY <1>1 DEF JobsInv, OneMission
<1>4. [client[c] EXCEPT !.pc = "refresh", !.todo = Listed \cap Bursts,
                        !.size = Cardinality(Listed \cap Bursts)] \in Request
  BY <1>2, BurstsListed DEF Request
<1>5. /\ client' \in [Clients -> Request]
      /\ client'[c].pc = "refresh" /\ client'[c].mission = client[c].mission
      /\ \A d \in Clients : d # c => client'[d] = client[d]
  BY <1>1, <1>2, <1>4 DEF Request
<1>6. \A d \in Clients :
         \/ /\ client'[d].pc = client[d].pc /\ client'[d].id = client[d].id
            /\ client'[d].mission = client[d].mission
         \/ /\ client'[d].pc \in {"idle", "refresh", "act"} /\ ~Starting(d)
            /\ client'[d].mission = client[d].mission
            /\ client'[d].pc = "act" <=> client[d].mission
  BY <1>1, <1>3, <1>5 DEF Starting
<1> QED  BY <1>1, <1>5, <1>6, SameJobs, MissionKept, CollectorTyped, QuietInv

LEMMA RefreshInv == ASSUME JobsInv, NEW c \in Clients, Refresh(c) PROVE JobsInv'
<1>1. /\ job \in Seq(Job) /\ Jobs = 1 .. Len(job) /\ \A j \in Jobs : job[j] \in Job /\ Fits(j, job[j])
      /\ client \in [Clients -> Request] /\ client[c] \in Request /\ TypeOK
  BY JobsTyped DEF JobsInv
<1>2. UNCHANGED <<collector, mission>>  BY DEF Refresh
<1>3. PICK i \in client[c].todo :
         /\ job' = IF job[i].status = "running" /\ Ended(i)
                   THEN [job EXCEPT ![i].status = IF job[i].proc = "ok" THEN "completed" ELSE "failed"]
                   ELSE job
         /\ client' = [client EXCEPT ![c].todo = @ \ {i}]
  BY DEF Refresh
<1>4. /\ client' \in [Clients -> Request]
      /\ \A d \in Clients : client'[d].pc = client[d].pc /\ client'[d].id = client[d].id
                            /\ client'[d].mission = client[d].mission
  <2>1. [client[c] EXCEPT !.todo = client[c].todo \ {i}] \in Request  BY <1>1 DEF Request
  <2>2. client' = [client EXCEPT ![c] = [client[c] EXCEPT !.todo = client[c].todo \ {i}]]
    BY <1>1, <1>3
  <2> QED  BY <1>1, <2>1, <2>2 DEF Request
<1>5. /\ job' \in Seq(Job) /\ Len(job') = Len(job)
      /\ \A j \in Jobs : Fits(j, job'[j]) /\ Continues(job[j], job'[j])
  <2>1. CASE job' = job  BY <2>1, SameJobs
  <2>2. CASE job' # job
    <3>1. PICK s \in {"completed", "failed"} : job' = [job EXCEPT ![i] = [job[i] EXCEPT !.status = s]]
      BY <1>3, <2>2
    <3>2. i \in Jobs  BY <3>1, <2>2, <1>1
    <3> DEFINE new == [job[i] EXCEPT !.status = s]
    <3>3. /\ new.proc = job[i].proc /\ new.listed = job[i].listed /\ new.kind = job[i].kind
          /\ new.file = job[i].file /\ new.rows = job[i].rows /\ new.out = job[i].out
      BY <1>1, <3>2 DEF Job
    <3>4. new \in Job  BY <1>1, <3>2, JobFields
    <3>5. job' = [job EXCEPT ![i] = new]  BY <3>1
    <3> HIDE DEF new
    <3>6. Fits(i, new) /\ Continues(job[i], new)  BY <1>1, <3>2, <3>3 DEF Fits, Continues
    <3>7. /\ job' \in Seq(Job) /\ Len(job') = Len(job) /\ job'[i] = new
          /\ \A j \in Jobs : j # i => job'[j] = job[j]
          /\ \A j \in Jobs : Fits(j, job'[j])
      BY <1>1, <3>2, <3>4, <3>5, <3>6, OneJob
    <3>8. \A j \in Jobs : Continues(job[j], job[j])  BY DEF Continues
    <3>9. \A j \in Jobs : Continues(job[j], job'[j])  BY <3>6, <3>7, <3>8
    <3> QED  BY <3>7, <3>9
  <2> QED  BY <2>1, <2>2
<1> QED  BY <1>2, <1>4, <1>5, MissionKept, CollectorTyped, QuietInv

LEMMA RefreshEndsInv == ASSUME JobsInv, NEW c \in Clients, RefreshEnds(c) PROVE JobsInv'
<1>1. client[c].pc = "refresh" /\ Return(c) /\ UNCHANGED <<job, collector, mission>>
  BY DEF RefreshEnds
<1>2. TypeOK /\ ~client[c].mission  BY <1>1 DEF JobsInv, OneMission
<1>3. /\ client' \in [Clients -> Request]
      /\ client'[c].mission = client[c].mission /\ client'[c].pc = "idle"
      /\ \A d \in Clients : d # c => client'[d] = client[d]
  BY <1>1, <1>2, Returned
<1>4. \A d \in Clients :
         \/ /\ client'[d].pc = client[d].pc /\ client'[d].id = client[d].id
            /\ client'[d].mission = client[d].mission
         \/ /\ client'[d].pc \in {"idle", "refresh", "act"} /\ ~Starting(d)
            /\ client'[d].mission = client[d].mission
            /\ client'[d].pc = "act" <=> client[d].mission
  BY <1>1, <1>2, <1>3 DEF Starting
<1> QED  BY <1>1, <1>3, <1>4, SameJobs, MissionKept, CollectorTyped, QuietInv

LEMMA ActPassedInv ==
    ASSUME JobsInv, NEW c \in Clients, ActSkip(c) \/ ActQueue(c)
    PROVE  JobsInv'
<1>1. /\ client[c].pc = "act" /\ UNCHANGED <<job, collector, client>>
      /\ \/ mission' = [mission EXCEPT !.next = mission.next + 1]
         \/ mission' = [mission EXCEPT !.next = mission.next + 1, !.skipped = mission.skipped + 1]
  BY DEF ActSkip, ActQueue, Acting
<1>2. mission \in Mission /\ None \notin Mission  BY <1>1, MissionTyped
<1>3. mission' \in Mission /\ mission'.status = mission.status
  <2>1. \A m \in Mission : LET n == [m EXCEPT !.next = m.next + 1] IN
                           n \in Mission /\ n.status = m.status
    BY DEF Mission
  <2>2. ASSUME NEW m \in Mission
        PROVE  LET n == [m EXCEPT !.next = m.next + 1, !.skipped = m.skipped + 1] IN
               n \in Mission /\ n.status = m.status
    <3>1. m.next + 1 \in Nat /\ m.skipped + 1 \in Nat  BY DEF Mission
    <3>2. [m EXCEPT !.next = m.next + 1, !.skipped = m.skipped + 1].status = m.status  BY DEF Mission
    <3> QED  BY <3>1, <3>2 DEF Mission
  <2> QED  BY <1>1, <1>2, <2>1, <2>2
<1>4. client' \in [Clients -> Request]  BY <1>1, JobsTyped DEF JobsInv
<1> QED  BY <1>1, <1>2, <1>3, <1>4, SameJobs, CollectorTyped, QuietInv

-----------------------------------------------------------------------------
(* Requests that start a job                                               *)

LEMMA NewJobIs ==
    ASSUME NEW kind \in {"tx", "sweep"}, NEW worker \in Workers \cup {None}
    PROVE  LET new == NewJob(kind, worker) IN
           /\ new \in Job /\ new.proc = "none" /\ new.listed = FALSE /\ new.kind = kind
           /\ new.rows = 0 /\ new.out = <<>> /\ new.window = <<>>
<1>1. Samples \in Nat  BY JobsAssumption
<1>2. (IF kind = "tx" THEN Samples ELSE 0) \in 0 .. Samples  BY <1>1
<1>3. (kind = "tx") \in BOOLEAN  OBVIOUS
<1> QED  BY <1>2, <1>3 DEF NewJob, Job

LEMMA StartIs ==
    ASSUME JobsInv, NEW c \in Clients, NEW kind \in {"tx", "sweep"},
           NEW worker \in Workers \cup {None}, Start(c, kind, worker)
    PROVE  /\ job' \in Seq(Job) /\ Len(job') = Len(job) + 1 /\ Len(job') <= MaxJobs
           /\ Jobs' = Jobs \cup {Newest} /\ Newest \notin Jobs
           /\ \A i \in Jobs : job'[i] = job[i]
           /\ job'[Newest] = NewJob(kind, worker)
           /\ \A i \in Jobs' : Fits(i, job'[i])
           /\ client' \in [Clients -> Request]
           /\ client'[c].pc = "spawn" /\ client'[c].id = Newest
           /\ client'[c].mission = client[c].mission
           /\ \A d \in Clients : d # c => client'[d] = client[d]
<1>1. /\ job \in Seq(Job) /\ Jobs = 1 .. Len(job) /\ \A j \in Jobs : Fits(j, job[j])
      /\ client \in [Clients -> Request] /\ client[c] \in Request
      /\ MaxJobs \in Nat /\ Newest = Len(job) + 1 /\ Len(job) \in Nat
  BY JobsTyped DEF JobsInv
<1>2. Newest <= MaxJobs /\ job' = Append(job, NewJob(kind, worker))
      /\ client' = [client EXCEPT ![c] = [client[c] EXCEPT !.pc = "spawn", !.id = Newest]]
  BY <1>1 DEF Start
<1>3. NewJob(kind, worker) \in Job  BY NewJobIs
<1>4. /\ job' \in Seq(Job) /\ Len(job') = Len(job) + 1
      /\ \A i \in 1 .. Len(job) : job'[i] = job[i]
      /\ job'[Len(job) + 1] = NewJob(kind, worker)
  BY <1>1, <1>2, <1>3, AppendProperties
<1>5. Jobs' = Jobs \cup {Newest} /\ Newest \notin Jobs /\ Len(job') <= MaxJobs
  <2>1. Jobs' = 1 .. Len(job')  BY <1>4 DEF Jobs
  <2> QED  BY <1>1, <1>2, <1>4, <2>1
<1>6. Fits(Newest, job'[Newest])
  <2>1. MaxRows[Newest] \in Nat /\ Capacity \in Nat  BY <1>1, <1>2, JobsAssumption
  <2>2. Len(<<>>) = 0  OBVIOUS
  <2>3. /\ job'[Newest].listed = FALSE /\ job'[Newest].rows = 0 /\ job'[Newest].out = <<>>
    BY ZenonT(30), <1>1, <1>4, NewJobIs
  <2> QED  BY <2>1, <2>2, <2>3 DEF Fits
<1>7. [client[c] EXCEPT !.pc = "spawn", !.id = Newest] \in Request
  <2>1. Newest \in 1 .. MaxJobs  BY <1>1, <1>2
  <2> QED  BY <1>1, <2>1 DEF Request
<1>8. /\ client' \in [Clients -> Request]
      /\ client'[c].pc = "spawn" /\ client'[c].id = Newest
      /\ client'[c].mission = client[c].mission
      /\ \A d \in Clients : d # c => client'[d] = client[d]
  BY <1>1, <1>2, <1>7 DEF Request
<1>9. \A i \in Jobs' : Fits(i, job'[i])  BY <1>1, <1>4, <1>5, <1>6
<1> QED  BY <1>1, <1>4, <1>5, <1>8, <1>9

LEMMA StartInv ==
    ASSUME JobsInv, NEW c \in Clients, NEW kind \in {"tx", "sweep"},
           NEW worker \in Workers \cup {None}, Start(c, kind, worker), collector' = collector,
           client[c].pc \in {"idle", "act"}, client[c].mission => kind = "sweep",
           mission' \in Mission \cup {None},
           mission # None => mission' # None /\ mission'.status = mission.status
    PROVE  JobsInv'
<1>1. /\ job' \in Seq(Job) /\ Len(job') = Len(job) + 1 /\ Len(job') <= MaxJobs
      /\ Jobs' = Jobs \cup {Newest} /\ Newest \notin Jobs
      /\ \A i \in Jobs : job'[i] = job[i]
      /\ \A i \in Jobs' : Fits(i, job'[i])
      /\ client' \in [Clients -> Request]
      /\ client'[c].pc = "spawn" /\ client'[c].id = Newest
      /\ client'[c].mission = client[c].mission
      /\ \A d \in Clients : d # c => client'[d] = client[d]
  BY StartIs
<1>2. job'[Newest].proc = "none" /\ job'[Newest].listed = FALSE /\ job'[Newest].kind = kind
  <2>1. job'[Newest] = NewJob(kind, worker)  BY StartIs
  <2>2. /\ NewJob(kind, worker).proc = "none" /\ NewJob(kind, worker).listed = FALSE
        /\ NewJob(kind, worker).kind = kind
    BY NewJobIs
  <2> QED  BY <2>1, <2>2
<1>3. TypeOK'
  <2>1. Jobs' = 1 .. Len(job')  BY <1>1 DEF Jobs
  <2> QED  BY <1>1, <2>1, CollectorTyped, TypedAgain
<1>4. ASSUME NEW d \in Clients, d # c
      PROVE  /\ client'[d] = client[d]
             /\ client[d].pc \in {"spawn", "register", "collect", "end", "delete"} =>
                    /\ client[d].id \in Jobs /\ client[d].id # Newest
                    /\ job'[client[d].id] = job[client[d].id]
  BY <1>1, <1>4 DEF JobsInv, ClientsKnow, Knows
<1>5. ClientsKnow'
  <2> SUFFICES ASSUME NEW d \in Clients PROVE Knows(client[d])'
    BY DEF ClientsKnow
  <2>1. CASE d = c  BY <1>1, <1>2, <2>1 DEF Knows
  <2>2. CASE d # c
    <3>1. Knows(client[d])  BY DEF JobsInv, ClientsKnow
    <3> QED  BY <1>1, <1>4, <2>2, <3>1 DEF Knows
  <2> QED  BY <2>1, <2>2
<1>6. StartsApart'
  <2> SUFFICES ASSUME NEW d \in Clients, NEW e \in Clients, Starting(d)', Starting(e)', d # e
               PROVE  client'[d].id # client'[e].id
    BY DEF StartsApart
  <2>1. CASE d = c  BY <1>1, <1>4, <2>1 DEF Starting
  <2>2. CASE e = c  BY <1>1, <1>4, <2>2 DEF Starting
  <2>3. CASE d # c /\ e # c
    <3>1. Starting(d) /\ Starting(e)  BY <1>1, <2>3 DEF Starting
    <3>2. client[d].id # client[e].id  BY <3>1 DEF JobsInv, StartsApart
    <3> QED  BY <1>1, <2>3, <3>2
  <2> QED  BY <2>1, <2>2, <2>3
<1>7. Accounted'
  <2> SUFFICES ASSUME NEW i \in Jobs'
               PROVE  job'[i].listed \/ AtRest(job'[i])
                        \/ \E d \in Clients : Starting(d)' /\ client'[d].id = i
    BY DEF Accounted
  <2>1. CASE i = Newest  BY <1>1, <2>1 DEF Starting
  <2>2. CASE i \in Jobs
    <3>1. job[i].listed \/ AtRest(job[i]) \/ \E d \in Clients : Starting(d) /\ client[d].id = i
      BY <2>2 DEF JobsInv, Accounted
    <3>2. \A d \in Clients : Starting(d) => d # c  BY DEF Starting
    <3> QED  BY <1>1, <2>2, <3>1, <3>2 DEF Starting
  <2> QED  BY <1>1, <2>1, <2>2
<1>8. OneMission'
  <2>1. ASSUME NEW d \in Clients
        PROVE  /\ client'[d].mission = client[d].mission
               /\ client'[d].pc = "act" => client[d].mission
               /\ client[d].mission =>
                     /\ client'[d].pc \in {"spawn", "register", "collect", "act"}
                     /\ client'[d].pc \in {"spawn", "register", "collect"}
                           => job'[client'[d].id].kind = "sweep"
    <3>1. CASE d = c  BY <1>1, <1>2, <3>1
    <3>2. CASE d # c  BY <1>4, <3>2 DEF JobsInv, OneMission
    <3> QED  BY <3>1, <3>2
  <2> QED  BY <1>3, <2>1, OneMissionStill
<1> QED  BY <1>3, <1>5, <1>6, <1>7, <1>8 DEF JobsInv

LEMMA StartsInv ==
    ASSUME JobsInv, NEW c \in Clients,
           \/ \E w \in Workers : StartTx(c, w)
           \/ StartSweep(c)
           \/ ActSweep(c)
    PROVE  JobsInv'
<1>1. CASE \E w \in Workers : StartTx(c, w)
  <2>1. PICK w \in Workers : StartTx(c, w)  BY <1>1
  <2>2. client[c].pc = "idle" /\ ~client[c].mission  BY <2>1 DEF StartTx, JobsInv, OneMission
  <2> QED  BY <2>1, <2>2, MissionKept, StartInv DEF StartTx
<1>2. CASE StartSweep(c)
  BY <1>2, MissionKept, StartInv DEF StartSweep
<1>3. CASE ActSweep(c)
  <2>1. client[c].pc = "act" /\ Start(c, "sweep", None) /\ collector' = collector
        /\ mission' = [mission EXCEPT !.next = mission.next + 1]
    BY <1>3 DEF ActSweep, Acting
  <2>2. mission \in Mission /\ None \notin Mission  BY <2>1, MissionTyped
  <2>3. mission' \in Mission /\ mission'.status = mission.status  BY <2>1, <2>2 DEF Mission
  <2> QED  BY <2>1, <2>2, <2>3, StartInv
<1> QED  BY <1>1, <1>2, <1>3

-----------------------------------------------------------------------------
(* Requests that work on a job                                             *)

\* A request takes the job it has, or gets hold of, one step on.
JobGoesOn(c, i) ==
    /\ Jobs' = Jobs /\ \A j \in Jobs : j # i => job'[j] = job[j]
    /\ job'[i].kind = job[i].kind /\ (job'[i].file => job[i].file)
    /\ job[i].proc # "none" => job'[i].proc # "none"
    /\ job[i].proc \notin {"none", "live"} => job'[i].proc # "live"
    /\ \/ Starting(c) /\ client[c].id = i
       \/ /\ ~Starting(c) /\ (job'[i].proc = "none" <=> job[i].proc = "none")
          /\ job'[i].listed => job[i].listed

RequestGoesOn(c, i) ==
    /\ \A d \in Clients : d # c => client'[d] = client[d]
    /\ Knows(client[c])'
    /\ Starting(c)' => Starting(c) /\ client'[c].id = i
    /\ job'[i].listed \/ AtRest(job'[i]) \/ Starting(c)'
    /\ client'[c].mission = client[c].mission
    /\ client'[c].pc = "act" => client[c].mission
    /\ client[c].mission =>
          /\ client'[c].pc \in {"spawn", "register", "collect", "act"}
          /\ client'[c].pc \in {"spawn", "register", "collect"}
                => client'[c].id = i /\ job[i].kind = "sweep"

LEMMA OneStep ==
    ASSUME JobsInv, TypeOK', NEW c \in Clients, NEW i \in Jobs,
           JobGoesOn(c, i), RequestGoesOn(c, i),
           mission # None => mission' # None /\ mission'.status = mission.status
    PROVE  JobsInv'
<1> USE DEF JobGoesOn, RequestGoesOn
<1>1. ASSUME NEW d \in Clients, d # c
      PROVE  Knows(client[d])'
  <2>1. Knows(client[d]) /\ client'[d] = client[d]  BY <1>1 DEF JobsInv, ClientsKnow
  <2>2. Starting(c) /\ Starting(d) => client[c].id # client[d].id
    BY <1>1 DEF JobsInv, StartsApart
  <2>3. CASE client[d].id # i  BY <2>1, <2>3 DEF Knows
  <2>4. CASE client[d].id = i /\ Starting(c)
    <3>1. ~Starting(d)  BY <2>2, <2>4
    <3> QED  BY <2>1, <2>4, <3>1 DEF Knows, Starting
  <2>5. CASE client[d].id = i /\ ~Starting(c)
    BY <2>1, <2>5 DEF Knows
  <2> QED  BY <2>3, <2>4, <2>5
<1>2. ClientsKnow'  BY <1>1 DEF ClientsKnow
<1>3. StartsApart'
  <2> SUFFICES ASSUME NEW d \in Clients, NEW e \in Clients, Starting(d)', Starting(e)', d # e
               PROVE  client'[d].id # client'[e].id
    BY DEF StartsApart
  <2>1. \A g \in Clients : Starting(g)' => Starting(g) /\ client'[g].id = client[g].id
    BY DEF Starting
  <2> QED  BY <2>1 DEF JobsInv, StartsApart
<1>4. Accounted'
  <2> SUFFICES ASSUME NEW j \in Jobs
               PROVE  job'[j].listed \/ AtRest(job'[j])
                        \/ \E d \in Clients : Starting(d)' /\ client'[d].id = j
    BY DEF Accounted
  <2>1. CASE j = i  BY <2>1
  <2>2. CASE j # i
    <3>1. job[j].listed \/ AtRest(job[j]) \/ \E d \in Clients : Starting(d) /\ client[d].id = j
      BY DEF JobsInv, Accounted
    <3>2. CASE job[j].listed \/ AtRest(job[j])  BY <2>2, <3>2
    <3>3. CASE \E d \in Clients : Starting(d) /\ client[d].id = j
      <4>1. PICK d \in Clients : Starting(d) /\ client[d].id = j  BY <3>3
      <4>2. d # c  BY <2>2, <4>1
      <4> QED  BY <4>1, <4>2 DEF Starting
    <3> QED  BY <3>1, <3>2, <3>3
  <2> QED  BY <2>1, <2>2
<1>5. \A j \in Jobs : job'[j].kind = job[j].kind  OBVIOUS
<1>6. OneMission'
  <2>1. ASSUME NEW d \in Clients
        PROVE  /\ client'[d].mission = client[d].mission
               /\ client'[d].pc = "act" => client[d].mission
               /\ client[d].mission =>
                     /\ client'[d].pc \in {"spawn", "register", "collect", "act"}
                     /\ client'[d].pc \in {"spawn", "register", "collect"}
                           => job'[client'[d].id].kind = "sweep"
    <3>1. CASE d = c  BY <1>5, <3>1
    <3>2. CASE d # c
      <4>1. client'[d] = client[d]  BY <3>2
      <4>2. client[d].pc \in {"spawn", "register", "collect"} => client[d].id \in Jobs
        BY DEF JobsInv, ClientsKnow, Knows
      <4> QED  BY <1>5, <4>1, <4>2 DEF JobsInv, OneMission
    <3> QED  BY <3>1, <3>2
  <2> QED  BY <2>1, OneMissionStill
<1> QED  BY <1>2, <1>3, <1>4, <1>6 DEF JobsInv

\* One job changes under a typed state.
LEMMA OneJobTyped ==
    ASSUME JobsInv, NEW i \in Jobs, NEW new \in Job, Fits(i, new), job' = [job EXCEPT ![i] = new],
           collector' = collector, mission' = mission, client' \in [Clients -> Request]
    PROVE  TypeOK' /\ Jobs' = Jobs /\ job'[i] = new /\ \A j \in Jobs : j # i => job'[j] = job[j]
<1>1. /\ job' \in Seq(Job) /\ Len(job') = Len(job) /\ Jobs' = Jobs
      /\ job'[i] = new /\ \A j \in Jobs : j # i => job'[j] = job[j]
      /\ \A j \in Jobs : Fits(j, job'[j])
  BY OneJob DEF JobsInv
<1>2. Jobs = 1 .. Len(job) /\ Len(job) <= MaxJobs  BY JobsTyped DEF JobsInv
<1> QED  BY <1>1, <1>2, CollectorTyped, MissionTyped, TypedAgain

LEMMA SpawnInv == ASSUME JobsInv, NEW c \in Clients, Spawn(c) PROVE JobsInv'
<1>0. PICK i : i = client[c].id  OBVIOUS
<1> DEFINE new == [job[i] EXCEPT !.proc = "live"]
<1>1. /\ client[c].pc = "spawn" /\ Goto(c, "register") /\ collector' = collector /\ mission' = mission
      /\ job' = [job EXCEPT ![i] = new]
  BY <1>0 DEF Spawn
<1>2. TypeOK /\ i \in Jobs /\ job[i].proc = "none" /\ ~job[i].listed
  BY <1>0, <1>1 DEF JobsInv, ClientsKnow, Knows
<1>3. job[i] \in Job /\ Fits(i, job[i]) /\ client[c] \in Request  BY <1>2, JobsTyped
<1>4. /\ new.proc = "live" /\ new.listed = job[i].listed /\ new.kind = job[i].kind
      /\ new.file = job[i].file /\ new.rows = job[i].rows /\ new.out = job[i].out
  BY <1>3 DEF Job
<1>5. new \in Job  BY <1>3, JobFields
<1> HIDE DEF new
<1>6. Fits(i, new)  BY <1>3, <1>4 DEF Fits
<1>7. /\ client' \in [Clients -> Request]
      /\ client'[c] = [client[c] EXCEPT !.pc = "register"]
      /\ \A d \in Clients : d # c => client'[d] = client[d]
  BY <1>1, <1>2, WentTo
<1>8. client'[c].pc = "register" /\ client'[c].id = i /\ client'[c].mission = client[c].mission
  BY <1>0, <1>3, <1>7 DEF Request
<1>9. TypeOK' /\ Jobs' = Jobs /\ job'[i] = new /\ \A j \in Jobs : j # i => job'[j] = job[j]
  BY <1>1, <1>2, <1>5, <1>6, <1>7, OneJobTyped
<1>10. Starting(c) /\ Starting(c)' /\ client[c].id = i  BY <1>0, <1>1, <1>8 DEF Starting
<1>11. Knows(client[c])'  BY <1>2, <1>4, <1>8, <1>9 DEF Knows
<1>12. client[c].mission => job[i].kind = "sweep"  BY <1>0, <1>1 DEF JobsInv, OneMission
<1>13. JobGoesOn(c, i)  BY <1>2, <1>4, <1>9, <1>10 DEF JobGoesOn
<1>14. RequestGoesOn(c, i)  BY <1>7, <1>8, <1>10, <1>11, <1>12 DEF RequestGoesOn
<1> QED  BY <1>1, <1>2, <1>9, <1>13, <1>14, OneStep

LEMMA RegisterInv == ASSUME JobsInv, NEW c \in Clients, Register(c) PROVE JobsInv'
<1>0. PICK i : i = client[c].id  OBVIOUS
<1> DEFINE new == [job[i] EXCEPT !.listed = TRUE]
<1>1. /\ client[c].pc = "register" /\ collector' = collector /\ mission' = mission
      /\ job' = [job EXCEPT ![i] = new]
      /\ IF job[i].kind = "sweep" THEN Goto(c, "collect") ELSE Return(c)
  BY <1>0 DEF Register
<1>2. TypeOK /\ i \in Jobs /\ job[i].proc # "none"
  BY <1>0, <1>1 DEF JobsInv, ClientsKnow, Knows
<1>3. job[i] \in Job /\ Fits(i, job[i]) /\ client[c] \in Request  BY <1>2, JobsTyped
<1>4. /\ new.proc = job[i].proc /\ new.listed /\ new.kind = job[i].kind
      /\ new.file = job[i].file /\ new.rows = job[i].rows /\ new.out = job[i].out
  BY <1>3 DEF Job
<1>5. new \in Job  BY <1>3, JobFields
<1> HIDE DEF new
<1>6. Fits(i, new)  BY <1>2, <1>3, <1>4 DEF Fits
<1>7. client[c].mission => job[i].kind = "sweep"  BY <1>0, <1>1 DEF JobsInv, OneMission
<1>8. /\ client' \in [Clients -> Request] /\ client'[c].mission = client[c].mission
      /\ \A d \in Clients : d # c => client'[d] = client[d]
      /\ \/ client'[c].pc = "collect" /\ client'[c].id = i
         \/ client'[c].pc = "idle" /\ ~client[c].mission
  <2>1. CASE job[i].kind = "sweep"
    <3>1. /\ client' \in [Clients -> Request]
          /\ client'[c] = [client[c] EXCEPT !.pc = "collect"]
          /\ \A d \in Clients : d # c => client'[d] = client[d]
      BY <1>1, <1>2, <2>1, WentTo
    <3> QED  BY <1>0, <1>3, <3>1 DEF Request
  <2>2. CASE job[i].kind # "sweep"
    BY <1>1, <1>2, <1>7, <2>2, Returned
  <2> QED  BY <2>1, <2>2
<1>9. TypeOK' /\ Jobs' = Jobs /\ job'[i] = new /\ \A j \in Jobs : j # i => job'[j] = job[j]
  BY <1>1, <1>2, <1>5, <1>6, <1>8, OneJobTyped
<1>10. Starting(c) /\ ~Starting(c)' /\ client[c].id = i  BY <1>0, <1>1, <1>8 DEF Starting
<1>11. Knows(client[c])'  BY <1>2, <1>8, <1>9 DEF Knows
<1>12. JobGoesOn(c, i)  BY <1>2, <1>4, <1>9, <1>10 DEF JobGoesOn
<1>13. RequestGoesOn(c, i)  BY <1>4, <1>7, <1>8, <1>9, <1>10, <1>11 DEF RequestGoesOn
<1> QED  BY <1>1, <1>2, <1>9, <1>12, <1>13, OneStep

LEMMA StartFailsInv == ASSUME JobsInv, NEW c \in Clients, StartFails(c) PROVE JobsInv'
<1>0. PICK i : i = client[c].id  OBVIOUS
<1>1. /\ client[c].pc = "spawn" /\ collector' = collector /\ Return(c)
      /\ \/ job' = job
         \/ job' = [job EXCEPT ![i] = [job[i] EXCEPT !.file = FALSE]]
      /\ mission' = IF client[c].mission THEN [mission EXCEPT !.failures = mission.failures + 1]
                    ELSE mission
  BY <1>0 DEF StartFails, Failures
<1>2. TypeOK /\ i \in Jobs /\ job[i].proc = "none" /\ ~job[i].listed
  BY <1>0, <1>1 DEF JobsInv, ClientsKnow, Knows
<1>3. /\ job[i] \in Job /\ Fits(i, job[i]) /\ job \in Seq(Job) /\ Jobs = 1 .. Len(job)
      /\ Len(job) <= MaxJobs
  BY <1>2, JobsTyped
<1>4. PICK new \in Job : /\ job' = [job EXCEPT ![i] = new] /\ Fits(i, new)
                         /\ new.proc = job[i].proc /\ new.listed = job[i].listed
                         /\ new.kind = job[i].kind /\ (new.file => job[i].file)
  <2>1. CASE job' = job
    <3>1. job' = [job EXCEPT ![i] = job[i]]  BY <1>2, <1>3, <2>1
    <3> QED  BY <1>3, <3>1
  <2>2. CASE job' = [job EXCEPT ![i] = [job[i] EXCEPT !.file = FALSE]]
    <3> DEFINE n == [job[i] EXCEPT !.file = FALSE]
    <3>1. n \in Job  BY <1>3, JobFields
    <3>2. /\ n.proc = job[i].proc /\ n.listed = job[i].listed /\ n.kind = job[i].kind
          /\ n.file = FALSE /\ n.rows = job[i].rows /\ n.out = job[i].out
      BY <1>3 DEF Job
    <3> HIDE DEF n
    <3>3. Fits(i, n)  BY <1>3, <3>2 DEF Fits
    <3> QED  BY <2>2, <3>1, <3>2, <3>3 DEF n
  <2> QED  BY <1>1, <2>1, <2>2
<1>5. mission' \in Mission \cup {None}
      /\ (mission # None => mission' # None /\ mission'.status = mission.status)
  <2>1. CASE client[c].mission
    <3>1. mission \in Mission /\ None \notin Mission  BY <2>1, MissionTyped
    <3>2. mission' \in Mission /\ mission'.status = mission.status  BY <1>1, <2>1, <3>1 DEF Mission
    <3> QED  BY <3>1, <3>2
  <2>2. CASE ~client[c].mission  BY <1>1, <2>2, MissionTyped
  <2> QED  BY <2>1, <2>2
<1>6. /\ client' \in [Clients -> Request] /\ client'[c].mission = client[c].mission
      /\ client'[c].pc = IF client[c].mission THEN "act" ELSE "idle"
      /\ \A d \in Clients : d # c => client'[d] = client[d]
  BY <1>1, <1>2, Returned
<1>7. /\ job' \in Seq(Job) /\ Len(job') = Len(job) /\ Jobs' = Jobs /\ job'[i] = new
      /\ \A j \in Jobs : j # i => job'[j] = job[j]
      /\ \A j \in Jobs : Fits(j, job'[j])
  BY <1>2, <1>4, OneJob
<1>8. TypeOK'  BY <1>1, <1>3, <1>5, <1>6, <1>7, CollectorTyped, TypedAgain
<1>9. Starting(c) /\ ~Starting(c)' /\ client[c].id = i  BY <1>0, <1>1, <1>6 DEF Starting
<1>10. Knows(client[c])'  BY <1>6 DEF Knows
<1>11. AtRest(job'[i])  BY <1>2, <1>4, <1>7 DEF AtRest
<1>12. JobGoesOn(c, i)  BY <1>2, <1>4, <1>7, <1>9 DEF JobGoesOn
<1>13. RequestGoesOn(c, i)  BY <1>6, <1>9, <1>10, <1>11 DEF RequestGoesOn
<1> QED  BY <1>2, <1>5, <1>8, <1>12, <1>13, OneStep

LEMMA StopInv == ASSUME JobsInv, NEW c \in Clients, NEW i \in Jobs, Stop(c, i) PROVE JobsInv'
<1> DEFINE new == [job[i] EXCEPT !.stop = (job[i].kind = "sweep")]
<1>1. /\ client[c].pc = "idle" /\ job[i].listed /\ collector' = collector /\ mission' = mission
      /\ job' = [job EXCEPT ![i] = new]
      /\ client' = [client EXCEPT ![c] = [client[c] EXCEPT !.pc = "end", !.id = i]]
  BY JobsTyped DEF Stop, Listed, JobsInv
<1>2. /\ job[i] \in Job /\ Fits(i, job[i]) /\ client[c] \in Request /\ i \in 1 .. MaxJobs
      /\ client \in [Clients -> Request]
  BY JobsTyped DEF JobsInv
<1>3. /\ new.proc = job[i].proc /\ new.listed = job[i].listed /\ new.kind = job[i].kind
      /\ new.file = job[i].file /\ new.rows = job[i].rows /\ new.out = job[i].out
  BY <1>2 DEF Job
<1>4. new \in Job
  <2>1. (job[i].kind = "sweep") \in BOOLEAN  OBVIOUS
  <2> QED  BY <1>2, <2>1, JobFields
<1> HIDE DEF new
<1>5. Fits(i, new) /\ new.proc # "none"  BY <1>1, <1>2, <1>3 DEF Fits
<1>6. [client[c] EXCEPT !.pc = "end", !.id = i] \in Request  BY <1>2 DEF Request
<1>7. /\ client' \in [Clients -> Request] /\ client'[c].mission = client[c].mission
      /\ client'[c].pc = "end" /\ client'[c].id = i
      /\ \A d \in Clients : d # c => client'[d] = client[d]
  BY <1>1, <1>2, <1>6 DEF Request
<1>8. TypeOK' /\ Jobs' = Jobs /\ job'[i] = new /\ \A j \in Jobs : j # i => job'[j] = job[j]
  BY <1>1, <1>4, <1>5, <1>7, OneJobTyped
<1>9. ~Starting(c) /\ ~Starting(c)' /\ ~client[c].mission
  BY <1>1, <1>7 DEF Starting, JobsInv, OneMission
<1>10. Knows(client[c])'  BY <1>5, <1>7, <1>8 DEF Knows
<1>11. JobGoesOn(c, i)  BY <1>3, <1>8, <1>9 DEF JobGoesOn
<1>12. job'[i].listed  BY <1>1, <1>3, <1>8
<1>13. RequestGoesOn(c, i)  BY <1>7, <1>9, <1>10, <1>12 DEF RequestGoesOn
<1> QED  BY <1>1, <1>8, <1>11, <1>13, OneStep

LEMMA EndProcessInv == ASSUME JobsInv, NEW c \in Clients, EndProcess(c) PROVE JobsInv'
<1>0. PICK i : i = client[c].id  OBVIOUS
<1>1. /\ client[c].pc = "end" /\ Goto(c, "delete") /\ collector' = collector /\ mission' = mission
      /\ \E new \in End(i) : job' = [job EXCEPT ![i] = new]
  BY <1>0 DEF EndProcess
<1>2. TypeOK /\ i \in Jobs /\ job[i].proc # "none"
  BY <1>0, <1>1 DEF JobsInv, ClientsKnow, Knows
<1>3. job[i] \in Job /\ Fits(i, job[i]) /\ client[c] \in Request  BY <1>2, JobsTyped
<1>4. PICK code \in {"ok", "failed"} :
         job' = [job EXCEPT ![i] = [job[i] EXCEPT !.proc = IF job[i].proc = "live" THEN code
                                                           ELSE job[i].proc, !.file = FALSE]]
  BY <1>1, <1>3 DEF End
<1> DEFINE over == IF job[i].proc = "live" THEN code ELSE job[i].proc
           new == [job[i] EXCEPT !.proc = over, !.file = FALSE]
<1>5. /\ over \in {"ok", "failed"} /\ (job[i].proc # "live" => over = job[i].proc)
  BY <1>2, <1>3, JobFields
<1> HIDE DEF over
<1>6. new \in Job  BY <1>3, <1>5, JobFields
<1>7. /\ new.proc = over /\ new.listed = job[i].listed /\ new.kind = job[i].kind
      /\ new.file = FALSE /\ new.rows = job[i].rows /\ new.out = job[i].out
  BY <1>3, <1>5 DEF Job
<1>8. job' = [job EXCEPT ![i] = new]  BY <1>4 DEF over
<1> HIDE DEF new
<1>9. Fits(i, new)  BY <1>3, <1>5, <1>7 DEF Fits
<1>10. /\ client' \in [Clients -> Request]
       /\ client'[c] = [client[c] EXCEPT !.pc = "delete"]
       /\ \A d \in Clients : d # c => client'[d] = client[d]
  BY <1>1, <1>2, WentTo
<1>11. client'[c].pc = "delete" /\ client'[c].id = i /\ client'[c].mission = client[c].mission
  BY <1>0, <1>3, <1>10 DEF Request
<1>12. TypeOK' /\ Jobs' = Jobs /\ job'[i] = new /\ \A j \in Jobs : j # i => job'[j] = job[j]
  BY <1>1, <1>2, <1>6, <1>8, <1>9, <1>10, OneJobTyped
<1>13. ~Starting(c) /\ ~Starting(c)' /\ ~client[c].mission
  BY <1>1, <1>11 DEF Starting, JobsInv, OneMission
<1>14. Knows(client[c])'  BY <1>2, <1>5, <1>7, <1>11, <1>12 DEF Knows
<1>15. JobGoesOn(c, i)  BY <1>2, <1>5, <1>7, <1>12, <1>13 DEF JobGoesOn
<1>16. AtRest(job'[i])  BY <1>5, <1>7, <1>12 DEF AtRest
<1>17. RequestGoesOn(c, i)  BY <1>10, <1>11, <1>13, <1>14, <1>16 DEF RequestGoesOn
<1> QED  BY <1>1, <1>2, <1>12, <1>15, <1>17, OneStep

LEMMA DeleteInv == ASSUME JobsInv, NEW c \in Clients, Delete(c) PROVE JobsInv'
<1>0. PICK i : i = client[c].id  OBVIOUS
<1> DEFINE new == [job[i] EXCEPT !.status = "stopped", !.listed = FALSE]
<1>1. /\ client[c].pc = "delete" /\ Return(c) /\ collector' = collector /\ mission' = mission
  BY DEF Delete
<1>2. TypeOK /\ i \in Jobs /\ job[i].proc \notin {"none", "live"} /\ ~job[i].file
  BY <1>0, <1>1 DEF JobsInv, ClientsKnow, Knows
<1>3. job[i] \in Job /\ Fits(i, job[i]) /\ client[c] \in Request /\ job \in Seq(Job)
      /\ Jobs = 1 .. Len(job)
  BY <1>2, JobsTyped
<1>4. job' = [job EXCEPT ![i] = new]  BY <1>0, <1>2, <1>3 DEF Delete
<1>5. /\ new.proc = job[i].proc /\ new.listed = FALSE /\ new.kind = job[i].kind
      /\ new.file = job[i].file /\ new.rows = job[i].rows /\ new.out = job[i].out
  BY <1>3 DEF Job
<1>6. new \in Job  BY <1>3, JobFields
<1> HIDE DEF new
<1>7. Fits(i, new)  BY <1>3, <1>5 DEF Fits
<1>8. ~client[c].mission  BY <1>1 DEF JobsInv, OneMission
<1>9. /\ client' \in [Clients -> Request] /\ client'[c].mission = client[c].mission
      /\ client'[c].pc = "idle"
      /\ \A d \in Clients : d # c => client'[d] = client[d]
  BY <1>1, <1>2, <1>8, Returned
<1>10. TypeOK' /\ Jobs' = Jobs /\ job'[i] = new /\ \A j \in Jobs : j # i => job'[j] = job[j]
  BY <1>1, <1>2, <1>4, <1>6, <1>7, <1>9, OneJobTyped
<1>11. ~Starting(c) /\ ~Starting(c)'  BY <1>1, <1>9 DEF Starting
<1>12. Knows(client[c])'  BY <1>9 DEF Knows
<1>13. JobGoesOn(c, i)  BY <1>2, <1>5, <1>10, <1>11 DEF JobGoesOn
<1>14. AtRest(job'[i])  BY <1>2, <1>5, <1>10 DEF AtRest
<1>15. RequestGoesOn(c, i)  BY <1>8, <1>9, <1>11, <1>12, <1>14 DEF RequestGoesOn
<1> QED  BY <1>1, <1>2, <1>10, <1>13, <1>15, OneStep

-----------------------------------------------------------------------------
(* The mission                                                             *)

LEMMA RunInv == ASSUME JobsInv, NEW c \in Clients, NEW plan \in Plans, Run(c, plan) PROVE JobsInv'
<1> DEFINE new == [Idle EXCEPT !.pc = "act", !.mission = TRUE]
           begun == [status |-> "planned", actions |-> plan, next |-> 1, failures |-> 0, started |-> 0,
                     skipped |-> 0]
<1>1. /\ client[c].pc = "idle" /\ mission = None /\ job' = job /\ collector' = collector
      /\ mission' = begun /\ client' = [client EXCEPT ![c] = new]
  BY DEF Run
<1>2. TypeOK /\ client \in [Clients -> Request] /\ MaxJobs \in Nat /\ Len(job) <= MaxJobs
      /\ Jobs = 1 .. Len(job)
  BY JobsTyped DEF JobsInv
<1>3. new \in Request /\ new.pc = "act" /\ new.mission = TRUE
  <2>1. Idle \in Request  BY <1>2 DEF Idle, Request
  <2>2. \A r \in Request : LET act == [r EXCEPT !.pc = "act", !.mission = TRUE] IN
                            act \in Request /\ act.pc = "act" /\ act.mission = TRUE
    BY DEF Request
  <2> QED  BY <2>1, <2>2
<1>4. begun \in Mission /\ begun.status = "planned"  BY DEF Mission
<1>5. None \notin Mission /\ \A d \in Clients : ~client[d].mission
  BY <1>1, JobsAssumption DEF JobsInv, OneMission
<1> HIDE DEF new, begun
<1>6. /\ client' \in [Clients -> Request] /\ client'[c] = new
      /\ \A d \in Clients : d # c => client'[d] = client[d]
  BY <1>1, <1>2, <1>3
<1>7. /\ job' \in Seq(Job) /\ Len(job') = Len(job)
      /\ \A j \in Jobs : Fits(j, job'[j]) /\ Continues(job[j], job'[j])
  BY <1>1, SameJobs
<1>8. TypeOK' /\ Jobs' = Jobs
  <2>1. Jobs' = Jobs  BY <1>1 DEF Jobs
  <2> QED  BY <1>1, <1>2, <1>4, <1>6, <1>7, <2>1, CollectorTyped, TypedAgain
<1>9. ClientsKnow' /\ StartsApart' /\ Accounted'
  <2>1. \A d \in Clients :
           \/ client'[d].pc = client[d].pc /\ client'[d].id = client[d].id
           \/ client'[d].pc \in {"idle", "refresh", "act"} /\ ~Starting(d)
    BY <1>1, <1>3, <1>6 DEF Starting
  <2> QED  BY <1>7, <1>8, <2>1, QuietStep
<1>10. OneMission'
  <2>1. mission' # None /\ mission'.status = "planned"  BY <1>1, <1>4, <1>5
  <2>2. \A d \in Clients : d # c => ~client'[d].mission /\ client'[d].pc # "act"
    BY <1>5, <1>6 DEF JobsInv, OneMission
  <2>3. client'[c].mission /\ client'[c].pc = "act"  BY <1>3, <1>6
  <2> QED  BY <2>1, <2>2, <2>3 DEF OneMission
<1> QED  BY <1>8, <1>9, <1>10 DEF JobsInv

LEMMA ConcludeInv == ASSUME JobsInv, NEW c \in Clients, Conclude(c) PROVE JobsInv'
<1>1. /\ client[c].pc = "act" /\ job' = job /\ collector' = collector
      /\ client' = [client EXCEPT ![c] = Idle]
      /\ mission' = [mission EXCEPT !.status = IF mission.failures > 0 THEN "degraded" ELSE "running"]
  BY DEF Conclude
<1>2. TypeOK /\ client \in [Clients -> Request] /\ MaxJobs \in Nat /\ Len(job) <= MaxJobs
      /\ Jobs = 1 .. Len(job)
  BY JobsTyped DEF JobsInv
<1>3. Idle \in Request /\ Idle.pc = "idle" /\ Idle.mission = FALSE  BY <1>2 DEF Idle, Request
<1>4. mission' \in Mission /\ None \notin Mission
  <2>1. mission \in Mission /\ None \notin Mission  BY <1>1, MissionTyped
  <2> QED  BY <1>1, <2>1 DEF Mission
<1>5. client[c].mission /\ \A d \in Clients : d # c => ~client[d].mission
  BY <1>1 DEF JobsInv, OneMission
<1>6. /\ client' \in [Clients -> Request] /\ client'[c] = Idle
      /\ \A d \in Clients : d # c => client'[d] = client[d]
  BY <1>1, <1>2, <1>3
<1>7. /\ job' \in Seq(Job) /\ Len(job') = Len(job)
      /\ \A j \in Jobs : Fits(j, job'[j]) /\ Continues(job[j], job'[j])
  BY <1>1, SameJobs
<1>8. TypeOK' /\ Jobs' = Jobs
  <2>1. Jobs' = Jobs  BY <1>1 DEF Jobs
  <2> QED  BY <1>1, <1>2, <1>4, <1>6, <1>7, <2>1, CollectorTyped, TypedAgain
<1>9. ClientsKnow' /\ StartsApart' /\ Accounted'
  <2>1. \A d \in Clients :
           \/ client'[d].pc = client[d].pc /\ client'[d].id = client[d].id
           \/ client'[d].pc \in {"idle", "refresh", "act"} /\ ~Starting(d)
    BY <1>1, <1>3, <1>6 DEF Starting
  <2> QED  BY <1>7, <1>8, <2>1, QuietStep
<1>10. OneMission'
  <2>1. \A d \in Clients : ~client'[d].mission /\ client'[d].pc # "act"
    BY <1>3, <1>5, <1>6 DEF JobsInv, OneMission
  <2> QED  BY <2>1 DEF OneMission
<1> QED  BY <1>8, <1>9, <1>10 DEF JobsInv

-----------------------------------------------------------------------------
(* The invariant holds                                                     *)

LEMMA InitJobsInv == Init => JobsInv
<1> SUFFICES ASSUME Init PROVE JobsInv
  OBVIOUS
<1>1. job = <<>> /\ mission = None /\ client = [c \in Clients |-> Idle]
      /\ collector = [i \in 1 .. MaxJobs |-> "none"]
  BY DEF Init
<1>2. MaxJobs \in Nat  BY JobsAssumption
<1>3. Idle \in Request /\ Idle.pc = "idle" /\ Idle.mission = FALSE  BY <1>2 DEF Idle, Request
<1>4. job \in Seq(Job) /\ Len(job) = 0 /\ Jobs = {}  BY <1>1 DEF Jobs
<1>5. TypeOK  BY <1>1, <1>2, <1>3, <1>4 DEF TypeOK
<1>6. \A c \in Clients : client[c].pc = "idle" /\ client[c].mission = FALSE  BY <1>1, <1>3
<1>7. ClientsKnow /\ StartsApart /\ OneMission
  BY <1>6 DEF ClientsKnow, Knows, StartsApart, Starting, OneMission
<1>8. Accounted  BY <1>4 DEF Accounted
<1> QED  BY <1>5, <1>7, <1>8 DEF JobsInv

\* What a process or a collector does.
ProcessStep ==
    BusyStreamStart \/ \E i \in Jobs : Work(i) \/ ProcessFails(i) \/ PrintRow(i) \/ Collect(i)

LEMMA ProcessStepInv == JobsInv /\ ProcessStep => JobsInv'
<1> SUFFICES ASSUME JobsInv, ProcessStep PROVE JobsInv'
  OBVIOUS
<1>1. CASE BusyStreamStart  BY <1>1, BusyStreamStartInv
<1>2. ASSUME NEW i \in Jobs, Work(i) PROVE JobsInv'
  <2>1. CASE Transmit(i)  BY <2>1, TransmitInv
  <2>2. CASE BurstOver(i)  BY <2>2, ExitInv DEF BurstOver
  <2> QED  BY <1>2, <2>1, <2>2 DEF Work
<1>3. ASSUME NEW i \in Jobs, ProcessFails(i) PROVE JobsInv'  BY <1>3, ExitInv DEF ProcessFails
<1>4. ASSUME NEW i \in Jobs, PrintRow(i) PROVE JobsInv'  BY <1>4, PrintRowInv
<1>5. ASSUME NEW i \in Jobs, Collect(i) PROVE JobsInv'  BY <1>5, CollectInv
<1> QED  BY <1>1, <1>2, <1>3, <1>4, <1>5 DEF ProcessStep

\* What a request does.
ClientStep(c) ==
    \/ \E w \in Workers : StartTx(c, w)
    \/ StartSweep(c) \/ List(c)
    \/ \E i \in Jobs : Stop(c, i)
    \/ \E plan \in Plans : Run(c, plan)
    \/ RequestStep(c)

LEMMA NextIs == Next => ProcessStep \/ \E c \in Clients : ClientStep(c)
BY DEF Next, ProcessStep, ClientStep

LEMMA ClientStepInv == ASSUME JobsInv, NEW c \in Clients, ClientStep(c) PROVE JobsInv'
<1>1. CASE (\E w \in Workers : StartTx(c, w)) \/ StartSweep(c)  BY <1>1, StartsInv
<1>2. CASE List(c)  BY <1>2, ListInv
<1>3. CASE \E i \in Jobs : Stop(c, i)  BY <1>3, StopInv
<1>4. CASE \E plan \in Plans : Run(c, plan)  BY <1>4, RunInv
<1>5. CASE RequestStep(c)
  <2>1. CASE Spawn(c)  BY <2>1, SpawnInv
  <2>2. CASE StartFails(c)  BY <2>2, StartFailsInv
  <2>3. CASE Register(c)  BY <2>3, RegisterInv
  <2>4. CASE StartCollector(c)  BY <2>4, StartCollectorInv
  <2>5. CASE EndProcess(c)  BY <2>5, EndProcessInv
  <2>6. CASE Delete(c)  BY <2>6, DeleteInv
  <2>7. CASE Refresh(c)  BY <2>7, RefreshInv
  <2>8. CASE RefreshEnds(c)  BY <2>8, RefreshEndsInv
  <2>9. CASE ActSweep(c)  BY <2>9, StartsInv
  <2>10. CASE ActSkip(c) \/ ActQueue(c)  BY <2>10, ActPassedInv
  <2>11. CASE Conclude(c)  BY <2>11, ConcludeInv
  <2> QED
    BY <1>5, <2>1, <2>2, <2>3, <2>4, <2>5, <2>6, <2>7, <2>8, <2>9, <2>10, <2>11 DEF RequestStep
<1> QED  BY <1>1, <1>2, <1>3, <1>4, <1>5 DEF ClientStep

LEMMA StutterInv == JobsInv /\ UNCHANGED vars => JobsInv'
BY DEF JobsInv, TypeOK, ClientsKnow, Knows, StartsApart, Starting, Accounted, AtRest, OneMission,
       Jobs, vars

\* What requests know of their jobs stays true, whatever the others do: the
\* inductive invariant of sessions and requests.
THEOREM JobsInvHolds == Spec => []JobsInv
<1>1. Init => JobsInv  BY InitJobsInv
<1>2. JobsInv /\ [Next]_vars => JobsInv'
  BY NextIs, ProcessStepInv, ClientStepInv, StutterInv
<1> QED  BY <1>1, <1>2, PTL DEF Spec

\* When no session lists a job and no request works on it, its process is not
\* alive, and its burst file is gone unless the process was never started:
\* stop and start of TxManager and SweepManager, in every order of threads.
THEOREM JobsNothingLeftBehind == Spec => []NothingLeftBehind
<1>1. JobsInv => NothingLeftBehind
  BY DEF JobsInv, Accounted, AtRest, NothingLeftBehind, Handled
<1> QED  BY <1>1, JobsInvHolds, PTL

-----------------------------------------------------------------------------
(* The pipe of a sweep and the window of its session                       *)

\* The rows that are in a pipe, and their order, without ranges.
InOrder(out, read, rows) ==
    /\ \A k \in 1 .. Len(out) : out[k] = 0 \/ (read < out[k] /\ out[k] <= rows)
    /\ \A row \in Nat : read < row /\ row <= rows => \E k \in 1 .. Len(out) : out[k] = row
    /\ \A k, l \in 1 .. Len(out) : k < l /\ out[l] # 0 => out[k] < out[l]

LEMMA UnreadIs ==
    ASSUME NEW out \in Seq(Nat), NEW read \in Nat, NEW rows \in Nat
    PROVE  Unread(out, read, rows) <=> InOrder(out, read, rows)
<1>1. DOMAIN out = 1 .. Len(out) /\ \A k \in 1 .. Len(out) : out[k] \in Nat  OBVIOUS
<1>2. \A row : row \in Range(out) \ {0} <=> row # 0 /\ \E k \in 1 .. Len(out) : out[k] = row
  BY <1>1 DEF Range
<1>3. \A row : row \in read + 1 .. rows <=> row \in Nat /\ read < row /\ row <= rows
  OBVIOUS
<1>4. Range(out) \ {0} = read + 1 .. rows <=>
         \A row : row \in Range(out) \ {0} <=> row \in read + 1 .. rows
  BY Zenon
<1>5. ASSUME Unread(out, read, rows) PROVE InOrder(out, read, rows)
  <2>1. \A row : row \in Range(out) \ {0} <=> row \in read + 1 .. rows  BY <1>4, <1>5 DEF Unread
  <2>2. \A k \in 1 .. Len(out) : out[k] = 0 \/ (read < out[k] /\ out[k] <= rows)
    BY <1>2, <1>3, <2>1
  <2>3. \A row \in Nat : read < row /\ row <= rows => \E k \in 1 .. Len(out) : out[k] = row
    BY <1>2, <1>3, <2>1
  <2> QED  BY <1>1, <1>5, <2>2, <2>3 DEF Unread, InOrder
<1>6. ASSUME InOrder(out, read, rows) PROVE Unread(out, read, rows)
  <2>1. ASSUME NEW row PROVE row \in Range(out) \ {0} <=> row \in read + 1 .. rows
    <3>1. row \in read + 1 .. rows => row # 0  OBVIOUS
    <3> QED  BY <1>1, <1>2, <1>3, <1>6, <3>1 DEF InOrder
  <2> QED  BY <1>1, <1>4, <1>6, <2>1 DEF Unread, InOrder
<1> QED  BY <1>5, <1>6

LEMMA NothingUnread == NewestOf(<<>>, 0) /\ Unread(<<>>, 0, 0)
<1>1. Window \in Nat \ {0}  BY JobsAssumption
<1>2. <<>> \in Seq(Nat) /\ Len(<<>>) = 0  OBVIOUS
<1>3. NewestOf(<<>>, 0)  BY <1>1, <1>2 DEF NewestOf
<1>4. InOrder(<<>>, 0, 0)  BY <1>2 DEF InOrder
<1> QED  BY <1>2, <1>3, <1>4, UnreadIs

LEMMA RowPrinted ==
    ASSUME NEW out \in Seq(Nat), NEW rows \in Nat, NEW read \in 0 .. rows, Unread(out, read, rows)
    PROVE  Unread(Append(out, 0), read, rows) /\ Unread(Append(out, rows + 1), read, rows + 1)
<1>1. read \in Nat /\ read <= rows /\ rows + 1 \in Nat /\ Len(out) \in Nat  OBVIOUS
<1>2. InOrder(out, read, rows) /\ \A k \in 1 .. Len(out) : out[k] \in Nat  BY <1>1, UnreadIs
<1>3. ASSUME NEW row \in {0, rows + 1}, NEW printed \in Nat,
             \/ row = 0 /\ printed = rows
             \/ row = rows + 1 /\ printed = rows + 1
      PROVE  Unread(Append(out, row), read, printed)
  <2>1. PICK longer : longer = Append(out, row)  OBVIOUS
  <2>2. /\ longer \in Seq(Nat) /\ Len(longer) = Len(out) + 1
        /\ \A k \in 1 .. Len(out) : longer[k] = out[k]
        /\ longer[Len(out) + 1] = row
    BY <1>1, <2>1, AppendProperties
  <2>3. \A k \in 1 .. Len(longer) : k \in 1 .. Len(out) \/ k = Len(out) + 1
    BY <1>1, <2>2
  <2>4. ASSUME NEW k \in 1 .. Len(longer)
        PROVE  longer[k] = 0 \/ (read < longer[k] /\ longer[k] <= printed)
    <3>1. CASE k \in 1 .. Len(out)
      <4>1. longer[k] = out[k] /\ out[k] \in Nat  BY <1>2, <2>2, <3>1
      <4>2. out[k] = 0 \/ (read < out[k] /\ out[k] <= rows)  BY <1>2, <3>1 DEF InOrder
      <4> QED  BY <1>1, <1>3, <4>1, <4>2
    <3>2. CASE k = Len(out) + 1  BY <1>1, <1>3, <2>2, <3>2
    <3> QED  BY <2>3, <3>1, <3>2
  <2>5. ASSUME NEW n \in Nat, read < n, n <= printed
        PROVE  \E k \in 1 .. Len(longer) : longer[k] = n
    <3>1. CASE n <= rows
      <4>1. PICK k \in 1 .. Len(out) : out[k] = n  BY <1>2, <2>5, <3>1 DEF InOrder
      <4>2. k \in 1 .. Len(longer) /\ longer[k] = n  BY <1>1, <2>2, <4>1
      <4> QED  BY <4>2
    <3>2. CASE ~(n <= rows)
      <4>1. n = row  BY <1>1, <1>3, <2>5, <3>2
      <4>2. Len(out) + 1 \in 1 .. Len(longer) /\ longer[Len(out) + 1] = n  BY <1>1, <2>2, <4>1
      <4> QED  BY <4>2
    <3> QED  BY <3>1, <3>2
  <2>6. ASSUME NEW k \in 1 .. Len(longer), NEW l \in 1 .. Len(longer), k < l, longer[l] # 0
        PROVE  longer[k] < longer[l]
    <3>1. k \in 1 .. Len(out) /\ longer[k] = out[k]  BY SMTT(20), <1>1, <2>2, <2>6
    <3>2. CASE l \in 1 .. Len(out)
      <4>1. longer[l] = out[l]  BY <2>2, <3>2
      <4> QED  BY <1>2, <2>6, <3>1, <3>2, <4>1 DEF InOrder
    <3>3. CASE l = Len(out) + 1
      <4>1. longer[l] = rows + 1  BY <1>3, <2>2, <2>6, <3>3
      <4>2. out[k] = 0 \/ out[k] <= rows  BY <1>2, <3>1 DEF InOrder
      <4> QED  BY <1>1, <1>2, <3>1, <4>1, <4>2
    <3> QED  BY <2>3, <3>2, <3>3
  <2>7. InOrder(longer, read, printed)  BY <2>4, <2>5, <2>6 DEF InOrder
  <2> QED  BY <1>1, <2>1, <2>2, <2>7, UnreadIs
<1> QED  BY <1>1, <1>3

\* deque(maxlen): the newest rows without the oldest one, when it is full, and
\* with the next one.
LEMMA KeptIsNewest ==
    ASSUME NEW window \in Seq(Nat), NEW read \in Nat, NewestOf(window, read)
    PROVE  NewestOf(Kept(window, read + 1), read + 1)
<1>1. Window \in Nat \ {0} /\ Len(window) \in Nat  BY JobsAssumption
<1>2. /\ Len(window) = IF read < Window THEN read ELSE Window
      /\ \A k \in 1 .. Len(window) : window[k] = read - Len(window) + k
  BY DEF NewestOf
<1> DEFINE rest == IF Len(window) = Window THEN Tail(window) ELSE window
<1>3. /\ rest \in Seq(Nat) /\ Len(rest) + 1 = IF read + 1 < Window THEN read + 1 ELSE Window
      /\ \A k \in 1 .. Len(rest) : rest[k] = read - Len(rest) + k
  <2>1. CASE Len(window) = Window
    <3>1. window # <<>>  BY <1>1, <2>1
    <3>2. /\ Tail(window) \in Seq(Nat) /\ Len(Tail(window)) = Len(window) - 1
          /\ \A k \in 1 .. Len(Tail(window)) : Tail(window)[k] = window[k + 1]
      BY <3>1, HeadTailProperties
    <3>3. rest = Tail(window)  BY <2>1
    <3> HIDE DEF rest
    <3>4. read \in Nat /\ read >= Window  BY <1>1, <1>2, <2>1
    <3>5. rest \in Seq(Nat) /\ Len(rest) = Window - 1  BY <2>1, <3>2, <3>3
    <3>6. ASSUME NEW k \in 1 .. Len(rest) PROVE rest[k] = read - Len(rest) + k
      <4>1. rest[k] = window[k + 1] /\ k + 1 \in 1 .. Len(window)  BY <1>1, <2>1, <3>2, <3>3, <3>5
      <4>2. window[k + 1] = read - Len(window) + (k + 1)  BY <1>2, <4>1
      <4> QED  BY <1>1, <2>1, <3>4, <3>5, <4>1, <4>2
    <3> QED  BY <1>1, <3>4, <3>5, <3>6
  <2>2. CASE Len(window) # Window
    BY <1>1, <1>2, <2>2
  <2> QED  BY <2>1, <2>2
<1>4. Kept(window, read + 1) = Append(rest, read + 1)  BY DEF Kept
<1> HIDE DEF rest
<1>5. /\ Len(Append(rest, read + 1)) = Len(rest) + 1
      /\ \A k \in 1 .. Len(rest) : Append(rest, read + 1)[k] = rest[k]
      /\ Append(rest, read + 1)[Len(rest) + 1] = read + 1
  BY <1>3, AppendProperties
<1>6. PICK kept : kept = Append(rest, read + 1)  OBVIOUS
<1>7. /\ Len(rest) \in Nat /\ Len(kept) = Len(rest) + 1
      /\ \A k \in 1 .. Len(rest) : kept[k] = rest[k]
      /\ kept[Len(rest) + 1] = read + 1
  BY <1>3, <1>5, <1>6
<1>8. ASSUME NEW k \in 1 .. Len(kept) PROVE kept[k] = read + 1 - Len(kept) + k
  <2>1. CASE k \in 1 .. Len(rest)
    <3>1. kept[k] = read - Len(rest) + k  BY <1>3, <1>7, <2>1
    <3> QED  BY <1>7, <3>1
  <2>2. CASE k = Len(rest) + 1  BY <1>7, <2>2
  <2> QED  BY <1>7, <2>1, <2>2
<1>9. NewestOf(kept, read + 1)  BY <1>3, <1>7, <1>8 DEF NewestOf
<1> QED  BY <1>4, <1>6, <1>9

\* The next row of the pipe, if it is one, is the next one of the sweep.
LEMMA RowTaken ==
    ASSUME NEW out \in Seq(Nat), NEW rows \in Nat, NEW read \in 0 .. rows, Unread(out, read, rows),
           out # <<>>
    PROVE  /\ Head(out) = 0 => Unread(Tail(out), read, rows)
           /\ Head(out) # 0 => /\ Head(out) = read + 1 /\ read + 1 \in 0 .. rows
                               /\ Unread(Tail(out), read + 1, rows)
<1>1. read \in Nat /\ read <= rows  OBVIOUS
<1>2. InOrder(out, read, rows) /\ \A k \in 1 .. Len(out) : out[k] \in Nat  BY <1>1, UnreadIs
<1>3. PICK rest : rest = Tail(out)  OBVIOUS
<1>4. /\ Len(out) \in Nat \ {0} /\ Head(out) = out[1]
      /\ rest \in Seq(Nat) /\ Len(rest) = Len(out) - 1
      /\ \A k \in 1 .. Len(rest) : rest[k] = out[k + 1]
  BY <1>3, HeadTailProperties
<1>5. \A k \in 1 .. Len(rest) : k + 1 \in 1 .. Len(out) /\ 1 < k + 1  BY <1>4
<1>6. ASSUME NEW k \in 1 .. Len(out), k # 1
      PROVE  k - 1 \in 1 .. Len(rest) /\ rest[k - 1] = out[k]
  <2>1. k - 1 \in 1 .. Len(rest) /\ (k - 1) + 1 = k  BY <1>4, <1>6
  <2> QED  BY <1>4, <2>1
<1>7. ASSUME NEW k \in 1 .. Len(rest), NEW l \in 1 .. Len(rest), k < l, rest[l] # 0
      PROVE  rest[k] < rest[l]
  <2>1. k + 1 < l + 1 /\ rest[k] = out[k + 1] /\ rest[l] = out[l + 1]  BY SMTT(20), <1>4, <1>7
  <2> QED  BY <1>2, <1>5, <1>7, <2>1 DEF InOrder
<1>8. ASSUME Head(out) = 0 PROVE Unread(rest, read, rows)
  <2>1. ASSUME NEW k \in 1 .. Len(rest)
        PROVE  rest[k] = 0 \/ (read < rest[k] /\ rest[k] <= rows)
    BY <1>2, <1>4, <1>5 DEF InOrder
  <2>2. ASSUME NEW row \in Nat, read < row, row <= rows PROVE \E k \in 1 .. Len(rest) : rest[k] = row
    <3>1. PICK k \in 1 .. Len(out) : out[k] = row  BY <1>2, <2>2 DEF InOrder
    <3>2. k # 1  BY <1>1, <1>4, <1>8, <2>2, <3>1
    <3> QED  BY <1>6, <3>1, <3>2
  <2>3. InOrder(rest, read, rows)  BY <1>7, <2>1, <2>2 DEF InOrder
  <2> QED  BY <1>1, <1>4, <2>3, UnreadIs
<1>9. ASSUME Head(out) # 0
      PROVE  Head(out) = read + 1 /\ read + 1 \in 0 .. rows /\ Unread(rest, read + 1, rows)
  <2>1. 1 \in 1 .. Len(out)  BY <1>4
  <2>2. out[1] \in Nat /\ read < out[1] /\ out[1] <= rows  BY <1>2, <1>4, <1>9, <2>1 DEF InOrder
  <2>3. out[1] = read + 1
    <3>1. read + 1 \in Nat /\ read < read + 1 /\ read + 1 <= rows  BY <1>1, <2>2
    <3>2. PICK k \in 1 .. Len(out) : out[k] = read + 1  BY <1>2, <3>1 DEF InOrder
    <3>3. CASE k = 1  BY <3>2, <3>3
    <3>4. CASE k # 1
      <4>1. 1 < k /\ out[k] # 0  BY <1>1, <1>4, <3>2, <3>4
      <4>2. out[1] < out[k]  BY <1>2, <2>1, <4>1 DEF InOrder
      <4> QED  BY <1>1, <2>2, <3>2, <4>2
    <3> QED  BY <3>3, <3>4
  <2>4. ASSUME NEW k \in 1 .. Len(rest), rest[k] # 0 PROVE read + 1 < rest[k] /\ rest[k] <= rows
    <3>1. rest[k] = out[k + 1] /\ k + 1 \in 1 .. Len(out) /\ 1 < k + 1  BY <1>4, <1>5
    <3>2. out[1] < out[k + 1] /\ out[k + 1] <= rows  BY <1>2, <2>1, <2>4, <3>1 DEF InOrder
    <3> QED  BY <2>3, <3>1, <3>2
  <2>5. ASSUME NEW row \in Nat, read + 1 < row, row <= rows
        PROVE  \E k \in 1 .. Len(rest) : rest[k] = row
    <3>1. read < row  BY <1>1, <2>5
    <3>2. PICK k \in 1 .. Len(out) : out[k] = row  BY <1>2, <2>5, <3>1 DEF InOrder
    <3>3. k # 1  BY <1>1, <2>3, <2>5, <3>2
    <3> QED  BY <1>6, <3>2, <3>3
  <2>6. InOrder(rest, read + 1, rows)  BY <1>7, <2>4, <2>5 DEF InOrder
  <2>7. read + 1 \in Nat /\ read + 1 \in 0 .. rows  BY <1>1, <2>2, <2>3
  <2> QED  BY <1>4, <2>3, <2>6, <2>7, UnreadIs
<1> QED  BY <1>3, <1>8, <1>9

-----------------------------------------------------------------------------
(* The samples of a sweep                                                  *)

\* The rows of a job are left alone.
SameRows(old, new) ==
    new.kind = old.kind /\ new.rows = old.rows /\ new.out = old.out /\ new.window = old.window

\* Only the process of a sweep and its collector touch its rows.
RowsKept == Jobs' = Jobs /\ \A i \in Jobs : SameRows(job[i], job'[i])

LEMMA OneJobRows ==
    ASSUME JobsInv, NEW i, NEW new, job' = [job EXCEPT ![i] = new],
           i \in Jobs => SameRows(job[i], new)
    PROVE  RowsKept
<1>1. job \in Seq(Job) /\ Jobs = 1 .. Len(job)  BY JobsTyped DEF JobsInv
<1>2. Jobs' = Jobs /\ \A j \in Jobs : job'[j] = IF j = i THEN new ELSE job[j]  BY DEF Jobs
<1> QED  BY <1>2 DEF RowsKept, SameRows

LEMMA FieldsKeepRows ==
    ASSUME NEW j \in Job
    PROVE  /\ \A b : /\ SameRows(j, [j EXCEPT !.proc = b])
                     /\ SameRows(j, [j EXCEPT !.listed = b])
                     /\ SameRows(j, [j EXCEPT !.file = b])
                     /\ SameRows(j, [j EXCEPT !.left = b])
                     /\ SameRows(j, [j EXCEPT !.stop = b])
                     /\ SameRows(j, [j EXCEPT !.status = b])
           /\ \A a, b : /\ SameRows(j, [j EXCEPT !.status = a, !.listed = b])
                        /\ SameRows(j, [j EXCEPT !.proc = a, !.file = b])
BY DEF Job, SameRows

LEMMA ClientStepKeepsRows ==
    ASSUME JobsInv, NEW c \in Clients,
           \/ Spawn(c) \/ StartFails(c) \/ Register(c) \/ StartCollector(c)
           \/ EndProcess(c) \/ Delete(c) \/ Refresh(c) \/ RefreshEnds(c)
           \/ ActSkip(c) \/ ActQueue(c) \/ Conclude(c) \/ List(c)
           \/ (\E i \in Jobs : Stop(c, i)) \/ \E plan \in Plans : Run(c, plan)
    PROVE  RowsKept
<1>0. PICK i : i = client[c].id  OBVIOUS
<1>1. /\ job \in Seq(Job) /\ Jobs = 1 .. Len(job)
      /\ \A j \in Jobs : job[j] \in Job
  BY JobsTyped DEF JobsInv
<1>2. ASSUME job' = job PROVE RowsKept
  BY <1>2 DEF RowsKept, SameRows, Jobs
<1>3. CASE Spawn(c)
  <2>1. job' = [job EXCEPT ![i] = [job[i] EXCEPT !.proc = "live"]]  BY <1>0, <1>3 DEF Spawn
  <2>2. i \in Jobs => SameRows(job[i], [job[i] EXCEPT !.proc = "live"])  BY <1>1, FieldsKeepRows
  <2> QED  BY <2>1, <2>2, OneJobRows
<1>4. CASE StartFails(c)
  <2>1. job' = job \/ job' = [job EXCEPT ![i] = [job[i] EXCEPT !.file = FALSE]]
    BY <1>0, <1>4 DEF StartFails
  <2>2. i \in Jobs => SameRows(job[i], [job[i] EXCEPT !.file = FALSE])  BY <1>1, FieldsKeepRows
  <2> QED  BY <1>2, <2>1, <2>2, OneJobRows
<1>5. CASE Register(c)
  <2>1. job' = [job EXCEPT ![i] = [job[i] EXCEPT !.listed = TRUE]]  BY <1>0, <1>5 DEF Register
  <2>2. i \in Jobs => SameRows(job[i], [job[i] EXCEPT !.listed = TRUE])  BY <1>1, FieldsKeepRows
  <2> QED  BY <2>1, <2>2, OneJobRows
<1>6. CASE EndProcess(c)
  <2>1. PICK new \in End(i) : job' = [job EXCEPT ![i] = new]  BY <1>0, <1>6 DEF EndProcess
  <2>2. PICK code : new = [job[i] EXCEPT !.proc = IF job[i].proc = "live" THEN code ELSE job[i].proc,
                                         !.file = FALSE]
    <3>1. i \in Jobs  BY <1>0, <1>6 DEF EndProcess, JobsInv, ClientsKnow, Knows
    <3> QED  BY <1>1, <2>1, <3>1 DEF End
  <2>3. i \in Jobs => SameRows(job[i], new)  BY <1>1, <2>2, FieldsKeepRows
  <2> QED  BY <2>1, <2>3, OneJobRows
<1>7. CASE Delete(c)
  <2>1. i \in Jobs  BY <1>0, <1>7 DEF Delete, JobsInv, ClientsKnow, Knows
  <2>2. job' = [job EXCEPT ![i] = [job[i] EXCEPT !.status = "stopped", !.listed = FALSE]]
    BY <1>0, <1>1, <1>7, <2>1 DEF Delete
  <2>3. i \in Jobs => SameRows(job[i], [job[i] EXCEPT !.status = "stopped", !.listed = FALSE])
    BY <1>1, FieldsKeepRows
  <2> QED  BY <2>2, <2>3, OneJobRows
<1>8. CASE Refresh(c)
  <2>1. PICK k, s : job' = job \/ job' = [job EXCEPT ![k] = [job[k] EXCEPT !.status = s]]
    BY <1>8 DEF Refresh
  <2>2. k \in Jobs => SameRows(job[k], [job[k] EXCEPT !.status = s])  BY <1>1, FieldsKeepRows
  <2> QED  BY <1>2, <2>1, <2>2, OneJobRows
<1>9. CASE \E k \in Jobs : Stop(c, k)
  <2>1. PICK k \in Jobs : job' = [job EXCEPT ![k] = [job[k] EXCEPT !.stop = (job[k].kind = "sweep")]]
    BY <1>9 DEF Stop
  <2>2. k \in Jobs => SameRows(job[k], [job[k] EXCEPT !.stop = (job[k].kind = "sweep")])
    BY <1>1, FieldsKeepRows
  <2> QED  BY <2>1, <2>2, OneJobRows
<1>10. CASE \/ StartCollector(c) \/ RefreshEnds(c) \/ ActSkip(c) \/ ActQueue(c) \/ Conclude(c)
             \/ List(c)
            \/ \E plan \in Plans : Run(c, plan)
  BY <1>2, <1>10 DEF StartCollector, RefreshEnds, ActSkip, ActQueue, Conclude, List, Run
<1> QED  BY <1>3, <1>4, <1>5, <1>6, <1>7, <1>8, <1>9, <1>10

LEMMA ProcessStepKeepsRows ==
    ASSUME JobsInv,
           \/ BusyStreamStart
           \/ \E i \in Jobs : Work(i) \/ ProcessFails(i) \/ CollectTop(i) \/ CollectEnd(i)
    PROVE  RowsKept
<1>1. /\ job \in Seq(Job) /\ Jobs = 1 .. Len(job)
      /\ \A j \in Jobs : job[j] \in Job
  BY JobsTyped DEF JobsInv
<1>2. ASSUME NEW i \in Jobs, NEW code, Exit(i, code) PROVE RowsKept
  <2>1. job' = [job EXCEPT ![i] = [job[i] EXCEPT !.proc = code]]  BY <1>2 DEF Exit
  <2>2. SameRows(job[i], [job[i] EXCEPT !.proc = code])  BY <1>1, FieldsKeepRows
  <2> QED  BY <2>1, <2>2, OneJobRows
<1>3. CASE BusyStreamStart
  <2>1. /\ Jobs' = Jobs
        /\ \A i \in Jobs : job'[i] = job[i] \/ job'[i] = [job[i] EXCEPT !.proc = "failed"]
    BY <1>3 DEF BusyStreamStart, Jobs
  <2>2. \A i \in Jobs : SameRows(job[i], job[i]) /\ SameRows(job[i], [job[i] EXCEPT !.proc = "failed"])
    <3>1. \A i \in Jobs : SameRows(job[i], job[i])  BY DEF SameRows
    <3> QED  BY <3>1, <1>1, FieldsKeepRows
  <2> QED  BY <2>1, <2>2 DEF RowsKept
<1>4. ASSUME NEW i \in Jobs, Work(i) \/ ProcessFails(i) PROVE RowsKept
  <2>1. CASE Transmit(i)
    <3>1. job' = [job EXCEPT ![i] = [job[i] EXCEPT !.left = job[i].left - 1]]
      BY <2>1, <1>1 DEF Transmit
    <3>2. SameRows(job[i], [job[i] EXCEPT !.left = job[i].left - 1])  BY <1>1, FieldsKeepRows
    <3> QED  BY <3>1, <3>2, OneJobRows
  <2> QED  BY <1>2, <1>4, <2>1 DEF Work, BurstOver, ProcessFails
<1>5. ASSUME NEW i \in Jobs, CollectTop(i) \/ CollectEnd(i) PROVE RowsKept
  BY <1>5 DEF CollectTop, CollectEnd, RowsKept, SameRows, Jobs
<1> QED  BY <1>3, <1>4, <1>5

\* A session's samples and its pipe, together.
Fed(j) == \E read \in 0 .. j.rows : NewestOf(j.window, read) /\ Unread(j.out, read, j.rows)

LEMMA SweepsFed == WindowIsNewest <=> \A i \in Jobs : job[i].kind # "tx" => Fed(job[i])
BY DEF WindowIsNewest, Fed, Bursts

LEMMA FedAgain ==
    ASSUME NEW old, NEW new, SameRows(old, new), Fed(old)
    PROVE  Fed(new)
BY DEF SameRows, Fed

LEMMA StartFed ==
    ASSUME JobsInv, WindowIsNewest, NEW c \in Clients, NEW kind \in {"tx", "sweep"},
           NEW worker \in Workers \cup {None}, Start(c, kind, worker)
    PROVE  WindowIsNewest'
<1>1. /\ Jobs' = Jobs \cup {Newest} /\ \A i \in Jobs : job'[i] = job[i]
      /\ job'[Newest] = NewJob(kind, worker)
  BY StartIs
<1>2. Fed(job'[Newest])
  <2>1. PICK new : new = job'[Newest] /\ new.rows = 0 /\ new.out = <<>> /\ new.window = <<>>
    BY <1>1, NewJobIs
  <2>2. 0 \in 0 .. new.rows  BY <2>1
  <2> QED  BY <2>1, <2>2, NothingUnread DEF Fed
<1>3. \A i \in Jobs' : job'[i].kind # "tx" => Fed(job'[i])  BY <1>1, <1>2, SweepsFed
<1>4. WindowIsNewest' <=> \A i \in Jobs' : job'[i].kind # "tx" => Fed(job'[i])
  BY DEF WindowIsNewest, Fed, Bursts
<1> QED  BY <1>3, <1>4

LEMMA RowStepFed ==
    ASSUME JobsInv, WindowIsNewest, NEW i \in Jobs, PrintRow(i) \/ CollectRow(i)
    PROVE  WindowIsNewest'
<1>1. /\ job \in Seq(Job) /\ Jobs = 1 .. Len(job) /\ job[i] \in Job
      /\ job[i].rows \in Nat /\ job[i].out \in Seq(Nat) /\ job[i].window \in Seq(Nat)
  BY JobsTyped, JobFields DEF JobsInv
<1>2. PICK new : /\ job' = [job EXCEPT ![i] = new] /\ new.kind = job[i].kind
                 /\ Fed(job[i]) => Fed(new)
  <2>1. CASE PrintRow(i)
    <3>1. PICK new : /\ job' = [job EXCEPT ![i] = new] /\ new.window = job[i].window
                     /\ new.kind = job[i].kind
                     /\ \/ new.rows = job[i].rows /\ new.out = Append(job[i].out, 0)
                        \/ new.rows = job[i].rows + 1
                           /\ new.out = Append(job[i].out, job[i].rows + 1)
      BY <2>1, PrintRowIs DEF Continues
    <3>2. ASSUME Fed(job[i]) PROVE Fed(new)
      <4>1. PICK read \in 0 .. job[i].rows : NewestOf(job[i].window, read)
                                             /\ Unread(job[i].out, read, job[i].rows)
        BY <3>2 DEF Fed
      <4>2. Unread(new.out, read, new.rows)  BY <1>1, <3>1, <4>1, RowPrinted
      <4>3. read \in 0 .. new.rows  BY <1>1, <3>1, <4>1
      <4> QED  BY <3>1, <4>1, <4>2, <4>3 DEF Fed
    <3> QED  BY <3>1, <3>2
  <2>2. CASE CollectRow(i)
    <3>1. PICK row : row = Head(job[i].out)  OBVIOUS
    <3>2. PICK new : /\ job' = [job EXCEPT ![i] = new] /\ new.kind = job[i].kind
                     /\ new.rows = job[i].rows
                     /\ job[i].out # <<>> /\ new.out = Tail(job[i].out)
                     /\ new.window = IF row = 0 THEN job[i].window ELSE Kept(job[i].window, row)
      BY <2>2, <3>1, CollectRowIs DEF Continues
    <3>3. ASSUME Fed(job[i]) PROVE Fed(new)
      <4>1. PICK read \in 0 .. job[i].rows : NewestOf(job[i].window, read)
                                             /\ Unread(job[i].out, read, job[i].rows)
        BY <3>3 DEF Fed
      <4>2. CASE row = 0
        <5>1. Unread(new.out, read, new.rows) /\ new.window = job[i].window
          BY <1>1, <3>1, <3>2, <4>1, <4>2, RowTaken
        <5> QED  BY <3>2, <4>1, <5>1 DEF Fed
      <4>3. CASE row # 0
        <5>1. row = read + 1 /\ read + 1 \in 0 .. new.rows /\ Unread(new.out, read + 1, new.rows)
          BY <1>1, <3>1, <3>2, <4>1, <4>3, RowTaken
        <5>2. NewestOf(new.window, read + 1)
          <6>1. read \in Nat  BY <1>1, <4>1
          <6> QED  BY <1>1, <3>2, <4>1, <4>3, <5>1, <6>1, KeptIsNewest
        <5> QED  BY <5>1, <5>2 DEF Fed
      <4> QED  BY <4>2, <4>3
    <3> QED  BY <3>2, <3>3
  <2> QED  BY <2>1, <2>2
<1>3. Jobs' = Jobs /\ \A j \in Jobs : job'[j] = IF j = i THEN new ELSE job[j]
  BY <1>1, <1>2 DEF Jobs
<1>4. \A j \in Jobs' : job'[j].kind # "tx" => Fed(job'[j])  BY <1>2, <1>3, SweepsFed
<1>5. WindowIsNewest' <=> \A j \in Jobs' : job'[j].kind # "tx" => Fed(job'[j])
  BY DEF WindowIsNewest, Fed, Bursts
<1> QED  BY <1>4, <1>5

LEMMA RowsKeptFed == JobsInv /\ WindowIsNewest /\ RowsKept => WindowIsNewest'
<1> SUFFICES ASSUME JobsInv, WindowIsNewest, RowsKept PROVE WindowIsNewest'
  OBVIOUS
<1>1. Jobs' = Jobs /\ \A i \in Jobs : SameRows(job[i], job'[i])  BY DEF RowsKept
<1>2. \A i \in Jobs : job'[i].kind = job[i].kind  BY <1>1 DEF SameRows
<1>3. \A i \in Jobs' : job'[i].kind # "tx" => Fed(job'[i])
  BY <1>1, <1>2, SweepsFed, FedAgain
<1>4. WindowIsNewest' <=> \A i \in Jobs' : job'[i].kind # "tx" => Fed(job'[i])
  BY DEF WindowIsNewest, Fed, Bursts
<1> QED  BY <1>3, <1>4

\* The samples of a sweep are the newest rows of its process, as many as the
\* session keeps, in their order and without a gap, and those that follow are
\* still in the pipe: _collect_sweep_output and deque(maxlen=200), for every
\* size of the window and of the pipe.
THEOREM JobsWindowIsNewest == Spec => []WindowIsNewest
<1>1. Init => WindowIsNewest
  BY DEF Init, WindowIsNewest, Jobs
<1>2. JobsInv /\ WindowIsNewest /\ [Next]_vars => WindowIsNewest'
  <2> SUFFICES ASSUME JobsInv, WindowIsNewest, [Next]_vars PROVE WindowIsNewest'
    OBVIOUS
  <2>1. CASE ProcessStep
    <3>1. CASE BusyStreamStart \/ \E i \in Jobs : Work(i) \/ ProcessFails(i) \/ CollectTop(i)
                                                    \/ CollectEnd(i)
      BY <3>1, ProcessStepKeepsRows, RowsKeptFed
    <3>2. CASE \E i \in Jobs : PrintRow(i) \/ CollectRow(i)
      BY <3>2, RowStepFed
    <3> QED  BY <2>1, <3>1, <3>2 DEF ProcessStep, Collect
  <2>2. ASSUME NEW c \in Clients, ClientStep(c) PROVE WindowIsNewest'
    <3>1. CASE (\E w \in Workers : StartTx(c, w)) \/ StartSweep(c) \/ ActSweep(c)
      BY <3>1, StartFed DEF StartTx, StartSweep, ActSweep
    <3>2. CASE ~((\E w \in Workers : StartTx(c, w)) \/ StartSweep(c) \/ ActSweep(c))
      <4>1. RowsKept
        BY <2>2, <3>2, ClientStepKeepsRows DEF ClientStep, RequestStep
      <4> QED  BY <4>1, RowsKeptFed
    <3> QED  BY <3>1, <3>2
  <2>3. CASE UNCHANGED vars
    BY <2>3 DEF vars, WindowIsNewest, Jobs, Bursts
  <2> QED  BY <2>1, <2>2, <2>3, NextIs
<1> QED  BY <1>1, <1>2, JobsInvHolds, PTL DEF Spec

-----------------------------------------------------------------------------
(* The account of a mission                                                *)

LEMMA SweepsSoFar ==
    ASSUME NEW actions, NEW n \in Nat
    PROVE  /\ Sweeps(actions, n) \in Nat
           /\ Sweeps(actions, 0) = 0
           /\ Sweeps(actions, n + 1) = Sweeps(actions, n) + IF actions[n + 1] # "api" THEN 1 ELSE 0
<1> DEFINE sweeps(m) == {k \in 1 .. m : actions[k] # "api"}
<1>1. IsFiniteSet(1 .. n)  BY FS_Interval
<1>2. IsFiniteSet(sweeps(n)) /\ Cardinality(sweeps(n)) \in Nat  BY <1>1, FS_Subset, FS_CardinalityType
<1>3. sweeps(0) = {}  OBVIOUS
<1>4. Cardinality({}) = 0  BY FS_EmptySet
<1>5. sweeps(n + 1) = IF actions[n + 1] # "api" THEN sweeps(n) \cup {n + 1} ELSE sweeps(n)  OBVIOUS
<1>6. n + 1 \notin sweeps(n)  OBVIOUS
<1>7. /\ Sweeps(actions, n) = Cardinality(sweeps(n)) /\ Sweeps(actions, 0) = Cardinality(sweeps(0))
      /\ Sweeps(actions, n + 1) = Cardinality(sweeps(n + 1))
  BY DEF Sweeps
<1> HIDE DEF sweeps
<1>8. Cardinality(sweeps(n) \cup {n + 1}) = Cardinality(sweeps(n)) + 1  BY <1>2, <1>6, FS_AddElement
<1> QED  BY <1>2, <1>3, <1>4, <1>5, <1>7, <1>8

\* A record of a mission and whether a sweep of it is under way.
Counted(m, pending) ==
    /\ m.next \in 1 .. Len(m.actions) + 1
    /\ m.started + m.skipped + m.failures + (IF pending THEN 1 ELSE 0) = Sweeps(m.actions, m.next - 1)
    /\ m.status # "planned" => m.next = Len(m.actions) + 1 /\ (m.status = "running" <=> m.failures = 0)

LEMMA PlanCountedIs == PlanCounted <=> (mission # None => Counted(mission, Pending))
BY DEF PlanCounted, Counted

LEMMA MissionFields ==
    ASSUME NEW m \in Mission
    PROVE  /\ m.next \in Nat /\ m.failures \in Nat /\ m.started \in Nat /\ m.skipped \in Nat
           /\ m.actions \in Seq(Targets) /\ Len(m.actions) \in Nat
           /\ m.status \in {"planned", "running", "degraded"}
<1>1. m.actions \in Plans /\ Plans \subseteq Seq(Targets)  BY JobsAssumption DEF Mission
<1>2. m.actions \in Seq(Targets)  BY <1>1
<1> QED  BY <1>2 DEF Mission

LEMMA OtherStepCounted ==
    ASSUME PlanCounted, mission' = mission,
           \A c \in Clients : /\ client'[c].mission = client[c].mission
                              /\ client[c].mission =>
                                    (client'[c].pc = "act" <=> client[c].pc = "act")
    PROVE  PlanCounted'
<1>1. Pending' <=> Pending  BY DEF Pending
<1> QED  BY <1>1 DEF PlanCounted

LEMMA RunCounted ==
    ASSUME JobsInv, NEW c \in Clients, NEW plan \in Plans, Run(c, plan)
    PROVE  PlanCounted'
<1> DEFINE begun == [status |-> "planned", actions |-> plan, next |-> 1, failures |-> 0, started |-> 0,
                     skipped |-> 0]
           act == [Idle EXCEPT !.pc = "act", !.mission = TRUE]
<1>1. client[c].pc = "idle" /\ mission = None /\ mission' = begun
      /\ client' = [client EXCEPT ![c] = act]
  BY DEF Run
<1>2. client \in [Clients -> Request] /\ MaxJobs \in Nat  BY JobsTyped DEF JobsInv
<1>3. \A d \in Clients : ~client[d].mission  BY <1>1 DEF JobsInv, OneMission
<1>4. act.pc = "act"
  <2>1. Idle \in Request  BY <1>2 DEF Idle, Request
  <2>2. \A r \in Request : [r EXCEPT !.pc = "act", !.mission = TRUE].pc = "act"  BY DEF Request
  <2> QED  BY <2>1, <2>2
<1> HIDE DEF act
<1>5. \A d \in Clients : client'[d] = IF d = c THEN act ELSE client[d]  BY <1>1, <1>2
<1>6. ~Pending'  BY <1>3, <1>4, <1>5 DEF Pending
<1>7. Len(plan) \in Nat  BY JobsAssumption
<1>8. begun.next = 1 /\ begun.actions = plan /\ begun.started = 0 /\ begun.skipped = 0 /\ begun.failures = 0
      /\ begun.status = "planned"
  OBVIOUS
<1> HIDE DEF begun
<1>9. Sweeps(plan, 1 - 1) = 0  BY SweepsSoFar
<1>10. Counted(begun, Pending')  BY <1>6, <1>7, <1>8, <1>9 DEF Counted
<1> QED  BY <1>1, <1>10 DEF PlanCounted, Counted

\* The mission goes through its plan.
LEMMA ActCounted ==
    ASSUME JobsInv, PlanCounted, NEW c \in Clients, ActSweep(c) \/ ActSkip(c) \/ ActQueue(c)
    PROVE  PlanCounted'
<1>1. client[c].pc = "act" /\ client[c].mission /\ mission.next <= Len(mission.actions)
      /\ mission # None /\ mission.status = "planned"
      /\ \A d \in Clients : d # c => ~client[d].mission
  BY DEF ActSweep, ActSkip, ActQueue, Acting, JobsInv, OneMission
<1>2. mission \in Mission /\ None \notin Mission  BY <1>1, MissionTyped
<1>3. PICK m \in Mission : m = mission  BY <1>2
<1>4. ~Pending  BY <1>1 DEF Pending
<1>5. /\ m.next \in 1 .. Len(m.actions) /\ m.next \in Nat /\ Len(m.actions) \in Nat
      /\ m.started \in Nat /\ m.skipped \in Nat /\ m.failures \in Nat
      /\ m.started + m.skipped + m.failures = Sweeps(m.actions, m.next - 1)
  BY <1>1, <1>2, <1>3, <1>4, PlanCountedIs, MissionFields DEF Counted
<1>6. PICK n : n = IF ActSkip(c) THEN [m EXCEPT !.next = m.next + 1, !.skipped = m.skipped + 1]
                                 ELSE [m EXCEPT !.next = m.next + 1]
  OBVIOUS
<1>7. /\ n \in Mission /\ n.next = m.next + 1 /\ n.actions = m.actions /\ n.started = m.started
      /\ n.failures = m.failures /\ n.status = m.status
      /\ n.skipped = m.skipped + IF ActSkip(c) THEN 1 ELSE 0
  <2>1. CASE ActSkip(c)
    <3>1. n = [m EXCEPT !.next = m.next + 1, !.skipped = m.skipped + 1]  BY <1>6, <2>1
    <3>2. m.next + 1 \in Nat /\ m.skipped + 1 \in Nat  BY <1>3, <1>5, MissionFields
    <3>3. n \in Mission /\ n.next = m.next + 1 /\ n.skipped = m.skipped + 1
      BY <3>1, <3>2 DEF Mission
    <3>4. /\ n.actions = m.actions /\ n.started = m.started /\ n.failures = m.failures
          /\ n.status = m.status
      BY <3>1 DEF Mission
    <3> QED  BY <2>1, <3>3, <3>4
  <2>2. CASE ~ActSkip(c)
    <3>1. n = [m EXCEPT !.next = m.next + 1]  BY <1>6, <2>2
    <3>2. /\ n \in Mission /\ n.next = m.next + 1 /\ n.actions = m.actions /\ n.started = m.started
          /\ n.failures = m.failures /\ n.status = m.status /\ n.skipped = m.skipped
      BY <1>5, <3>1 DEF Mission
    <3>3. m.skipped + 0 = m.skipped  BY MissionFields
    <3> QED  BY <2>2, <3>2, <3>3
  <2> QED  BY <2>1, <2>2
<1>8. Sweeps(m.actions, m.next)
         = Sweeps(m.actions, m.next - 1) + IF m.actions[m.next] # "api" THEN 1 ELSE 0
  <2>1. m.next - 1 \in Nat /\ (m.next - 1) + 1 = m.next  BY <1>5
  <2> QED  BY <2>1, SweepsSoFar
<1>9. /\ Pending' <=> ActSweep(c)
      /\ m.actions[m.next] # "api" <=> ActSweep(c) \/ ActSkip(c)
      /\ ~(ActSweep(c) /\ ActSkip(c))
  <2>1. CASE ActSweep(c)
    <3>1. m.actions[m.next] = "swept" /\ Start(c, "sweep", None)  BY <1>3, <2>1 DEF ActSweep
    <3>2. client'[c].pc = "spawn" /\ client'[c].mission = client[c].mission  BY <3>1, StartIs
    <3>3. ~ActSkip(c)  BY <1>3, <3>1 DEF ActSkip
    <3> QED  BY <1>1, <2>1, <3>1, <3>2, <3>3 DEF Pending
  <2>2. CASE ActSkip(c) \/ ActQueue(c)
    <3>1. client' = client /\ m.actions[m.next] \in {"unswept", "api"}
      BY <1>3, <2>2 DEF ActSkip, ActQueue
    <3>2. ~ActSweep(c) /\ (ActSkip(c) <=> m.actions[m.next] = "unswept")
      BY <1>3, <2>2, <3>1 DEF ActSweep, ActSkip, ActQueue
    <3> QED  BY <1>4, <3>1, <3>2 DEF Pending
  <2> QED  BY <2>1, <2>2
<1>10. Counted(n, Pending')
  <2>1. n.next - 1 = m.next  BY <1>5, <1>7
  <2>2. n.next \in 1 .. Len(n.actions) + 1  BY <1>5, <1>7
  <2>3. n.status = "planned"  BY <1>1, <1>3, <1>7
  <2>4. n.started + n.skipped + n.failures + (IF Pending' THEN 1 ELSE 0) = Sweeps(n.actions, n.next - 1)
    BY <1>5, <1>7, <1>8, <1>9, <2>1
  <2> QED  BY <2>2, <2>3, <2>4 DEF Counted
<1>11. mission' = n  BY <1>3, <1>6 DEF ActSweep, ActSkip, ActQueue
<1> QED  BY <1>10, <1>11 DEF PlanCounted, Counted

LEMMA ConcludeCounted ==
    ASSUME JobsInv, PlanCounted, NEW c \in Clients, Conclude(c)
    PROVE  PlanCounted'
<1>1. /\ client[c].pc = "act" /\ client[c].mission /\ ~(mission.next <= Len(mission.actions))
      /\ mission' = [mission EXCEPT !.status = IF mission.failures > 0 THEN "degraded" ELSE "running"]
      /\ client' = [client EXCEPT ![c] = Idle] /\ mission # None
      /\ \A d \in Clients : d # c => ~client[d].mission
  BY DEF Conclude, Acting, JobsInv, OneMission
<1>2. mission \in Mission  BY <1>1, MissionTyped
<1>3. PICK m \in Mission : m = mission  BY <1>2
<1>4. ~Pending  BY <1>1 DEF Pending
<1>5. ~Pending'
  <2>1. client \in [Clients -> Request]  BY JobsTyped DEF JobsInv
  <2>2. \A d \in Clients : client'[d] = IF d = c THEN Idle ELSE client[d]  BY <1>1, <2>1
  <2>3. Idle.mission = FALSE  BY DEF Idle
  <2> QED  BY <1>1, <2>2, <2>3 DEF Pending
<1>6. PICK s \in {"degraded", "running"} : /\ s = "running" <=> ~(m.failures > 0)
                                           /\ mission' = [m EXCEPT !.status = s]
  BY <1>1, <1>3
<1>7. PICK n : n = [m EXCEPT !.status = s]  OBVIOUS
<1>8. /\ n.next = m.next /\ n.actions = m.actions /\ n.started = m.started
      /\ n.skipped = m.skipped /\ n.failures = m.failures /\ n.status = s
  BY <1>3, <1>7 DEF Mission
<1>9. /\ m.next \in 1 .. Len(m.actions) + 1 /\ Len(m.actions) \in Nat /\ m.failures \in Nat
      /\ m.started + m.skipped + m.failures + (IF FALSE THEN 1 ELSE 0) = Sweeps(m.actions, m.next - 1)
  BY <1>1, <1>3, <1>4, PlanCountedIs, MissionFields DEF Counted
<1>10. m.next = Len(m.actions) + 1  BY <1>1, <1>3, <1>9
<1>11. s = "running" <=> m.failures = 0  BY <1>6, <1>9
<1>12. Counted(n, FALSE)  BY <1>8, <1>9, <1>10, <1>11 DEF Counted
<1>13. Counted(n, Pending')  BY <1>5, <1>12 DEF Counted
<1> QED  BY <1>6, <1>7, <1>13 DEF PlanCounted, Counted

\* A sweep of the mission is started, or its start fails.
LEMMA SweepCounted ==
    ASSUME JobsInv, PlanCounted, NEW c \in Clients, client[c].mission, client[c].pc # "act", Return(c),
           NEW a \in {0, 1}, NEW b \in {0, 1}, a + b = 1,
           mission'.failures = mission.failures + a, mission'.started = mission.started + b,
           mission'.next = mission.next, mission'.actions = mission.actions,
           mission'.skipped = mission.skipped,
           mission'.status = mission.status
    PROVE  PlanCounted'
<1>1. /\ mission # None /\ mission.status = "planned"
      /\ \A d \in Clients : d # c => ~client[d].mission
  BY DEF JobsInv, OneMission
<1>2. mission \in Mission  BY MissionTyped
<1>3. PICK m \in Mission : m = mission  BY <1>2
<1>4. Pending  BY DEF Pending
<1>5. ~Pending'
  <2>1. client'[c].pc = "act" /\ \A d \in Clients : d # c => client'[d] = client[d]
    BY Returned DEF JobsInv
  <2> QED  BY <1>1, <2>1 DEF Pending
<1>6. PICK n : n = mission'  OBVIOUS
<1>7. /\ n.next = m.next /\ n.actions = m.actions /\ n.started = m.started + b /\ n.skipped = m.skipped
      /\ n.failures = m.failures + a /\ n.status = m.status
  BY <1>3, <1>6
<1>8. /\ m.next \in 1 .. Len(m.actions) + 1 /\ m.started \in Nat /\ m.skipped \in Nat /\ m.failures \in Nat
      /\ m.started + m.skipped + m.failures + 1 = Sweeps(m.actions, m.next - 1)
  BY <1>1, <1>3, <1>4, PlanCountedIs, MissionFields DEF Counted
<1>9. n.started + n.skipped + n.failures + 0 = Sweeps(n.actions, n.next - 1)
  <2>1. n.started + n.skipped + n.failures + 0 = m.started + m.skipped + m.failures + 1
    <3>1. (a = 0 /\ b = 1) \/ (a = 1 /\ b = 0)  OBVIOUS
    <3>2. ASSUME NEW x \in Nat, NEW y \in Nat, NEW z \in Nat
          PROVE  (x + b) + y + (z + a) + 0 = x + y + z + 1
      BY <3>1
    <3>3. /\ n.started = m.started + b /\ n.skipped = m.skipped /\ n.failures = m.failures + a
          /\ m.started \in Nat /\ m.skipped \in Nat /\ m.failures \in Nat
      BY <1>7, <1>8
    <3>4. (m.started + b) + m.skipped + (m.failures + a) + 0 = m.started + m.skipped + m.failures + 1
      BY <3>2, <3>3
    <3> QED  BY <3>3, <3>4
  <2> QED  BY <1>7, <1>8, <2>1
<1>10. Counted(n, Pending')  BY <1>1, <1>3, <1>5, <1>7, <1>8, <1>9 DEF Counted
<1> QED  BY <1>3, <1>6, <1>10 DEF PlanCounted, Counted

LEMMA ClientStepCounted ==
    ASSUME JobsInv, PlanCounted, NEW c \in Clients, ClientStep(c)
    PROVE  PlanCounted'
<1>1. /\ client \in [Clients -> Request] /\ client[c] \in Request /\ TypeOK
      /\ client[c].mission => client[c].pc \in {"spawn", "register", "collect", "act"}
  BY JobsTyped DEF JobsInv, OneMission
<1>2. ASSUME mission' = mission,
             \A d \in Clients : d # c => client'[d] = client[d],
             client'[c].mission = client[c].mission,
             client[c].mission => (client'[c].pc = "act" <=> client[c].pc = "act")
      PROVE  PlanCounted'
  BY <1>2, OtherStepCounted
<1>3. ASSUME mission' = mission, ~client[c].mission, Return(c) PROVE PlanCounted'
  <2>1. client'[c].mission = client[c].mission /\ \A d \in Clients : d # c => client'[d] = client[d]
    BY <1>1, <1>3, Returned
  <2> QED  BY <1>2, <1>3, <2>1
<1>4. ASSUME mission' = mission, ~client[c].mission,
             NEW kind \in {"tx", "sweep"}, NEW worker \in Workers \cup {None}, Start(c, kind, worker)
      PROVE  PlanCounted'
  <2>1. client'[c].mission = client[c].mission /\ \A d \in Clients : d # c => client'[d] = client[d]
    BY <1>4, StartIs
  <2> QED  BY <1>2, <1>4, <2>1
<1>5. ASSUME mission' = mission, NEW at \in {"register", "collect", "delete"}, Goto(c, at),
             client[c].pc # "act"
      PROVE  PlanCounted'
  <2>1. client'[c] = [client[c] EXCEPT !.pc = at] /\ \A d \in Clients : d # c => client'[d] = client[d]
    BY <1>1, <1>5, WentTo
  <2>2. client'[c].pc = at /\ client'[c].mission = client[c].mission  BY <1>1, <2>1 DEF Request
  <2> QED  BY <1>2, <1>5, <2>1, <2>2
<1>6. CASE (\E w \in Workers : StartTx(c, w)) \/ StartSweep(c)
  BY <1>1, <1>4, <1>6 DEF StartTx, StartSweep
<1>7. CASE List(c)
  <2>1. PICK todo, size : client' = [client EXCEPT ![c] = [client[c] EXCEPT !.pc = "refresh",
                                                             !.todo = todo, !.size = size]]
    BY <1>1, <1>7 DEF List
  <2>2. mission' = mission /\ ~client[c].mission  BY <1>1, <1>7 DEF List
  <2>3. client'[c].mission = client[c].mission /\ \A d \in Clients : d # c => client'[d] = client[d]
    BY <1>1, <2>1 DEF Request
  <2> QED  BY <1>2, <2>2, <2>3
<1>8. CASE \E i \in Jobs : Stop(c, i)
  <2>1. PICK i : client' = [client EXCEPT ![c] = [client[c] EXCEPT !.pc = "end", !.id = i]]
    BY <1>1, <1>8 DEF Stop
  <2>2. mission' = mission /\ ~client[c].mission  BY <1>1, <1>8 DEF Stop
  <2>3. client'[c].mission = client[c].mission /\ \A d \in Clients : d # c => client'[d] = client[d]
    BY <1>1, <2>1 DEF Request
  <2> QED  BY <1>2, <2>2, <2>3
<1>9. CASE \E plan \in Plans : Run(c, plan)  BY <1>9, RunCounted
<1>10. CASE RequestStep(c)
  <2>1. CASE Spawn(c)  BY <1>5, <2>1 DEF Spawn
  <2>2. CASE StartFails(c)
    <3>1. CASE client[c].mission
      <4>1. /\ client[c].pc = "spawn" /\ Return(c)
            /\ mission' = [mission EXCEPT !.failures = mission.failures + 1]
        BY <2>2, <3>1 DEF StartFails, Failures
      <4>2. mission \in Mission  BY <3>1, MissionTyped
      <4>3. /\ mission'.failures = mission.failures + 1 /\ mission'.started = mission.started + 0
            /\ mission'.next = mission.next /\ mission'.actions = mission.actions
            /\ mission'.skipped = mission.skipped
            /\ mission'.status = mission.status
        BY <4>1, <4>2 DEF Mission
      <4>4. 1 + 0 = 1  OBVIOUS
      <4> QED  BY <3>1, <4>1, <4>2, <4>3, <4>4, SweepCounted
    <3>2. CASE ~client[c].mission  BY <1>3, <2>2, <3>2 DEF StartFails
    <3> QED  BY <3>1, <3>2
  <2>3. CASE Register(c)
    <3>1. client[c].mission => job[client[c].id].kind = "sweep"
      BY <2>3 DEF Register, JobsInv, OneMission
    <3> QED  BY <1>3, <1>5, <2>3, <3>1 DEF Register
  <2>4. CASE StartCollector(c)
    <3>1. CASE client[c].mission
      <4>1. /\ client[c].pc = "collect" /\ Return(c)
            /\ mission' = [mission EXCEPT !.failures = mission.failures, !.started = mission.started + 1]
        BY <2>4, <3>1 DEF StartCollector, Failures
      <4>2. mission \in Mission  BY <3>1, MissionTyped
      <4>3. /\ mission'.failures = mission.failures + 0 /\ mission'.started = mission.started + 1
            /\ mission'.next = mission.next /\ mission'.actions = mission.actions
            /\ mission'.skipped = mission.skipped
            /\ mission'.status = mission.status
        BY <4>1, <4>2 DEF Mission
      <4>4. 0 + 1 = 1  OBVIOUS
      <4> QED  BY <3>1, <4>1, <4>3, <4>4, SweepCounted
    <3>2. CASE ~client[c].mission  BY <1>3, <2>4, <3>2 DEF StartCollector
    <3> QED  BY <3>1, <3>2
  <2>5. CASE EndProcess(c)  BY <1>5, <2>5 DEF EndProcess
  <2>6. CASE Delete(c)  BY <1>1, <1>3, <2>6 DEF Delete
  <2>7. CASE Refresh(c)
    <3>1. PICK i : client' = [client EXCEPT ![c] = [client[c] EXCEPT !.todo = client[c].todo \ {i}]]
      BY <1>1, <2>7 DEF Refresh
    <3>2. mission' = mission /\ client[c].pc = "refresh"  BY <2>7 DEF Refresh
    <3>3. client'[c].mission = client[c].mission /\ \A d \in Clients : d # c => client'[d] = client[d]
      BY <1>1, <3>1 DEF Request
    <3> QED  BY <1>1, <1>2, <3>2, <3>3
  <2>8. CASE RefreshEnds(c)  BY <1>1, <1>3, <2>8 DEF RefreshEnds
  <2>9. CASE ActSweep(c) \/ ActSkip(c) \/ ActQueue(c)  BY <2>9, ActCounted
  <2>10. CASE Conclude(c)  BY <2>10, ConcludeCounted
  <2> QED  BY <1>10, <2>1, <2>2, <2>3, <2>4, <2>5, <2>6, <2>7, <2>8, <2>9, <2>10 DEF RequestStep
<1> QED  BY <1>6, <1>7, <1>8, <1>9, <1>10 DEF ClientStep

\* Every action of a plan so far is accounted for, and when the mission is
\* concluded its status tells whether one that it tried failed: the loop
\* over the targets in ApexHunterService.run, with other requests in between.
LEMMA PlanCountedHolds == Spec => [](JobsInv /\ PlanCounted)
<1>1. Init => PlanCounted  BY DEF Init, PlanCounted
<1>2. JobsInv /\ PlanCounted /\ [Next]_vars => PlanCounted'
  <2> SUFFICES ASSUME JobsInv, PlanCounted, [Next]_vars PROVE PlanCounted'
    OBVIOUS
  <2>1. CASE ProcessStep
    <3>1. UNCHANGED <<mission, client>>
      BY <2>1 DEF ProcessStep, BusyStreamStart, Work, Transmit, BurstOver, ProcessFails, Exit, PrintRow,
                  Collect, CollectTop, CollectRow, CollectEnd
    <3> QED  BY <3>1, OtherStepCounted
  <2>2. ASSUME NEW c \in Clients, ClientStep(c) PROVE PlanCounted'  BY <2>2, ClientStepCounted
  <2>3. CASE UNCHANGED vars  BY <2>3, OtherStepCounted DEF vars
  <2> QED  BY <2>1, <2>2, <2>3, NextIs
<1> QED  BY <1>1, <1>2, JobsInvHolds, PTL DEF Spec

\* The types, and the status of a mission: it is "running" exactly when every
\* sweep that its plan asks for was started or was skipped for its driver.
THEOREM JobsSafe == Spec => []Safe
<1>1. JobsInv /\ PlanCounted => Safe
  <2> SUFFICES ASSUME JobsInv, PlanCounted, mission # None, mission.status # "planned"
               PROVE  mission.status = "running"
                        <=> mission.started + mission.skipped = Sweeps(mission.actions, Len(mission.actions))
    BY DEF Safe, MissionTold, JobsInv
  <2>1. ~Pending  BY DEF Pending, JobsInv, OneMission
  <2>2. mission \in Mission  BY MissionTyped
  <2>3. PICK m \in Mission : m = mission  BY <2>2
  <2>4. /\ m.started + m.skipped + m.failures + 0 = Sweeps(m.actions, m.next - 1)
        /\ m.next = Len(m.actions) + 1 /\ (m.status = "running" <=> m.failures = 0)
    BY <2>1, <2>3, PlanCountedIs DEF Counted
  <2>5. m.started \in Nat /\ m.skipped \in Nat /\ m.failures \in Nat /\ Len(m.actions) \in Nat  BY MissionFields
  <2>6. m.next - 1 = Len(m.actions)  BY <2>4, <2>5
  <2>7. m.started + m.skipped + m.failures = Sweeps(m.actions, Len(m.actions))  BY <2>4, <2>5, <2>6
  <2>8. m.failures = 0 <=> m.started + m.skipped = Sweeps(m.actions, Len(m.actions))  BY <2>5, <2>7
  <2> QED  BY <2>3, <2>4, <2>8
<1> QED  BY <1>1, PlanCountedHolds, PTL

-----------------------------------------------------------------------------
(* Division                                                                *)

LEMMA DivBounds ==
    ASSUME NEW x \in Int, NEW b \in Nat \ {0}
    PROVE  /\ (x \div b) * b \in Int
           /\ (x \div b) * b <= x
           /\ x < (x \div b) * b + b
OBVIOUS

LEMMA UpperMultiple ==
    ASSUME NEW x \in Int, NEW b \in Nat \ {0}
    PROVE  ((x + b - 1) \div b) * b >= x /\ ((x + b - 1) \div b) * b \in Int
<1>1. x + b - 1 \in Int  OBVIOUS
<1>2. x + b - 1 < ((x + b - 1) \div b) * b + b  BY <1>1, DivBounds
<1> QED  BY <1>1, <1>2, DivBounds

LEMMA HalfNat == ASSUME NEW rate \in Nat PROVE Half(rate) \in Nat
BY DEF Half

-----------------------------------------------------------------------------
(* The windows of soapy_sweep_worker.py                                    *)

\* The windows so far cover the range up to the cursor.
Reached ==
    half > 0 =>
        \A f \in args.start .. args.stop - 1 :
            f < cursor => \E i \in 1 .. Len(centers) : centers[i] - half <= f /\ f < centers[i] + half

\* A plan of windows that move on is only over at the end of the range.
OverAtStop == pc = "done" /\ half > 0 => cursor >= args.stop

PlanIInv == PlanTypeOK /\ Reached /\ OverAtStop

LEMMA InitPlanIInv == PlanInit => PlanIInv
<1> SUFFICES ASSUME PlanInit PROVE PlanIInv
  OBVIOUS
<1>1. PlanTypeOK
  <2>1. /\ args \in [start : Starts, stop : Stops, rate : Rates, bin : BinWidths]
        /\ args.start < args.stop /\ cursor = args.start /\ centers = <<>> /\ pc = "loop"
    BY DEF PlanInit
  <2>2. args \in [start : Int, stop : Int, rate : Nat, bin : Nat \ {0}]
    BY <2>1, PlansAssumption
  <2>3. centers \in Seq(Int)  BY <2>1
  <2> QED  BY <2>1, <2>2, <2>3 DEF PlanTypeOK
<1>2. Reached  BY <1>1 DEF PlanInit, Reached, PlanTypeOK
<1>3. OverAtStop  BY DEF PlanInit, OverAtStop
<1> QED  BY <1>1, <1>2, <1>3 DEF PlanIInv

\* One turn of the loop: the window at the cursor starts at it or before it,
\* ends at the next cursor, and is noted unless the last one is the same.
LEMMA AddWindowStep == PlanIInv /\ AddWindow => PlanIInv'
<1> SUFFICES ASSUME PlanIInv, AddWindow PROVE PlanIInv'
  OBVIOUS
<1> DEFINE center == CenterAt(cursor)
           next == NextCursor(center)
<1>1. /\ args \in [start : Int, stop : Int, rate : Nat, bin : Nat \ {0}]
      /\ args.start < args.stop /\ cursor \in Int /\ cursor >= args.start
      /\ centers \in Seq(Int) /\ cursor < args.stop /\ args' = args
  BY DEF PlanIInv, PlanTypeOK, AddWindow
<1>2. half \in Nat /\ half' = half /\ args.start \in Int /\ args.stop \in Int
  BY <1>1, HalfNat DEF half
<1> HIDE DEF half
<1>3. /\ center \in Int /\ next \in Int
      /\ center - half <= cursor /\ center + half = next
      /\ half > 0 => next > cursor
      /\ next <= args.stop /\ next >= cursor
  BY <1>1, <1>2 DEF CenterAt, NextCursor, Lesser, Greater
<1>4. /\ centers' \in Seq(Int)
      /\ \A i \in 1 .. Len(centers) : i \in 1 .. Len(centers') /\ centers'[i] = centers[i]
      /\ \E i \in 1 .. Len(centers') : centers'[i] = center
  <2>1. centers' = Noted(center)  BY DEF AddWindow
  <2>2. CASE centers = <<>> \/ center # centers[Len(centers)]
    <3>1. centers' = Append(centers, center)  BY <2>1, <2>2 DEF Noted
    <3> HIDE DEF center
    <3>2. /\ centers' \in Seq(Int) /\ Len(centers') = Len(centers) + 1
          /\ centers'[Len(centers) + 1] = center
          /\ \A i \in 1 .. Len(centers) : centers'[i] = centers[i]
      BY <3>1, <1>1, <1>3
    <3> QED  BY SMTT(20), <3>2, <1>1
  <2>3. CASE ~(centers = <<>> \/ center # centers[Len(centers)])
    <3>1. centers' = centers  BY <2>1, <2>3 DEF Noted
    <3>2. Len(centers) \in 1 .. Len(centers) /\ centers[Len(centers)] = center
      BY <2>3, <1>1
    <3> QED  BY <3>1, <3>2, <1>1
  <2> QED  BY <2>2, <2>3
<1>5. \/ next <= cursor /\ pc' = "done" /\ cursor' = cursor
      \/ next > cursor /\ pc' = "loop" /\ cursor' = next
  BY <1>1, <1>3 DEF AddWindow, Stuck
<1> HIDE DEF center, next
<1>6. PlanTypeOK'  BY <1>1, <1>3, <1>4, <1>5 DEF PlanTypeOK
<1>7. Reached'
  <2>1. SUFFICES ASSUME half > 0, NEW f \in args.start .. args.stop - 1, f < cursor'
                 PROVE  \E i \in 1 .. Len(centers') : centers'[i] - half <= f /\ f < centers'[i] + half
    BY <1>1, <1>2 DEF Reached
  <2>2. CASE f < cursor
    <3>1. PICK i \in 1 .. Len(centers) : centers[i] - half <= f /\ f < centers[i] + half
      BY <2>1, <2>2 DEF PlanIInv, Reached
    <3> QED  BY <3>1, <1>4
  <2>3. CASE f >= cursor
    <3>1. f < next  BY <2>1, <2>3, <1>1, <1>3, <1>5
    <3>2. PICK i \in 1 .. Len(centers') : centers'[i] = center  BY <1>4
    <3>3. center - half <= f /\ f < center + half  BY <3>1, <2>3, <1>1, <1>2, <1>3
    <3> QED  BY <3>2, <3>3
  <2> QED  BY <2>1, <2>2, <2>3, <1>1
<1>8. OverAtStop'  BY <1>1, <1>2, <1>3, <1>5 DEF OverAtStop
<1> QED  BY <1>6, <1>7, <1>8 DEF PlanIInv

LEMMA FinishStep == PlanIInv /\ Finish => PlanIInv'
<1> SUFFICES ASSUME PlanIInv, Finish PROVE PlanIInv'
  OBVIOUS
<1>1. /\ args \in [start : Int, stop : Int, rate : Nat, bin : Nat \ {0}]
      /\ args.start < args.stop /\ cursor \in Int /\ cursor >= args.stop
      /\ centers \in Seq(Int) /\ args' = args /\ cursor' = cursor /\ pc' = "done"
      /\ cursor >= args.start
  BY DEF PlanIInv, PlanTypeOK, Finish
<1>2. half \in Nat /\ half' = half  BY <1>1, HalfNat DEF half
<1> HIDE DEF half
<1>3. centers' \in Seq(Int)
  <2>1. (args.start + args.stop) \div 2 \in Int  BY <1>1
  <2> QED  BY <2>1, <1>1 DEF Finish
<1>4. centers # <<>> => centers' = centers  BY DEF Finish
<1>5. Reached'
  <2>1. SUFFICES ASSUME half > 0, NEW f \in args.start .. args.stop - 1, f < cursor
                 PROVE  \E i \in 1 .. Len(centers') : centers'[i] - half <= f /\ f < centers'[i] + half
    BY <1>1, <1>2 DEF Reached
  <2>2. PICK i \in 1 .. Len(centers) : centers[i] - half <= f /\ f < centers[i] + half
    BY <2>1 DEF PlanIInv, Reached
  <2>3. centers' = centers  BY <2>2, <1>4
  <2> QED  BY <2>2, <2>3
<1>6. PlanTypeOK'  BY <1>1, <1>3 DEF PlanTypeOK
<1>7. OverAtStop'  BY <1>1, <1>2 DEF OverAtStop
<1> QED  BY <1>5, <1>6, <1>7 DEF PlanIInv

LEMMA PlanIInvHolds == PlanSpec => []PlanIInv
<1>1. PlanIInv /\ [PlanNext]_planVars => PlanIInv'
  <2>1. PlanIInv /\ UNCHANGED planVars => PlanIInv'
    BY DEF PlanIInv, PlanTypeOK, Reached, OverAtStop, planVars, half
  <2> QED  BY <2>1, AddWindowStep, FinishStep DEF PlanNext
<1> QED  BY InitPlanIInv, <1>1, PTL DEF PlanSpec

\* A row holds the part of its window that is inside the range.
LEMMA RowHoldsWindow ==
    ASSUME PlanTypeOK, half \in Nat, NEW c \in Int, NEW f \in args.start .. args.stop - 1,
           c - half <= f, f < c + half
    PROVE  Row(c).low <= f /\ f < Row(c).high
<1> DEFINE b == args.bin
           low == Greater(args.start, c - half)
           high == Lesser(args.stop, c + half)
<1>1. /\ args.start \in Int /\ args.stop \in Int /\ b \in Nat \ {0} /\ f \in Int
      /\ args.start <= f /\ f < args.stop
  BY DEF PlanTypeOK
<1> HIDE DEF half
<1>2. low \in Int /\ high \in Int /\ low <= f /\ f < high
  BY <1>1 DEF Greater, Lesser
<1>3. Row(c).low = Greater(args.start, (low \div b) * b)
  BY DEF Row
<1>4. Row(c).high = Lesser(args.stop, ((high + b - 1) \div b) * b)
  BY DEF Row
<1> HIDE DEF b, low, high
<1>5. (low \div b) * b \in Int /\ (low \div b) * b <= low
  BY <1>1, <1>2, DivBounds
<1>6. ((high + b - 1) \div b) * b \in Int /\ ((high + b - 1) \div b) * b >= high
  BY <1>1, <1>2, UpperMultiple
<1>7. Row(c).low <= f  BY <1>1, <1>2, <1>3, <1>5 DEF Greater
<1>8. f < Row(c).high  BY <1>1, <1>2, <1>4, <1>6 DEF Lesser
<1> QED  BY <1>7, <1>8

\* The sweep worker prints every frequency of its range (_window_centers and
\* main of soapy_sweep_worker.py), for every range, sample rate and bin width.
THEOREM SweepCovers == PlanSpec => []PlanSafe
<1>1. PlanIInv => PlanSafe
  <2> SUFFICES ASSUME PlanIInv PROVE PlanSafe
    OBVIOUS
  <2>1. half \in Nat  BY HalfNat DEF PlanIInv, PlanTypeOK, half
  <2>2. SUFFICES ASSUME pc = "done", half > 0, NEW f \in args.start .. args.stop - 1
                 PROVE  \E i \in 1 .. Len(centers) :
                            Row(centers[i]).low <= f /\ f < Row(centers[i]).high
    BY DEF PlanIInv, PlanSafe, RowsCoverRange
  <2>3. f < cursor  BY <2>2 DEF PlanIInv, OverAtStop, PlanTypeOK
  <2>4. PICK i \in 1 .. Len(centers) : centers[i] - half <= f /\ f < centers[i] + half
    BY <2>2, <2>3 DEF PlanIInv, Reached
  <2>5. centers[i] \in Int  BY <2>4 DEF PlanIInv, PlanTypeOK
  <2>6. PlanTypeOK  BY DEF PlanIInv
  <2> HIDE DEF half
  <2>7. Row(centers[i]).low <= f /\ f < Row(centers[i]).high
    BY <2>1, <2>4, <2>5, <2>6, RowHoldsWindow
  <2> QED  BY <2>4, <2>7
<1> QED  BY <1>1, PlanIInvHolds, PTL

-----------------------------------------------------------------------------
(* The arithmetic of the requests                                          *)

\* A planned sweep lies within its device and within what was asked for
\* (_plan_sweep_config in main.py).
THEOREM PlanWithinDevice ==
    ASSUME NEW range \in [start : Int, stop : Int],
           NEW device \in [freq_min_hz : Int, freq_max_hz : Int],
           Accepted(Clipped(range, device))
    PROVE  LET plan == Clipped(range, device) IN
           /\ device.freq_min_hz <= plan.start /\ plan.start < plan.stop
           /\ plan.stop <= device.freq_max_hz
           /\ range.start <= plan.start /\ plan.stop <= range.stop
BY DEF Accepted, Clipped, Greater, Lesser

\* A sweep planned around frequencies holds each of them that the device can
\* tune to, and one around a centre holds the centre.
THEOREM PlanHoldsFrequencies ==
    ASSUME NEW lowest \in Int, NEW highest \in Int, NEW margin \in Nat, NEW span \in Nat,
           NEW device \in [freq_min_hz : Int, freq_max_hz : Int],
           NEW f \in device.freq_min_hz .. device.freq_max_hz
    PROVE  /\ lowest <= f /\ f <= highest =>
                 LET plan == Clipped(Spread(lowest, highest, margin), device) IN
                 plan.start <= f /\ f <= plan.stop
           /\ LET plan == Clipped(Around(f, span), device) IN plan.start <= f /\ f <= plan.stop
<1> DEFINE h == span \div 2
<1>1. h \in Nat  OBVIOUS
<1>2. /\ device.freq_min_hz \in Int /\ device.freq_max_hz \in Int /\ f \in Int
      /\ device.freq_min_hz <= f /\ f <= device.freq_max_hz
  OBVIOUS
<1>3. Around(f, span) = [start |-> f - h, stop |-> f + h]  BY DEF Around
<1> HIDE DEF h
<1> QED  BY <1>1, <1>2, <1>3 DEF Clipped, Spread, Greater, Lesser

\* What Apex recommends is a range of at least 1 MHz within the limits it knows
\* of the device, and a bin width a sweep request accepts, whatever numbers the
\* metadata and the constraints hold (_recommended_sweep in apex_hunter.py).
THEOREM RecommendationFits ==
    ASSUME NEW asked,
           asked.freq_min_hz \in Int, asked.freq_max_hz \in Int, asked.start_freq_hz \in Int,
           asked.stop_freq_hz \in Int, asked.max_sample_rate_sps \in Int,
           asked.bin_width_hz \in Int \cup {Unset}
    PROVE  /\ MHz <= FreqMin(asked) /\ FreqMin(asked) <= StartHz(asked)
           /\ StartHz(asked) + MHz <= StopHz(asked) /\ StopHz(asked) <= FreqMax(asked)
           /\ 5000 <= BinWidthHz(asked) /\ BinWidthHz(asked) <= 2 * MHz
<1>1. FreqMin(asked) \in Int /\ MHz <= FreqMin(asked)
  BY SMT DEF FreqMin, BoundedInt, MHz, Greater, Lesser
<1>2. FreqMax(asked) \in Int /\ FreqMin(asked) + MHz <= FreqMax(asked)
  BY <1>1, SMT DEF FreqMax, BoundedInt, MHz, Greater, Lesser
<1>3. /\ StartHz(asked) \in Int /\ FreqMin(asked) <= StartHz(asked)
      /\ StartHz(asked) + MHz <= FreqMax(asked)
  BY <1>1, <1>2, SMT DEF StartHz, BoundedInt, MHz, Greater, Lesser
<1>4. StartHz(asked) + MHz <= StopHz(asked) /\ StopHz(asked) <= FreqMax(asked)
  BY <1>2, <1>3, SMT DEF StopHz, BoundedInt, MHz, Greater, Lesser
<1>5. DefaultBin(asked) \in Int
  <2>1. BoundedInt(asked.max_sample_rate_sps, 200000, 120 * MHz) \in Int
    BY SMT DEF BoundedInt, MHz, Greater, Lesser
  <2>2. BoundedInt(asked.max_sample_rate_sps, 200000, 120 * MHz) \div 20 \in Int  BY <2>1
  <2> QED  BY <2>2, SMT DEF DefaultBin, Greater, Lesser
<1>6. 5000 <= BinWidthHz(asked) /\ BinWidthHz(asked) <= 2 * MHz
  BY <1>5, SMT DEF BinWidthHz, BoundedInt, MHz, Greater, Lesser
<1> QED  BY <1>1, <1>3, <1>4, <1>6

LEMMA StepsOf8 ==
    ASSUME NEW value \in Int
    PROVE  LET g == NearestStep(value, 8, 0, 40) IN
           /\ g \in 0 .. 40 /\ g % 8 = 0
           /\ value \in 0 .. 40 => g - value \in -4 .. 4 /\ (g = value <=> value % 8 = 0)
BY SMT DEF NearestStep, Greater, Lesser

LEMMA StepsOf2 ==
    ASSUME NEW value \in Int
    PROVE  LET g == NearestStep(value, 2, 0, 62) IN
           /\ g \in 0 .. 62 /\ g % 2 = 0
           /\ value \in 0 .. 62 => g - value \in -1 .. 1 /\ (g = value <=> value % 2 = 0)
BY SMT DEF NearestStep, Greater, Lesser

\* The gains a HackRF stream or IQ sweep is started with are steps of its
\* amplifiers, and for a value a request may have no more than half a step from
\* it (_nearest_step).  start_sweep and a live retune send the value itself, so
\* that a retune to the configuration a stream was started with sends the gain
\* of the start exactly when the value is a step.
THEOREM GainsAreSteps ==
    ASSUME NEW value \in Int, NEW start \in Rounded, NEW other \in Unrounded
    PROVE  /\ LnaGain(start, value) \in 0 .. 40 /\ LnaGain(start, value) % 8 = 0
           /\ VgaGain(start, value) \in 0 .. 62 /\ VgaGain(start, value) % 2 = 0
           /\ value \in 0 .. 40 =>
                 /\ LnaGain(start, value) - value \in -4 .. 4
                 /\ LnaGain(other, value) = LnaGain(start, value) <=> value % 8 = 0
           /\ value \in 0 .. 62 =>
                 /\ VgaGain(start, value) - value \in -1 .. 1
                 /\ VgaGain(other, value) = VgaGain(start, value) <=> value % 2 = 0
<1>1. /\ LnaGain(start, value) = NearestStep(value, 8, 0, 40)
      /\ VgaGain(start, value) = NearestStep(value, 2, 0, 62)
      /\ LnaGain(other, value) = value /\ VgaGain(other, value) = value
  BY DEF LnaGain, VgaGain, Rounded, Unrounded
<1> QED  BY <1>1, StepsOf8, StepsOf2

\* The whole MHz hackrf_sweep is given start less than 1 MHz below the request and
\* end less than 1 MHz below its end.  They are an empty range exactly when no
\* multiple of 1 MHz lies above the start and not above the end of the request:
\* only a request narrower than 1 MHz, which the API accepts, can be cut to nothing.
THEOREM WholeMHzOfSweep ==
    ASSUME NEW range \in [start : Int, stop : Int], Accepted(range)
    PROVE  LET mhz == SweepMHz(range) IN
           /\ mhz.lo * MHz <= range.start /\ range.start - mhz.lo * MHz < MHz
           /\ mhz.hi * MHz <= range.stop /\ range.stop - mhz.hi * MHz < MHz
           /\ mhz.lo < mhz.hi
                 <=> \E k \in Int : range.start < k * MHz /\ k * MHz <= range.stop
           /\ range.stop - range.start >= MHz => mhz.lo < mhz.hi
<1> DEFINE lo == range.start \div MHz
           hi == range.stop \div MHz
<1>1. range.start \in Int /\ range.stop \in Int /\ range.start < range.stop  BY DEF Accepted
<1>2. lo \in Int /\ hi \in Int /\ lo * MHz <= range.start /\ range.start < (lo + 1) * MHz
      /\ hi * MHz <= range.stop /\ range.stop < (hi + 1) * MHz
  BY <1>1, SMT DEF MHz
<1>3. SweepMHz(range) = [lo |-> lo, hi |-> hi]  BY DEF SweepMHz
<1> HIDE DEF lo, hi
<1>4. ASSUME lo < hi PROVE range.start < hi * MHz /\ hi * MHz <= range.stop
  BY <1>1, <1>2, <1>4, SMT DEF MHz
<1>5. ASSUME NEW k \in Int, range.start < k * MHz, k * MHz <= range.stop PROVE lo < hi
  <2>1. lo < k  BY <1>1, <1>2, <1>5, SMT DEF MHz
  <2>2. k < hi + 1  BY <1>1, <1>2, <1>5, SMT DEF MHz
  <2> QED  BY <1>2, <2>1, <2>2, SMT
<1>6. range.stop - range.start >= MHz => lo < hi  BY <1>1, <1>2, SMT DEF MHz
<1>7. range.start - lo * MHz < MHz /\ range.stop - hi * MHz < MHz  BY <1>1, <1>2, SMT DEF MHz
<1> QED  BY <1>2, <1>3, <1>4, <1>5, <1>6, <1>7

\* The tuning range of every frequency below 65 GHz holds the frequency and is
\* not empty, and the range of a sweep holds the sweep (hackrf_iq_sweep.c).
THEOREM TuningRangesHold ==
    ASSUME NEW freq \in Nat, 0 < freq, freq <= 65000 * MHz,
           NEW half_hz \in Nat, half_hz <= 500 * MHz,
           NEW start_hz \in Nat, NEW stop_hz \in Nat, stop_hz <= 65000 * MHz
    PROVE  /\ LET r == RangeOfFrequency(freq, half_hz) IN
              r.lo < r.hi /\ r.lo * MHz <= freq /\ freq <= r.hi * MHz
           /\ start_hz < stop_hz =>
                 LET r == RangeOfLimits(start_hz, stop_hz) IN
                 r.lo < r.hi /\ r.lo * MHz <= start_hz /\ stop_hz <= r.hi * MHz
<1>1. ASSUME NEW x \in Nat, x <= 65500 * MHz
      PROVE  /\ Uint16(x \div MHz) \in Nat /\ Uint16(x \div MHz) * MHz <= x
             /\ x < (Uint16(x \div MHz) + 1) * MHz
             /\ Uint16(Up(x)) \in Nat /\ x <= Uint16(Up(x)) * MHz
  <2>1. /\ x \div MHz \in Nat /\ x \div MHz <= 65500
        /\ (x \div MHz) * MHz <= x /\ x < (x \div MHz + 1) * MHz
    BY <1>1, SMT DEF MHz
  <2>2. Up(x) \in Nat /\ Up(x) <= 65500 /\ x <= Up(x) * MHz  BY <1>1, SMT DEF Up, MHz
  <2>3. ASSUME NEW n \in Nat, n <= 65500 PROVE Uint16(n) = n  BY <2>3, SMT DEF Uint16
  <2>4. Uint16(x \div MHz) = x \div MHz /\ Uint16(Up(x)) = Up(x)  BY <2>1, <2>2, <2>3, SMT
  <2> QED  BY <2>1, <2>2, <2>4, SMT
<1>2. LET r == RangeOfFrequency(freq, half_hz) IN
      r.lo < r.hi /\ r.lo * MHz <= freq /\ freq <= r.hi * MHz
  <2> DEFINE x == IF freq > half_hz THEN freq - half_hz ELSE freq
             y == freq + half_hz
             lo == Uint16(x \div MHz)
             hi == Uint16(Up(y))
  <2>1. /\ x \in Nat /\ x <= 65500 * MHz /\ x <= freq
        /\ y \in Nat /\ y <= 65500 * MHz /\ freq <= y
    BY SMT DEF MHz
  <2>2. RangeOfFrequency(freq, half_hz) = [lo |-> lo, hi |-> IF lo >= hi THEN lo + 1 ELSE hi]
    BY DEF RangeOfFrequency
  <2> HIDE DEF x, y
  <2>3. /\ lo \in Nat /\ hi \in Nat /\ lo * MHz <= x /\ x < (lo + 1) * MHz /\ y <= hi * MHz
    BY <2>1, <1>1, SMT
  <2> HIDE DEF lo, hi
  <2>4. lo * MHz <= freq /\ freq <= hi * MHz /\ (lo >= hi => freq <= (lo + 1) * MHz)
    BY <2>1, <2>3, SMT DEF MHz
  <2> QED  BY <2>2, <2>3, <2>4, SMT
<1>3. ASSUME start_hz < stop_hz
      PROVE  LET r == RangeOfLimits(start_hz, stop_hz) IN
             r.lo < r.hi /\ r.lo * MHz <= start_hz /\ stop_hz <= r.hi * MHz
  <2> DEFINE lo == Uint16(start_hz \div MHz)
             hi == Uint16(Up(stop_hz))
  <2>1. start_hz <= 65500 * MHz /\ stop_hz <= 65500 * MHz  BY <1>3, SMT DEF MHz
  <2>2. lo \in Nat /\ hi \in Nat /\ lo * MHz <= start_hz /\ stop_hz <= hi * MHz
    BY <2>1, <1>1, SMT
  <2>3. RangeOfLimits(start_hz, stop_hz) = [lo |-> lo, hi |-> hi]  BY DEF RangeOfLimits
  <2> HIDE DEF lo, hi
  <2>4. lo < hi  BY <2>2, <1>3, SMT DEF MHz
  <2> QED  BY <2>2, <2>3, <2>4, SMT
<1> QED  BY <1>2, <1>3

\* The payload of a frame is a whole number of USB blocks, at least one, and
\* fits the worker's limit, whatever the chunk and the dwell ask for.
THEOREM ChunksAreBlocks ==
    ASSUME NEW chunk_bytes \in Nat, NEW dwell_bytes \in Nat
    PROVE  \E blocks \in Nat :
              /\ ChunkBytes(chunk_bytes, dwell_bytes) = blocks * BytesPerBlock
              /\ 0 < blocks /\ blocks * BytesPerBlock <= MaxSweepBytes
<1> DEFINE bytes == Greater(Lesser(Greater(chunk_bytes, dwell_bytes), MaxSweepBytes), BytesPerBlock)
           blocks == bytes \div BytesPerBlock
<1>1. bytes \in Nat /\ bytes >= BytesPerBlock /\ bytes <= MaxSweepBytes
  BY SMT DEF Greater, Lesser, MaxSweepBytes, BytesPerBlock
<1>2. ChunkBytes(chunk_bytes, dwell_bytes) = blocks * BytesPerBlock
  BY DEF ChunkBytes
<1> HIDE DEF bytes
<1>3. blocks \in Nat /\ 0 < blocks /\ blocks * BytesPerBlock <= bytes
  BY <1>1, SMT DEF BytesPerBlock
<1> HIDE DEF blocks
<1>4. blocks * BytesPerBlock <= MaxSweepBytes
  BY <1>1, <1>3, SMT DEF BytesPerBlock, MaxSweepBytes
<1> QED  BY <1>2, <1>3, <1>4
=============================================================================
