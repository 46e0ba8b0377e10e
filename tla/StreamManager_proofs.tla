------------------------ MODULE StreamManager_proofs ------------------------
(***************************************************************************)
(* Proofs about StreamManager, for all sessions, clients and processes and *)
(* whether joins of reader threads give up or not.                         *)
(***************************************************************************)
EXTENDS StreamManager, FiniteSetTheorems, TLAPS

-----------------------------------------------------------------------------
(* The invariant                                                           *)

Answering(c) == client[c].pc \notin {"idle", "stopjoin"}
Starting == {c \in Clients : client[c].pc \in {"register", "reinstall", "startreader"}}

\* Nobody but readers that a join gave up on works for s.
NoReader(s) ==
    \A r \in DOMAIN reader : reader[r].sess = s => reader[r].pc = "done" \/ r \in given_up

\* One start or retune of a session is under way at a time unless retunes
\* overlap, and a session is out of the dict before it is registered and once it
\* is being stopped.
ClientsApart ==
    /\ \A c \in Clients :
          /\ client[c].pc = "idle" => client[c].sess = None
          /\ client[c].pc # "idle" => client[c].sess \in used
          /\ client[c].pc \in {"register", "stopjoin"} => client[c].sess \notin registered
    /\ \A c, d \in Clients :
          Answering(c) /\ Answering(d) /\ client[c].sess = client[d].sess
              => c = d \/ client[c].sess \in overlapped
    /\ \A c, d \in Clients :
          client[c].pc = "register" /\ client[d].sess = client[c].sess => c = d

\* A process about to get a reader thread has given its name to none before.
NamesFresh ==
    /\ DOMAIN reader \subseteq Started
    /\ \A r \in DOMAIN reader : reader[r].sess \in used
    /\ \A c \in Starting : client[c].new \in Started /\ client[c].new \notin DOMAIN reader
    /\ \A c, d \in Starting : client[c].new = client[d].new => c = d

\* A reader that has not ended, and that no join gave up on, is the thread of its
\* session, which is the one a retune joins; after the join, and before a start,
\* the session has none.
ReadersAreThreads ==
    \A r \in DOMAIN reader :
        reader[r].sess \notin overlapped
            => reader[r].pc = "done" \/ r \in given_up \/ thread[reader[r].sess] = r
RetunesJoin ==
    \A c \in Clients :
        client[c].pc = "rejoin" /\ client[c].sess \notin overlapped
            => client[c].join = thread[client[c].sess]
RetunesAlone ==
    \A c \in Clients :
        /\ client[c].pc \in {"register", "respawn", "reinstall", "startreader"}
        /\ client[c].sess \notin overlapped
        => NoReader(client[c].sess)
OneReader == ReadersAreThreads /\ RetunesJoin /\ RetunesAlone

\* A restart under way holds the lock, and what it replaces is a dead process by
\* the time it has another.
Restarting == {r \in DOMAIN reader : reader[r].pc \in {"spawn", "install"}}
RestartsHold ==
    \A r \in Restarting :
        /\ restart_lock[reader[r].sess] = r /\ reader[r].proc \in Started
        /\ reader[r].pc = "install" => /\ reader[r].new \in Started
                                       /\ proc[reader[r].proc] = "dead"

\* As long as no join gave up on it and retunes did not overlap, a restart is that
\* of the session's process, and a stop meanwhile waits for it.
Uncrossed(r) == r \notin given_up /\ reader[r].sess \notin overlapped
RestartsMatch ==
    \A r \in Restarting : Uncrossed(r) =>
        /\ process[reader[r].sess] = reader[r].proc
        /\ \/ reader[r].sess \in registered
           \/ \E c \in Clients : /\ client[c].pc = "stopjoin" /\ client[c].join = r
                                 /\ client[c].sess = reader[r].sess

\* A process is put into one session once.  The new ones not put anywhere yet are
\* all different, and different from those sessions and restarts have.
Newcomers == {c \in Clients : client[c].pc \in {"register", "reinstall"}}
Installing == {r \in DOMAIN reader : reader[r].pc = "install"}
Looking == {r \in DOMAIN reader : reader[r].pc \in {"restart", "spawn", "install"}}
Unplaced(p) ==
    /\ p \in Started \ restarted
    /\ \A s \in Sessions : process[s] # p
    /\ \A r \in Looking : reader[r].proc # p
NewApart ==
    /\ \A c \in Newcomers : Unplaced(client[c].new)
    /\ \A c \in Newcomers, r \in Installing : reader[r].new # client[c].new
    /\ \A r \in Installing : Unplaced(reader[r].new)
    /\ \A r, x \in Installing : reader[x].new = reader[r].new => x = r

\* A process is in one session, also in the eyes of the readers that found it dead.
OldApart ==
    /\ \A s \in Sessions : process[s] \in Started \cup {None}
    /\ \A r \in Looking : reader[r].proc \in Started
    /\ \A s, t \in Sessions : process[s] = process[t] => s = t \/ process[s] = None
    /\ \A r \in Looking, s \in Sessions : process[s] = reader[r].proc => s = reader[r].sess
    /\ \A r, x \in Looking : reader[r].proc = reader[x].proc => reader[r].sess = reader[x].sess

\* What a restart has replaced is in a session only until the restart that holds
\* the lock installs the new process, so no other starts with it.
ReplacedGone ==
    /\ \A s \in Sessions : process[s] \in restarted =>
          \E r \in Installing : reader[r].sess = s /\ reader[r].proc = process[s]
    /\ \A r \in DOMAIN reader : reader[r].pc = "spawn" => reader[r].proc \notin restarted

IInv ==
    /\ TypeOK /\ ClientsApart /\ NamesFresh /\ OneReader /\ RestartsHold /\ RestartsMatch
    /\ NewApart /\ OldApart /\ ReplacedGone

LEMMA InitIInv == Init => IInv
<1> SUFFICES ASSUME Init PROVE IInv
  OBVIOUS
<1>1. TypeOK
  <2>1. proc \in [1 .. 0 -> {"live", "eof", "dead"}] /\ 0 \in 0 .. MaxWork
    BY ConstantsAssumption DEF Init
  <2>2. reader \in [{} -> [pc : ReaderPcs, sess : Sessions, proc : Procs \cup {None},
                           new : Procs \cup {None}]]
    BY DEF Init
  <2> QED  BY <2>1, <2>2 DEF Init, TypeOK, Idle, ClientPcs
<1>2. ClientsApart  BY DEF Init, ClientsApart, Answering, Idle
<1>3. NamesFresh  BY DEF Init, NamesFresh, Starting, Idle, Started
<1>4. OneReader
  BY DEF Init, OneReader, ReadersAreThreads, RetunesJoin, RetunesAlone, Idle
<1>5. RestartsHold /\ RestartsMatch  BY DEF Init, RestartsHold, RestartsMatch, Restarting
<1>6. NewApart /\ OldApart
  BY DEF Init, NewApart, OldApart, Newcomers, Installing, Looking, Idle
<1>7. ReplacedGone  BY DEF Init, ReplacedGone
<1> QED  BY <1>1, <1>2, <1>3, <1>4, <1>5, <1>6, <1>7 DEF IInv

-----------------------------------------------------------------------------
(* Processes and types                                                     *)

LEMMA StartedAreProcs ==
    ASSUME TypeOK
    PROVE  /\ Started \subseteq Procs /\ Procs \subseteq Int
           /\ Newest \notin Started /\ None \notin Procs
<1>1. PICK n \in 0 .. MaxWork : proc \in [1 .. n -> {"live", "eof", "dead"}]  BY DEF TypeOK
<1>2. Started = 1 .. n /\ n \in Nat  BY <1>1, ConstantsAssumption DEF Started
<1>3. Cardinality(1 .. n) = n  BY <1>2, FS_Interval
<1>4. Newest = n + 1  BY <1>2, <1>3 DEF Newest
<1> QED  BY <1>1, <1>2, <1>4, ConstantsAssumption DEF Procs

LEMMA SpawnedTyped ==
    ASSUME TypeOK, CanSpawn, NEW old
    PROVE  /\ Newest \in Procs \ Started
           /\ DOMAIN Spawned(old) = Started \cup {Newest}
           /\ Spawned(old)[Newest] = "live"
           /\ \A p \in Started : Spawned(old)[p] = IF p = old THEN "dead" ELSE proc[p]
           /\ \E n \in 0 .. MaxWork : Spawned(old) \in [1 .. n -> {"live", "eof", "dead"}]
<1>1. PICK n \in 0 .. MaxWork : proc \in [1 .. n -> {"live", "eof", "dead"}]  BY DEF TypeOK
<1>2. Started = 1 .. n /\ n \in Nat  BY <1>1, ConstantsAssumption DEF Started
<1>3. Cardinality(1 .. n) = n  BY <1>2, FS_Interval
<1>0. requests \in Nat  BY ConstantsAssumption DEF TypeOK
<1>4. Newest = n + 1 /\ n + 1 \in 0 .. MaxWork /\ Newest \in Procs
  BY <1>0, <1>2, <1>3, ConstantsAssumption DEF Newest, CanSpawn, Procs
<1>5. Started \cup {Newest} = 1 .. n + 1 /\ Newest \notin Started  BY <1>2, <1>4
<1>6. Spawned(old) \in [1 .. n + 1 -> {"live", "eof", "dead"}]
  BY <1>1, <1>2, <1>4, <1>5 DEF Spawned
<1> QED  BY <1>4, <1>5, <1>6 DEF Spawned

\* The parts of the type invariant, each about what one kind of step changes.
Reader == [pc : ReaderPcs, sess : Sessions, proc : Procs \cup {None}, new : Procs \cup {None}]
Client == [pc : ClientPcs, sess : Sessions \cup {None}, old : Procs \cup {None},
           join : Procs \cup {None}, new : Procs \cup {None}]

SessionType ==
    /\ registered \subseteq used /\ used \subseteq Sessions
    /\ process \in [Sessions -> Procs \cup {None}]
    /\ \A s \in registered : process[s] \in Started
    /\ status \in [Sessions -> {"running", "retuning", "stopped"}]
    /\ recent \in [Sessions -> BOOLEAN]
    /\ stop_reader \in [Sessions -> BOOLEAN]
    /\ thread \in [Sessions -> Procs \cup {None}]
    /\ restart_lock \in [Sessions -> Procs \cup {None}]
HistoryType ==
    /\ requests \in 0 .. MaxWork
    /\ given_up \subseteq DOMAIN reader
    /\ overlapped \subseteq Sessions
    /\ restarted \subseteq Started
ProcType == \E n \in 0 .. MaxWork : proc \in [1 .. n -> {"live", "eof", "dead"}]
ReaderType == DOMAIN reader \subseteq Procs /\ reader \in [DOMAIN reader -> Reader]
ClientType == client \in [Clients -> Client]

LEMMA Types ==
    TypeOK <=> SessionType /\ ProcType /\ ReaderType /\ ClientType /\ HistoryType
<1>1. (\E R \in SUBSET Procs : reader \in [R -> Reader]) <=> ReaderType
  BY DEF ReaderType
<1> QED  BY <1>1 DEF TypeOK, SessionType, ProcType, ClientType, HistoryType, Client, Reader

-----------------------------------------------------------------------------
(* What the steps of a reader thread and of a process leave alone          *)

LEMMA ReaderFrame ==
    ASSUME TypeOK, NEW r \in DOMAIN reader, ReaderStep(r)
    PROVE  /\ UNCHANGED <<registered, used, stop_reader, thread, client>>
           /\ DOMAIN reader' = DOMAIN reader
           /\ \A x \in DOMAIN reader : x # r => reader'[x] = reader[x]
           /\ reader[r].pc # "done" /\ reader'[r].sess = reader[r].sess
           /\ Started \subseteq Started'
<1>0. reader \in [DOMAIN reader -> Reader]  BY Types DEF ReaderType
<1>1. ASSUME NEW pc, NEW p, NEW n, ReaderAt(r, pc, p, n)
      PROVE  /\ DOMAIN reader' = DOMAIN reader
             /\ \A x \in DOMAIN reader : x # r => reader'[x] = reader[x]
             /\ reader'[r].sess = reader[r].sess
  BY <1>0, <1>1 DEF ReaderAt
<1>2. \E pc, p, n : ReaderAt(r, pc, p, n)
  BY ZenonT(30)
  DEF ReaderStep, ReaderTop, ReaderData, ReaderEof, ReaderDecide, ReaderFinish, RestartEnter,
      RestartSpawn, RestartFails, RestartInstall, ReaderGoto
<1>3. /\ UNCHANGED <<registered, used, stop_reader, thread, client>>
      /\ reader[r].pc # "done"
  BY DEF ReaderStep, ReaderTop, ReaderData, ReaderEof, ReaderDecide, ReaderFinish, RestartEnter,
      RestartSpawn, RestartFails, RestartInstall, session
<1>4. Started \subseteq Started'
  <2>1. CASE RestartSpawn(r)
    <3>1. Started' = Started \cup {Newest}
      BY <2>1, SpawnedTyped DEF RestartSpawn, Started
    <3> QED  BY <3>1
  <2>2. CASE ~RestartSpawn(r)
    BY <2>2
    DEF ReaderStep, ReaderTop, ReaderData, ReaderEof, ReaderDecide, ReaderFinish, RestartEnter,
        RestartFails, RestartInstall, Killed, Started
  <2> QED  BY <2>1, <2>2
<1> QED  BY <1>1, <1>2, <1>3, <1>4

\* The first half of a restart: the old process is stopped, a new one runs.
LEMMA RestartSpawned ==
    ASSUME TypeOK, NEW r \in DOMAIN reader, RestartSpawn(r)
    PROVE  /\ UNCHANGED session /\ reader[r].pc = "spawn"
           /\ reader'[r].pc = "install" /\ reader'[r].new = Newest
           /\ reader'[r].proc = reader[r].proc
           /\ Started' = Started \cup {Newest}
           /\ reader[r].proc \in Started => proc'[reader[r].proc] = "dead"
<1>1. reader \in [DOMAIN reader -> Reader]  BY Types DEF ReaderType
<1>2. ReaderAt(r, "install", reader[r].proc, Newest)  BY DEF RestartSpawn
<1>3. reader'[r].pc = "install" /\ reader'[r].new = Newest /\ reader'[r].proc = reader[r].proc
  BY <1>1, <1>2 DEF ReaderAt
<1>4. proc' = Spawned(reader[r].proc) /\ CanSpawn /\ UNCHANGED session /\ reader[r].pc = "spawn"
  BY DEF RestartSpawn
<1>5. /\ Started' = Started \cup {Newest}
      /\ reader[r].proc \in Started => proc'[reader[r].proc] = "dead"
  BY <1>4, SpawnedTyped DEF Started
<1> QED  BY <1>3, <1>4, <1>5

ProcStep ==
    \/ \E p \in Started : Exit(p) \/ Reaped(p)
    \/ \E s \in Sessions : Age(s)
    \/ UNCHANGED code

LEMMA ProcFrame ==
    ASSUME ProcStep
    PROVE  /\ UNCHANGED <<registered, used, process, status, stop_reader, thread, restart_lock,
                          reader, client>>
           /\ Started' = Started
BY DEF ProcStep, Exit, Reaped, Age, session, vars, code, Started

\* A process that is gone stays gone.
LEMMA DeadStayDead ==
    ASSUME TypeOK, [Next]_vars
    PROVE  \A p \in Started : p \in Started' /\ (proc[p] = "dead" => proc'[p] = "dead")
<1> DEFINE Goal == \A p \in Started : p \in Started' /\ (proc[p] = "dead" => proc'[p] = "dead")
<1>1. CASE proc' = proc  BY <1>1 DEF Started
<1>2. ASSUME NEW p, proc' = Killed(p) PROVE Goal  BY <1>2 DEF Killed, Started
<1>3. ASSUME NEW p, CanSpawn, proc' = Spawned(p) PROVE Goal
  BY <1>3, SpawnedTyped DEF Started
<1>4. ASSUME NEW p \in Started, Exit(p) \/ Reaped(p) PROVE Goal
  BY <1>4 DEF Exit, Reaped, Started
<1>5. ASSUME NEW c \in Clients, ClientRequest(c) \/ ClientStep(c) PROVE Goal
  BY <1>1, <1>2, <1>3, <1>5
  DEF ClientRequest, ClientStep, StartSpawn, StopPop, RetuneBegin, StartRegister, StartReader,
      StopKill, RetuneLive, RetuneCold, RetuneKill, RetuneSpawn, RetuneFails, RetuneInstall
<1>6. ASSUME NEW r \in DOMAIN reader, ReaderStep(r) PROVE Goal
  BY <1>1, <1>2, <1>3, <1>6
  DEF ReaderStep, ReaderTop, ReaderData, ReaderEof, ReaderDecide, ReaderFinish, RestartEnter,
      RestartSpawn, RestartFails, RestartInstall
<1> QED  BY <1>1, <1>4, <1>5, <1>6 DEF Next, CodeStep, Age, vars, code

-----------------------------------------------------------------------------
(* Types are kept                                                          *)

LEMMA ProcTypeStep ==
    ASSUME TypeOK, [Next]_vars
    PROVE  ProcType'
<1>0. PICK n \in 0 .. MaxWork : proc \in [1 .. n -> {"live", "eof", "dead"}]  BY DEF TypeOK
<1>1. CASE proc' = proc  BY <1>0, <1>1 DEF ProcType
<1>2. ASSUME NEW p, proc' = Killed(p) PROVE ProcType'  BY <1>0, <1>2 DEF Killed, ProcType
<1>3. ASSUME NEW p, CanSpawn, proc' = Spawned(p) PROVE ProcType'
  BY <1>3, SpawnedTyped DEF ProcType
<1>4. ASSUME NEW p \in Started, Exit(p) \/ Reaped(p) PROVE ProcType'
  BY <1>0, <1>4 DEF Exit, Reaped, ProcType
<1>5. ASSUME NEW c \in Clients, ClientRequest(c) \/ ClientStep(c) PROVE ProcType'
  BY <1>1, <1>2, <1>3, <1>5
  DEF ClientRequest, ClientStep, StartSpawn, StopPop, RetuneBegin, StartRegister, StartReader,
      StopKill, RetuneLive, RetuneCold, RetuneKill, RetuneSpawn, RetuneFails, RetuneInstall,
      session
<1>6. ASSUME NEW r \in DOMAIN reader, ReaderStep(r) PROVE ProcType'
  BY <1>1, <1>2, <1>3, <1>6
  DEF ReaderStep, ReaderTop, ReaderData, ReaderEof, ReaderDecide, ReaderFinish, RestartEnter,
      RestartSpawn, RestartFails, RestartInstall
<1> QED  BY <1>1, <1>4, <1>5, <1>6 DEF Next, CodeStep, Age, vars, code

LEMMA ReaderTypeStep ==
    ASSUME TypeOK, NamesFresh, ClientsApart, [Next]_vars
    PROVE  ReaderType'
<1>0. ReaderType /\ ClientType /\ SessionType  BY Types
<1>1. CASE reader' = reader  BY <1>0, <1>1 DEF ReaderType, Procs, Reader, ReaderPcs
<1>2. ASSUME NEW r \in DOMAIN reader, ReaderStep(r) PROVE ReaderType'
  <2>1. reader[r] \in Reader /\ reader \in [DOMAIN reader -> Reader]  BY <1>0 DEF ReaderType
  <2>2. ASSUME NEW pc \in ReaderPcs, NEW p \in Procs \cup {None}, NEW n \in Procs \cup {None},
               ReaderAt(r, pc, p, n)
        PROVE  ReaderType'
    <3>1. [pc |-> pc, sess |-> reader[r].sess, proc |-> p, new |-> n] \in Reader
      BY <2>1 DEF Reader
    <3> QED  BY <1>0, <2>1, <2>2, <3>1 DEF ReaderAt, ReaderType, Procs, Reader, ReaderPcs
  <2>3. ASSUME NEW pc \in ReaderPcs, ReaderGoto(r, pc) PROVE ReaderType'
    BY <2>2, <2>3 DEF ReaderGoto
  <2>5. process[reader[r].sess] \in Procs \cup {None} /\ reader[r].proc \in Procs \cup {None}
    BY <1>0, <2>1 DEF SessionType, Reader
  <2>6. CASE ReaderTop(r)  BY <2>2, <2>3, <2>5, <2>6 DEF ReaderTop, ReaderPcs
  <2>7. CASE ReaderDecide(r)
    <3>1. AfterEof(r) \in ReaderPcs  BY DEF AfterEof, ReaderPcs
    <3> QED  BY <2>2, <2>5, <2>7, <3>1 DEF ReaderDecide
  <2>8. CASE RestartEnter(r)
    <3>1. \/ ReaderAt(r, "spawn", reader[r].proc, None)
          \/ ReaderGoto(r, "top") \/ ReaderGoto(r, "finish")
      BY <2>8 DEF RestartEnter
    <3> QED  BY <2>2, <2>3, <2>5, <3>1 DEF ReaderPcs
  <2>9. CASE RestartSpawn(r)
    <3>1. Newest \in Procs  BY <2>9, SpawnedTyped DEF RestartSpawn
    <3> QED  BY <2>2, <2>5, <2>9, <3>1 DEF RestartSpawn, ReaderPcs
  <2> QED
    BY <1>2, <2>3, <2>6, <2>7, <2>8, <2>9
    DEF ReaderStep, ReaderData, ReaderEof, ReaderFinish, RestartFails, RestartInstall, ReaderPcs
<1>3. ASSUME NEW c \in Clients, StartReader(c) PROVE ReaderType'
  <2>1. client[c].new \in Procs /\ client[c].sess \in Sessions
    BY <1>0, <1>3, StartedAreProcs
    DEF StartReader, NamesFresh, Starting, ClientsApart, SessionType
  <2>2. [pc |-> "top", sess |-> client[c].sess, proc |-> None, new |-> None] \in Reader
    BY <2>1 DEF Reader, ReaderPcs
  <2>3. /\ DOMAIN reader' = DOMAIN reader \cup {client[c].new}
        /\ \A r \in DOMAIN reader' : reader'[r] \in Reader
    BY <1>0, <1>3, <2>2 DEF StartReader, ReaderType
  <2>4. reader' = [r \in DOMAIN reader' |-> reader'[r]]  BY <1>3 DEF StartReader
  <2> QED  BY <1>0, <2>1, <2>3, <2>4 DEF ReaderType, Procs, Reader, ReaderPcs
<1> QED
  BY <1>1, <1>2, <1>3
  DEF Next, CodeStep, ClientRequest, ClientStep, StartSpawn, StopPop, RetuneBegin, StartRegister, StopKill,
      RetuneLive, RetuneCold, RetuneKill, RetuneSpawn, RetuneFails, RetuneInstall, Exit, Reaped,
      Age, vars, code

LEMMA ClientTypeStep ==
    ASSUME TypeOK, ClientsApart, [Next]_vars
    PROVE  ClientType'
<1>0. ClientType /\ SessionType  BY Types
<1>1. CASE client' = client  BY <1>0, <1>1 DEF ClientType, Procs, Client, ClientPcs
<1>2. ASSUME NEW c \in Clients, ClientRequest(c) \/ ClientStep(c) PROVE ClientType'
  <2>1. client[c] \in Client  BY <1>0 DEF ClientType
  <2>2. ASSUME NEW x \in Client, client' = [client EXCEPT ![c] = x] PROVE ClientType'
    BY <1>0, <2>2 DEF ClientType, Procs, Client, ClientPcs
  <2>3. ASSUME NEW pc \in ClientPcs, Goto(c, pc) PROVE ClientType'
    <3>1. [client[c] EXCEPT !.pc = pc] \in Client  BY <2>1 DEF Client
    <3> QED  BY <2>2, <2>3, <3>1 DEF Goto
  <2>4. Idle \in Client  BY DEF Idle, Client, ClientPcs
  <2>5. CASE Return(c)  BY <2>2, <2>4, <2>5 DEF Return
  <2>6. ASSUME NEW s \in Sessions, StartSpawn(c, s) PROVE ClientType'
    <3>1. Newest \in Procs  BY <2>6, SpawnedTyped DEF StartSpawn
    <3>2. [Idle EXCEPT !.pc = "register", !.sess = s, !.new = Newest] \in Client
      BY <3>1, <2>4 DEF Client, ClientPcs
    <3> QED  BY <2>2, <2>6, <3>2 DEF StartSpawn
  <2>7. ASSUME NEW s \in Sessions, StopPop(c, s) PROVE ClientType'
    <3>1. thread[s] \in Procs \cup {None}  BY <1>0 DEF SessionType
    <3>2. [Idle EXCEPT !.pc = "stopjoin", !.sess = s, !.join = thread[s]] \in Client
      BY <3>1, <2>4 DEF Client, ClientPcs
    <3> QED  BY <2>2, <2>7, <3>2 DEF StopPop
  <2>8. ASSUME NEW s \in Sessions, RetuneBegin(c, s) PROVE ClientType'
    <3>1. [Idle EXCEPT !.pc = "tune", !.sess = s] \in Client  BY <2>4 DEF Client, ClientPcs
    <3> QED  BY <2>2, <2>8, <3>1 DEF RetuneBegin
  <2>9. CASE RetuneCold(c)
    <3> DEFINE s == client[c].sess
    <3>1. s \in Sessions  BY <1>0, <2>9 DEF RetuneCold, ClientsApart, SessionType
    <3>2. process[s] \in Procs \cup {None} /\ thread[s] \in Procs \cup {None}
      BY <1>0, <3>1 DEF SessionType
    <3> HIDE DEF s
    <3>3. [client[c] EXCEPT !.pc = "rejoin", !.old = process[s], !.join = thread[s]] \in Client
      BY <2>1, <3>2 DEF Client, ClientPcs
    <3> QED  BY <2>2, <2>9, <3>3 DEF RetuneCold, s
  <2>10. CASE RetuneSpawn(c)
    <3>1. Newest \in Procs  BY <2>10, SpawnedTyped DEF RetuneSpawn
    <3>2. [client[c] EXCEPT !.pc = "reinstall", !.new = Newest] \in Client
      BY <2>1, <3>1 DEF Client, ClientPcs
    <3> QED  BY <2>2, <2>10, <3>2 DEF RetuneSpawn
  <2>11. CASE RetuneKill(c)
    <3>1. client[c].sess \in Sessions \cup {None}  BY <2>1 DEF Client
    <3>2. [Idle EXCEPT !.pc = "respawn", !.sess = client[c].sess] \in Client
      BY <2>4, <3>1 DEF Client, ClientPcs
    <3> QED  BY <2>2, <2>11, <3>2 DEF RetuneKill
  <2> QED
    BY <1>2, <2>3, <2>5, <2>6, <2>7, <2>8, <2>9, <2>10, <2>11
    DEF ClientRequest, ClientStep, StartRegister, StartReader, StopKill, RetuneLive,
        RetuneFails, RetuneInstall, ClientPcs
<1> QED
  BY <1>1, <1>2
  DEF Next, CodeStep, ReaderStep, ReaderTop, ReaderData, ReaderEof, ReaderDecide, ReaderFinish,
      RestartEnter, RestartSpawn, RestartFails, RestartInstall, Exit, Reaped, Age, vars, code

\* The session fields one request or reader step sets, the others kept.
LEMMA SessionTypeStep ==
    ASSUME IInv, [Next]_vars
    PROVE  SessionType'
<1> USE DEF IInv
<1>0. /\ SessionType /\ ClientType /\ ReaderType
      /\ Started \subseteq Procs /\ Started \subseteq Started'
  BY Types, StartedAreProcs, DeadStayDead
<1>1. CASE UNCHANGED session  BY <1>0, <1>1 DEF SessionType, session, Procs
<1>2. ASSUME NEW s \in Sessions, Age(s) PROVE SessionType'
  BY <1>0, <1>2 DEF Age, SessionType, Procs
<1>3. ASSUME NEW c \in Clients, ClientRequest(c) PROVE SessionType'
  <2>1. ASSUME NEW s \in Sessions, StartSpawn(c, s) PROVE SessionType'
    BY <1>0, <2>1 DEF StartSpawn, SessionType, Procs
  <2>2. ASSUME NEW s \in Sessions, StopPop(c, s) PROVE SessionType'
    BY <1>0, <2>2 DEF StopPop, StopReader, SessionType, Procs
  <2>3. ASSUME NEW s \in Sessions, RetuneBegin(c, s) PROVE SessionType'
    BY <1>0, <2>3 DEF RetuneBegin, SessionType, Procs
  <2> QED  BY <1>3, <2>1, <2>2, <2>3 DEF ClientRequest
<1>4. ASSUME NEW c \in Clients, ClientStep(c) PROVE SessionType'
  <2>1. client[c].sess \in Sessions
    BY <1>0, <1>4
    DEF ClientsApart, SessionType, ClientStep, StartRegister, StartReader, StopKill, RetuneLive,
        RetuneCold, RetuneKill, RetuneSpawn, RetuneFails, RetuneInstall
  <2>2. client[c].sess \in used
    BY <1>0, <1>4
    DEF ClientsApart, ClientStep, StartRegister, StartReader, StopKill, RetuneLive,
        RetuneCold, RetuneKill, RetuneSpawn, RetuneFails, RetuneInstall
  <2>3. client[c].pc \in {"register", "reinstall", "startreader"} => client[c].new \in Started
    BY DEF NamesFresh, Starting
  <2>4. CASE StartRegister(c)  BY <1>0, <2>2, <2>3, <2>4 DEF StartRegister, SessionType, Procs
  <2>5. CASE StartReader(c)  BY <1>0, <2>1, <2>3, <2>5 DEF StartReader, SessionType, Procs
  <2>6. CASE StopKill(c)  BY <1>0, <2>1, <2>6 DEF StopKill, SessionType, Procs
  <2>7. CASE RetuneLive(c)  BY <1>0, <2>1, <2>7 DEF RetuneLive, SessionType, Procs
  <2>8. CASE RetuneCold(c)  BY <1>0, <2>1, <2>8 DEF RetuneCold, StopReader, SessionType, Procs
  <2>9. CASE RetuneFails(c)  BY <1>0, <2>1, <2>9 DEF RetuneFails, SessionType, Procs
  <2>10. CASE RetuneInstall(c)
    BY <1>0, <2>1, <2>3, <2>10 DEF RetuneInstall, SessionType, Procs
  <2> QED
    BY <1>1, <1>4, <2>4, <2>5, <2>6, <2>7, <2>8, <2>9, <2>10
    DEF ClientStep, RetuneKill, RetuneSpawn
<1>5. ASSUME NEW r \in DOMAIN reader, ReaderStep(r) PROVE SessionType'
  <2>1. reader[r].sess \in Sessions /\ r \in Procs  BY <1>0 DEF ReaderType, Reader
  <2>2. CASE ReaderFinish(r)  BY <1>0, <2>1, <2>2 DEF ReaderFinish, SessionType, Procs
  <2>3. CASE RestartEnter(r)  BY <1>0, <2>1, <2>3 DEF RestartEnter, SessionType, Procs
  <2>4. CASE RestartFails(r)  BY <1>0, <2>1, <2>4 DEF RestartFails, SessionType, Procs
  <2>5. CASE RestartInstall(r)
    <3>1. reader[r].new \in Started  BY <2>5 DEF RestartInstall, RestartsHold, Restarting
    <3> QED  BY <1>0, <2>1, <2>5, <3>1 DEF RestartInstall, SessionType, Procs
  <2> QED
    BY <1>1, <1>5, <2>2, <2>3, <2>4, <2>5
    DEF ReaderStep, ReaderTop, ReaderData, ReaderEof, ReaderDecide, RestartSpawn
<1> QED
  BY <1>1, <1>2, <1>3, <1>4, <1>5 DEF Next, CodeStep, Exit, Reaped, vars, code, session

\* Nothing is forgotten but readers that have ended.
LEMMA Remembered ==
    ASSUME [Next]_vars
    PROVE  /\ overlapped \subseteq overlapped' /\ restarted \subseteq restarted'
           /\ \A s \in Sessions : Overlaps(s) => s \in overlapped'
           /\ \A r \in DOMAIN reader :
                 r \in given_up \/ GivesUp(r) => r \in given_up' \/ reader'[r].pc = "done"
           /\ \A p \in restarted' :
                 p \in restarted \/ \E r \in DOMAIN reader : Restarts(r, p)
<1>1. CASE Remember
  <2>1. \A r \in DOMAIN reader :
           r \in given_up \/ GivesUp(r) => r \in given_up' \/ reader'[r].pc = "done"
    BY <1>1 DEF Remember
  <2>2. /\ overlapped \subseteq overlapped' /\ restarted \subseteq restarted'
        /\ \A s \in Sessions : Overlaps(s) => s \in overlapped'
        /\ \A p \in restarted' : p \in restarted \/ \E r \in DOMAIN reader : Restarts(r, p)
    BY <1>1 DEF Remember
  <2> QED  BY <2>1, <2>2
<1>2. CASE UNCHANGED vars
  <2>1. \A r : ~GivesUp(r)  BY <1>2 DEF GivesUp, vars, code
  <2>2. \A s : ~Overlaps(s)  BY <1>2 DEF Overlaps, vars, code
  <2> QED  BY <1>2, <2>1, <2>2 DEF vars
<1> QED  BY <1>1, <1>2 DEF Next

LEMMA HistoryTypeStep ==
    ASSUME TypeOK, ProcType', [Next]_vars
    PROVE  HistoryType'
<1>0. HistoryType /\ Started \subseteq Started'  BY Types, DeadStayDead DEF HistoryType
<1>1. CASE UNCHANGED vars  BY <1>0, <1>1 DEF HistoryType, vars, code, Started
<1>2. CASE Next
  <2>1. requests' \in 0 .. MaxWork
    <3>1. PICK n \in 0 .. MaxWork : proc' \in [1 .. n -> {"live", "eof", "dead"}]
      BY DEF ProcType
    <3>2. Cardinality(Started') \in Nat
      <4>1. Started' = 1 .. n /\ n \in Nat  BY <3>1, ConstantsAssumption DEF Started
      <4> QED  BY <4>1, FS_Interval
    <3> QED  BY <1>0, <1>2, <3>2, ConstantsAssumption DEF Next, Count, HistoryType
  <2>2. given_up' \subseteq DOMAIN reader /\ DOMAIN reader \subseteq DOMAIN reader'
    <3>1. given_up' \subseteq DOMAIN reader  BY <1>2 DEF Next, Remember
    <3>2. DOMAIN reader \subseteq DOMAIN reader'
      <4>1. ASSUME NEW r \in DOMAIN reader, ReaderStep(r) PROVE DOMAIN reader' = DOMAIN reader
        BY <4>1, ReaderFrame
      <4> QED
        BY <1>2, <4>1
        DEF Next, CodeStep, ClientRequest, ClientStep, StartSpawn, StopPop, RetuneBegin,
            StartRegister, StartReader, StopKill, RetuneLive, RetuneCold, RetuneKill, RetuneSpawn,
            RetuneFails, RetuneInstall, Exit, Reaped, Age, session
    <3> QED  BY <3>1, <3>2
  <2>3. overlapped' \subseteq Sessions  BY <1>0, <1>2 DEF Next, Remember, HistoryType
  <2>4. restarted' \subseteq Started'  BY <1>0, <1>2 DEF Next, Remember, HistoryType
  <2> QED  BY <2>1, <2>2, <2>3, <2>4 DEF HistoryType
<1> QED  BY <1>1, <1>2

LEMMA TypeStep ==
    ASSUME IInv, [Next]_vars
    PROVE  TypeOK'
<1>1. SessionType' /\ ProcType' /\ ReaderType' /\ ClientType' /\ HistoryType'
  BY SessionTypeStep, ProcTypeStep, ReaderTypeStep, ClientTypeStep, HistoryTypeStep DEF IInv
<1> QED  BY <1>1, Types, PTL

-----------------------------------------------------------------------------
(* Requests and readers stay apart                                         *)

LEMMA ClientsApartStep ==
    ASSUME IInv, [Next]_vars
    PROVE  ClientsApart'
<1> USE DEF IInv, ClientsApart, Answering
<1>0. /\ client \in [Clients -> Client] /\ None \notin Sessions /\ used \subseteq Sessions
      /\ registered \subseteq used /\ overlapped \subseteq overlapped'
  BY Types, Remembered, ConstantsAssumption DEF ClientType, SessionType
<1>1. CASE UNCHANGED <<client, registered, used>>  BY <1>0, <1>1
<1>2. ASSUME NEW c \in Clients, NEW s \in Sessions, StartSpawn(c, s) PROVE ClientsApart'
  BY <1>0, <1>2 DEF StartSpawn, Idle
<1>3. ASSUME NEW c \in Clients, NEW s \in Sessions, StopPop(c, s) PROVE ClientsApart'
  BY <1>0, <1>3 DEF StopPop, Idle
<1>4. ASSUME NEW c \in Clients, NEW s \in Sessions, RetuneBegin(c, s) PROVE ClientsApart'
  <2>1. /\ UNCHANGED <<registered, used>> /\ s \in registered /\ client[c].pc = "idle"
        /\ client'[c].pc = "tune" /\ client'[c].sess = s
        /\ \A d \in Clients : d # c => client'[d] = client[d]
    BY <1>0, <1>4 DEF RetuneBegin, Idle
  <2>2. ASSUME NEW d \in Clients, client[d].pc \notin {"idle", "stopjoin"}, client[d].sess = s
        PROVE  s \in overlapped'
    <3>1. Overlaps(s)  BY <2>1, <2>2 DEF Overlaps
    <3> QED  BY <3>1, Remembered
  <2> QED  BY <1>0, <2>1, <2>2
<1>5. ASSUME NEW c \in Clients, ClientStep(c) PROVE ClientsApart'
  <2>0. ASSUME Return(c), UNCHANGED <<registered, used>> PROVE ClientsApart'
    <3>1. client'[c].pc = "idle" /\ client'[c].sess = None  BY <1>0, <2>0 DEF Return, Idle
    <3>2. \A d \in Clients : d # c => client'[d] = client[d]  BY <1>0, <2>0 DEF Return
    <3> QED  BY <1>0, <2>0, <3>1, <3>2
  <2>1. CASE StartRegister(c)  BY <1>0, <2>1 DEF StartRegister, Goto
  <2>2. CASE StartReader(c)  BY <2>0, <2>2 DEF StartReader
  <2>3. CASE StopKill(c)  BY <2>0, <2>3 DEF StopKill
  <2>4. CASE RetuneLive(c)  BY <2>0, <2>4 DEF RetuneLive
  <2>5. CASE RetuneCold(c)
    <3>1. /\ client[c].pc = "tune" /\ client'[c].pc = "rejoin" /\ client'[c].sess = client[c].sess
          /\ UNCHANGED <<registered, used>>
      BY <1>0, <2>5 DEF RetuneCold
    <3>2. \A d \in Clients : d # c => client'[d] = client[d]  BY <1>0, <2>5 DEF RetuneCold
    <3> QED  BY <1>0, <3>1, <3>2
  <2>6. CASE RetuneKill(c)
    <3>1. /\ client[c].pc = "rejoin" /\ client'[c].pc = "respawn"
          /\ client'[c].sess = client[c].sess /\ UNCHANGED <<registered, used>>
      BY <1>0, <2>6 DEF RetuneKill, session, Idle
    <3>2. \A d \in Clients : d # c => client'[d] = client[d]  BY <1>0, <2>6 DEF RetuneKill
    <3> QED  BY <1>0, <3>1, <3>2
  <2>7. CASE RetuneSpawn(c)  BY <1>0, <2>7 DEF RetuneSpawn, session
  <2>8. CASE RetuneFails(c)  BY <2>0, <2>8 DEF RetuneFails
  <2>9. CASE RetuneInstall(c)  BY <1>0, <2>9 DEF RetuneInstall, Goto
  <2> QED
    BY <1>5, <2>1, <2>2, <2>3, <2>4, <2>5, <2>6, <2>7, <2>8, <2>9 DEF ClientStep
<1>6. ASSUME NEW r \in DOMAIN reader, ReaderStep(r) PROVE ClientsApart'
  BY <1>1, <1>6, ReaderFrame
<1>7. CASE ProcStep  BY <1>1, <1>7, ProcFrame
<1> QED
  BY <1>2, <1>3, <1>4, <1>5, <1>6, <1>7 DEF Next, CodeStep, ClientRequest, ProcStep, vars

LEMMA NamesFreshStep ==
    ASSUME IInv, [Next]_vars
    PROVE  NamesFresh'
<1> USE DEF IInv, NamesFresh, Starting
<1>0. /\ client \in [Clients -> Client] /\ None \notin Sessions /\ ReaderType
      /\ Started \subseteq Started'
  BY Types, ConstantsAssumption, DeadStayDead DEF ClientType
<1>1. ASSUME NEW c \in Clients, NEW s \in Sessions, StartSpawn(c, s) PROVE NamesFresh'
  <2>1. Started' = Started \cup {Newest} /\ Newest \notin Started
    BY <1>1, SpawnedTyped DEF StartSpawn, Started
  <2> QED  BY <1>0, <1>1, <2>1 DEF StartSpawn, Idle
<1>2. ASSUME NEW c \in Clients, NEW s \in Sessions, StopPop(c, s) \/ RetuneBegin(c, s)
      PROVE  NamesFresh'
  <2>1. UNCHANGED <<used, proc, reader>>  BY <1>2 DEF StopPop, RetuneBegin
  <2>2. client'[c].pc \in {"stopjoin", "tune"}
    BY ZenonT(30), <1>0, <1>2 DEF StopPop, RetuneBegin, Idle
  <2>3. \A d \in Clients : d # c => client'[d] = client[d]
    BY <1>0, <1>2 DEF StopPop, RetuneBegin
  <2> QED  BY <1>0, <2>1, <2>2, <2>3
<1>3. ASSUME NEW c \in Clients, ClientStep(c) PROVE NamesFresh'
  <2>1. CASE StartRegister(c)  BY <1>0, <2>1 DEF StartRegister, Goto
  <2>2. CASE StartReader(c)  BY <1>0, <2>2 DEF StartReader, Return, Idle, ClientsApart
  <2>3. CASE StopKill(c)  BY <1>0, <2>3 DEF StopKill, Return, Idle
  <2>4. CASE RetuneLive(c)  BY <1>0, <2>4 DEF RetuneLive, Return, Idle
  <2>5. CASE RetuneCold(c)  BY <1>0, <2>5 DEF RetuneCold
  <2>6. CASE RetuneKill(c)
    <3>1. /\ client'[c].pc = "respawn" /\ UNCHANGED <<used, reader>>
          /\ \A d \in Clients : d # c => client'[d] = client[d]
      BY <1>0, <2>6 DEF RetuneKill, session, Idle
    <3> QED  BY <1>0, <3>1
  <2>7. CASE RetuneSpawn(c)
    <3>1. Started' = Started \cup {Newest} /\ Newest \notin Started
      BY <2>7, SpawnedTyped DEF RetuneSpawn, Started
    <3> QED  BY <1>0, <2>7, <3>1 DEF RetuneSpawn, session
  <2>8. CASE RetuneFails(c)  BY <1>0, <2>8 DEF RetuneFails, Return, Idle
  <2>9. CASE RetuneInstall(c)  BY <1>0, <2>9 DEF RetuneInstall, Goto
  <2> QED
    BY <1>3, <2>1, <2>2, <2>3, <2>4, <2>5, <2>6, <2>7, <2>8, <2>9 DEF ClientStep
<1>4. ASSUME NEW r \in DOMAIN reader, ReaderStep(r) PROVE NamesFresh'
  BY <1>0, <1>4, ReaderFrame
<1>5. CASE ProcStep  BY <1>5, ProcFrame
<1> QED  BY <1>1, <1>2, <1>3, <1>4, <1>5 DEF Next, CodeStep, ClientRequest, ProcStep, vars

LEMMA OneReaderStep ==
    ASSUME IInv, [Next]_vars
    PROVE  OneReader'
<1> USE DEF IInv, OneReader, ReadersAreThreads, RetunesJoin, RetunesAlone, NoReader
<1>0. /\ client \in [Clients -> Client] /\ reader \in [DOMAIN reader -> Reader]
      /\ thread \in [Sessions -> Procs \cup {None}] /\ registered \subseteq used
      /\ used \subseteq Sessions /\ None \notin Sessions /\ None \notin Procs
  BY Types, ConstantsAssumption, StartedAreProcs DEF ClientType, ReaderType, SessionType
<1>r. /\ overlapped \subseteq overlapped'
      /\ \A r \in DOMAIN reader : r \in given_up => r \in given_up' \/ reader'[r].pc = "done"
  BY Remembered
<1>1. ASSUME NEW c \in Clients, NEW s \in Sessions, StartSpawn(c, s) PROVE OneReader'
  BY <1>0, <1>r, <1>1 DEF StartSpawn, Idle, NamesFresh
<1>2. ASSUME NEW c \in Clients, NEW s \in Sessions, StopPop(c, s) \/ RetuneBegin(c, s)
      PROVE  OneReader'
  <2>1. UNCHANGED <<thread, reader>>  BY <1>2 DEF StopPop, RetuneBegin
  <2>2. client'[c].pc \in {"stopjoin", "tune"}
    BY ZenonT(30), <1>0, <1>2 DEF StopPop, RetuneBegin, Idle
  <2>3. \A d \in Clients : d # c => client'[d] = client[d]
    BY <1>0, <1>2 DEF StopPop, RetuneBegin
  <2> QED  BY <1>r, <2>1, <2>2, <2>3
<1>3. ASSUME NEW c \in Clients, ClientStep(c) PROVE OneReader'
  <2>1. CASE StartRegister(c)  BY <1>0, <1>r, <2>1 DEF StartRegister, Goto
  <2>2. CASE StartReader(c)
    <3> DEFINE s == client[c].sess
    <3>1. /\ client[c].pc = "startreader" /\ s \in Sessions /\ client[c].new \notin DOMAIN reader
          /\ \A d \in Clients : d # c /\ client[d].sess = s
                                  => client[d].pc \in {"idle", "stopjoin"} \/ s \in overlapped'
      BY <1>0, <1>r, <2>2 DEF StartReader, ClientsApart, Answering, NamesFresh, Starting
    <3>2. /\ thread'[s] = client[c].new
          /\ \A t \in Sessions : t # s => thread'[t] = thread[t]
          /\ client'[c].pc = "idle" /\ \A d \in Clients : d # c => client'[d] = client[d]
      BY <1>0, <2>2, <3>1 DEF StartReader, Return, Idle
    <3>3. /\ DOMAIN reader' = DOMAIN reader \cup {client[c].new}
          /\ reader'[client[c].new].sess = s
          /\ \A r \in DOMAIN reader : reader'[r] = reader[r]
      BY <2>2, <3>1 DEF StartReader
    <3>4. s \notin overlapped' => NoReader(s)  BY <1>r, <3>1
    <3>5. \A r \in DOMAIN reader : reader[r].sess \in Sessions  BY <1>0 DEF Reader
    <3>6. \A d \in Clients : client[d].pc # "idle" => client[d].sess \in Sessions
      BY <1>0 DEF ClientsApart
    <3>7. ReadersAreThreads'
      BY <1>r, <3>2, <3>3, <3>4, <3>5
    <3>8. RetunesJoin'
      BY <1>r, <3>1, <3>2, <3>6
    <3>9. RetunesAlone'
      BY <1>r, <3>1, <3>2, <3>3
    <3> QED  BY <3>7, <3>8, <3>9
  <2>3. CASE StopKill(c)  BY <1>0, <1>r, <2>3 DEF StopKill, Return, Idle
  <2>4. CASE RetuneLive(c)  BY <1>0, <1>r, <2>4 DEF RetuneLive, Return, Idle
  <2>5. CASE RetuneCold(c)  BY <1>0, <1>r, <2>5 DEF RetuneCold
  <2>6. CASE RetuneKill(c)
    <3>1. /\ UNCHANGED <<thread, reader>> /\ client[c].pc = "rejoin"
          /\ client'[c].sess = client[c].sess /\ client'[c].pc = "respawn"
          /\ \A d \in Clients : d # c => client'[d] = client[d]
      BY <1>0, <2>6 DEF RetuneKill, Idle, session
    <3>2. ASSUME client[c].sess \notin overlapped',
                 NEW r \in DOMAIN reader, reader[r].sess = client[c].sess
          PROVE  reader'[r].pc = "done" \/ r \in given_up'
      <4>1. client[c].join = r /\ reader[r].pc # "done" => GivesUp(r)
        BY <3>1 DEF GivesUp
      <4>2. reader[r].pc = "done" \/ r \in given_up \/ client[c].join = r
        BY <1>r, <3>1, <3>2
      <4> QED  BY <3>1, <4>1, <4>2, Remembered
    <3> QED  BY <1>r, <3>1, <3>2
  <2>7. CASE RetuneSpawn(c)  BY <1>0, <1>r, <2>7 DEF RetuneSpawn, session
  <2>8. CASE RetuneFails(c)  BY <1>0, <1>r, <2>8 DEF RetuneFails, Return, Idle
  <2>9. CASE RetuneInstall(c)  BY <1>0, <1>r, <2>9 DEF RetuneInstall, Goto
  <2> QED
    BY <1>3, <2>1, <2>2, <2>3, <2>4, <2>5, <2>6, <2>7, <2>8, <2>9 DEF ClientStep
<1>4. ASSUME NEW r \in DOMAIN reader, ReaderStep(r) PROVE OneReader'
  BY <1>r, <1>4, ReaderFrame
<1>5. CASE ProcStep  BY <1>r, <1>5, ProcFrame
<1> QED  BY <1>1, <1>2, <1>3, <1>4, <1>5 DEF Next, CodeStep, ClientRequest, ProcStep, vars

-----------------------------------------------------------------------------
(* What requests and restarts do to the session's process                  *)

LEMMA ClientFrame ==
    ASSUME IInv, NEW c \in Clients, ClientRequest(c) \/ ClientStep(c)
    PROVE  /\ UNCHANGED restart_lock /\ Started \subseteq Started'
           /\ \A d \in Clients : d # c => client'[d] = client[d]
           /\ \A r \in DOMAIN reader : r \in DOMAIN reader' /\ reader'[r] = reader[r]
           /\ \A r \in DOMAIN reader' : r \in DOMAIN reader \/ reader'[r].pc = "top"
           /\ client'[c].pc \in {"register", "reinstall"}
                 => /\ client'[c].new = Newest /\ Started' = Started \cup {Newest}
                    /\ UNCHANGED <<process, reader>>
           /\ \/ UNCHANGED process
              \/ /\ client[c].pc \in {"register", "reinstall"} /\ client'[c].pc = "startreader"
                 /\ client[c].sess \in Sessions /\ UNCHANGED <<proc, reader>>
                 /\ process' = [process EXCEPT ![client[c].sess] = client[c].new]
<1> USE DEF IInv
<1>0. /\ client \in [Clients -> Client] /\ used \subseteq Sessions
  BY Types DEF ClientType, SessionType
<1>1. UNCHANGED restart_lock /\ \A d \in Clients : d # c => client'[d] = client[d]
  BY <1>0
  DEF ClientRequest, ClientStep, StartSpawn, StopPop, RetuneBegin, StartRegister, StartReader,
      StopKill, RetuneLive, RetuneCold, RetuneKill, RetuneSpawn, RetuneFails, RetuneInstall,
      Goto, Return, session
<1>2. /\ \A r \in DOMAIN reader : r \in DOMAIN reader' /\ reader'[r] = reader[r]
      /\ \A r \in DOMAIN reader' : r \in DOMAIN reader \/ reader'[r].pc = "top"
  <2>1. CASE StartReader(c)  BY <2>1 DEF StartReader, NamesFresh, Starting
  <2>2. CASE ~StartReader(c)
    <3>1. UNCHANGED reader
      BY <2>2
      DEF ClientRequest, ClientStep, StartSpawn, StopPop, RetuneBegin, StartRegister,
          StopKill, RetuneLive, RetuneCold, RetuneKill, RetuneSpawn, RetuneFails, RetuneInstall,
          session
    <3> QED  BY <3>1
  <2> QED  BY <2>1, <2>2
<1>3. \/ UNCHANGED process
      \/ /\ client[c].pc \in {"register", "reinstall"} /\ client'[c].pc = "startreader"
         /\ client[c].sess \in Sessions /\ UNCHANGED <<proc, reader>>
         /\ process' = [process EXCEPT ![client[c].sess] = client[c].new]
  <2>1. ASSUME StartRegister(c) \/ RetuneInstall(c)
        PROVE  /\ client[c].pc \in {"register", "reinstall"} /\ client'[c].pc = "startreader"
               /\ client[c].sess \in Sessions /\ UNCHANGED <<proc, reader>>
               /\ process' = [process EXCEPT ![client[c].sess] = client[c].new]
    <3>1. client[c].sess \in Sessions  BY <1>0, <2>1 DEF StartRegister, RetuneInstall, ClientsApart, Client
    <3>2. client'[c].pc = "startreader"
      BY <1>0, <2>1 DEF StartRegister, RetuneInstall, Goto, Client
    <3> QED  BY <2>1, <3>1, <3>2 DEF StartRegister, RetuneInstall
  <2>2. CASE ~(StartRegister(c) \/ RetuneInstall(c))
    <3>1. UNCHANGED process
      BY <2>2
      DEF ClientRequest, ClientStep, StartSpawn, StopPop, RetuneBegin, StartReader, StopKill,
          RetuneLive, RetuneCold, RetuneKill, RetuneSpawn, RetuneFails, session
    <3> QED  BY <3>1
  <2> QED  BY <2>1, <2>2
<1>4. ASSUME client'[c].pc \in {"register", "reinstall"}
      PROVE  /\ client'[c].new = Newest /\ Started' = Started \cup {Newest}
             /\ UNCHANGED <<process, reader>>
  <2>1. CASE RetuneSpawn(c)
    <3>1. client'[c].new = Newest /\ UNCHANGED <<process, reader>>
      BY <1>0, <2>1 DEF RetuneSpawn, session, Client
    <3> QED  BY <2>1, <3>1, SpawnedTyped DEF RetuneSpawn, Started
  <2>2. ASSUME NEW s \in Sessions, StartSpawn(c, s)
        PROVE  /\ client'[c].new = Newest /\ Started' = Started \cup {Newest}
               /\ UNCHANGED <<process, reader>>
    <3>1. client'[c].new = Newest /\ UNCHANGED <<process, reader>>
      BY <1>0, <2>2 DEF StartSpawn, Idle
    <3> QED  BY <2>2, <3>1, SpawnedTyped DEF StartSpawn, Started
  <2>3. CASE ~RetuneSpawn(c) /\ \A s \in Sessions : ~StartSpawn(c, s)
    <3>1. client'[c].pc \notin {"register", "reinstall"}
      <4>1. ASSUME ClientRequest(c) PROVE client'[c].pc \in {"stopjoin", "tune"}
        <5>1. PICK s \in Sessions : StopPop(c, s) \/ RetuneBegin(c, s)
          BY <2>3, <4>1 DEF ClientRequest
        <5> QED  BY <1>0, <5>1 DEF StopPop, RetuneBegin, Idle
      <4>2. ASSUME StartRegister(c) \/ RetuneInstall(c) PROVE client'[c].pc = "startreader"
        BY <1>0, <4>2 DEF StartRegister, RetuneInstall, Goto, Client
      <4>3. ASSUME StartReader(c) \/ StopKill(c) \/ RetuneLive(c) \/ RetuneFails(c)
            PROVE  client'[c].pc = "idle"
        BY <1>0, <4>3 DEF StartReader, StopKill, RetuneLive, RetuneFails, Return, Idle
      <4>4. ASSUME RetuneCold(c) PROVE client'[c].pc = "rejoin"
        BY <1>0, <4>4 DEF RetuneCold
      <4>5. ASSUME RetuneKill(c) PROVE client'[c].pc = "respawn"
        BY <1>0, <4>5 DEF RetuneKill, Idle
      <4> QED  BY <2>3, <4>1, <4>2, <4>3, <4>4, <4>5 DEF ClientStep
    <3> QED  BY <1>4, <3>1
  <2> QED  BY <2>1, <2>2, <2>3
<1>5. Started \subseteq Started'
  <2>1. ASSUME CanSpawn, NEW p, proc' = Spawned(p) PROVE Started \subseteq Started'
    BY <2>1, SpawnedTyped DEF Started
  <2>2. ASSUME NEW p, proc' = Killed(p) PROVE Started \subseteq Started'
    BY <2>2 DEF Killed, Started
  <2>3. ASSUME proc' = proc PROVE Started \subseteq Started'  BY <2>3 DEF Started
  <2> QED
    BY <2>1, <2>2, <2>3
    DEF ClientRequest, ClientStep, StartSpawn, StopPop, RetuneBegin, StartRegister, StartReader,
        StopKill, RetuneLive, RetuneCold, RetuneKill, RetuneSpawn, RetuneFails, RetuneInstall
<1> QED  BY <1>1, <1>2, <1>3, <1>4, <1>5

LEMMA RestartInstalled ==
    ASSUME TypeOK, NEW r \in DOMAIN reader, RestartInstall(r)
    PROVE  /\ reader[r].pc = "install" /\ reader'[r].pc = "top" /\ UNCHANGED proc
           /\ reader[r].sess \in Sessions
           /\ process' = [process EXCEPT ![reader[r].sess] = reader[r].new]
           /\ restart_lock' = [restart_lock EXCEPT ![reader[r].sess] = None]
<1>1. reader \in [DOMAIN reader -> Reader]  BY Types DEF ReaderType
<1>2. reader'[r].pc = "top"  BY <1>1 DEF RestartInstall, ReaderGoto, ReaderAt
<1> QED  BY <1>1, <1>2 DEF RestartInstall, Reader

LEMMA ReaderMoves ==
    ASSUME TypeOK, NEW r \in DOMAIN reader, ReaderStep(r)
    PROVE  /\ process' = process \/ RestartInstall(r)
           /\ Started' = Started \/ RestartSpawn(r)
           /\ \A t \in Sessions : t # reader[r].sess => restart_lock'[t] = restart_lock[t]
           /\ \/ UNCHANGED restart_lock \/ restart_lock[reader[r].sess] = None
              \/ r \in Restarting
           /\ reader'[r].pc = "restart"
                 => /\ reader[r].sess \in registered /\ reader'[r].proc = process[reader[r].sess]
                    /\ UNCHANGED process
           /\ reader'[r].pc = "spawn"
                 => /\ reader[r].pc = "restart" /\ reader'[r].proc = reader[r].proc
                    /\ restart_lock[reader[r].sess] = None /\ restart_lock'[reader[r].sess] = r
                    /\ reader[r].sess \in registered /\ process[reader[r].sess] = reader[r].proc
                    /\ UNCHANGED process
           /\ reader'[r].pc = "install" => RestartSpawn(r)
<1>0. /\ reader \in [DOMAIN reader -> Reader] /\ reader[r].sess \in Sessions
      /\ restart_lock \in [Sessions -> Procs \cup {None}]
  BY Types DEF ReaderType, Reader, SessionType
<1>1. ASSUME NEW pc, NEW p, NEW n, ReaderAt(r, pc, p, n)
      PROVE  reader'[r].pc = pc /\ reader'[r].proc = p
  BY <1>0, <1>1 DEF ReaderAt
<1>2. ASSUME NEW pc, ReaderGoto(r, pc) PROVE reader'[r].pc = pc
  BY <1>1, <1>2 DEF ReaderGoto
<1>3. CASE ReaderTop(r)
  <2>1. reader'[r].pc \in {"finish", "reading"}  BY <1>1, <1>2, <1>3 DEF ReaderTop
  <2> QED  BY <1>3, <2>1 DEF ReaderTop, session, Started
<1>4. CASE ReaderDecide(r)
  <2>1. AfterEof(r) \in {"finish", "top", "restart"}  BY DEF AfterEof
  <2>2. AfterEof(r) = "restart" => reader[r].sess \in registered  BY DEF AfterEof, MustEnd
  <2>3. reader'[r].pc = AfterEof(r)
        /\ (AfterEof(r) = "restart" => reader'[r].proc = process[reader[r].sess])
    BY <1>1, <1>4 DEF ReaderDecide
  <2> QED  BY <1>4, <2>1, <2>2, <2>3 DEF ReaderDecide, session, Started
<1>5. CASE RestartEnter(r)
  <2> DEFINE s == reader[r].sess
             proceed == s \in registered /\ StillFailed(r)
  <2>1. /\ UNCHANGED <<process, proc>> /\ reader[r].pc = "restart" /\ restart_lock[s] = None
        /\ restart_lock' = [restart_lock EXCEPT ![s] = IF proceed THEN r ELSE None]
    BY <1>5 DEF RestartEnter
  <2>2. CASE proceed
    <3>1. ReaderAt(r, "spawn", reader[r].proc, None)  BY <1>5, <2>2 DEF RestartEnter
    <3> QED  BY <1>0, <1>1, <2>1, <2>2, <3>1 DEF StillFailed, Started
  <2>3. CASE ~proceed
    <3>1. reader'[r].pc \in {"top", "finish"}  BY <1>2, <1>5, <2>3 DEF RestartEnter
    <3> QED  BY <1>0, <2>1, <3>1 DEF Started
  <2> QED  BY <2>2, <2>3
<1>6. CASE RestartSpawn(r)
  BY <1>6, RestartSpawned DEF session
<1>7. CASE RestartInstall(r)
  BY <1>0, <1>7, RestartInstalled DEF Restarting, Started
<1>8. CASE RestartFails(r)
  <2>1. reader'[r].pc = "finish"  BY <1>2, <1>8 DEF RestartFails
  <2> QED  BY <1>0, <1>8, <2>1 DEF RestartFails, Restarting, Killed, Started
<1>9. CASE ReaderData(r) \/ ReaderEof(r) \/ ReaderFinish(r)
  <2>1. reader'[r].pc \in {"top", "eof", "done"}
    BY <1>2, <1>9 DEF ReaderData, ReaderEof, ReaderFinish
  <2> QED  BY <1>9, <2>1 DEF ReaderData, ReaderEof, ReaderFinish, session, Started
<1> QED  BY <1>3, <1>4, <1>5, <1>6, <1>7, <1>8, <1>9 DEF ReaderStep

-----------------------------------------------------------------------------
(* Restarts hold the lock and match the process they replace               *)

LEMMA RestartsHoldStep ==
    ASSUME IInv, [Next]_vars
    PROVE  RestartsHold'
<1> USE DEF IInv, RestartsHold, Restarting
<1>0. \A p \in Started : p \in Started' /\ (proc[p] = "dead" => proc'[p] = "dead")
  BY DeadStayDead
<1>1. ASSUME NEW c \in Clients, ClientRequest(c) \/ ClientStep(c) PROVE RestartsHold'
  BY <1>0, <1>1, ClientFrame
<1>2. ASSUME NEW r \in DOMAIN reader, ReaderStep(r) PROVE RestartsHold'
  <2>0. reader[r].sess \in Sessions /\ None \notin DOMAIN reader
        /\ \A x \in DOMAIN reader : reader[x].sess \in Sessions
    BY Types, StartedAreProcs DEF ReaderType, Reader, NamesFresh
  <2>1. /\ DOMAIN reader' = DOMAIN reader
        /\ \A x \in DOMAIN reader : x # r => reader'[x] = reader[x]
        /\ reader'[r].sess = reader[r].sess
    BY <1>2, ReaderFrame
  <2>2. ASSUME NEW x \in Restarting, x # r
        PROVE  restart_lock'[reader[x].sess] = x
    BY <1>2, <2>0, <2>2, ReaderMoves
  <2>3. CASE reader'[r].pc = "spawn"
    <3>1. reader[r].proc \in Started /\ reader'[r].proc = reader[r].proc
      BY <1>2, <2>3, ReaderMoves DEF OldApart, Looking
    <3> QED  BY <1>0, <1>2, <2>1, <2>2, <2>3, <3>1, ReaderMoves
  <2>4. CASE reader'[r].pc = "install"
    <3>1. RestartSpawn(r)  BY <1>2, <2>4, ReaderMoves
    <3>2. /\ restart_lock'[reader[r].sess] = r /\ reader[r].proc \in Started
          /\ reader'[r].proc = reader[r].proc /\ reader'[r].new \in Started'
          /\ proc'[reader[r].proc] = "dead"
      BY <3>1, RestartSpawned DEF session
    <3> QED  BY <1>0, <2>1, <2>2, <3>2
  <2>5. CASE reader'[r].pc \notin {"spawn", "install"}  BY <1>0, <2>1, <2>2, <2>5
  <2> QED  BY <2>3, <2>4, <2>5
<1>3. CASE ProcStep  BY <1>0, <1>3, ProcFrame
<1> QED  BY <1>1, <1>2, <1>3 DEF Next, CodeStep, ProcStep, vars

LEMMA RestartsMatchStep ==
    ASSUME IInv, [Next]_vars
    PROVE  RestartsMatch'
<1> USE DEF IInv, RestartsMatch, Uncrossed
<1>0. /\ client \in [Clients -> Client] /\ reader \in [DOMAIN reader -> Reader]
      /\ process \in [Sessions -> Procs \cup {None}]
      /\ \A r \in DOMAIN reader : reader[r].sess \in Sessions
  BY Types DEF ClientType, ReaderType, SessionType, Reader
<1>1. /\ overlapped \subseteq overlapped'
      /\ \A r \in DOMAIN reader :
            r \in given_up \/ GivesUp(r) => r \in given_up' \/ reader'[r].pc = "done"
  BY Remembered
<1>2. ASSUME NEW c \in Clients, ClientRequest(c) \/ ClientStep(c) PROVE RestartsMatch'
  <2>1. /\ \A d \in Clients : d # c => client'[d] = client[d]
        /\ \A r \in DOMAIN reader : reader'[r] = reader[r]
        /\ Restarting' = Restarting
    BY <1>2, ClientFrame DEF Restarting
  <2> SUFFICES ASSUME NEW r \in Restarting, Uncrossed(r)'
               PROVE  /\ process'[reader[r].sess] = reader[r].proc
                      /\ \/ reader[r].sess \in registered'
                         \/ \E d \in Clients : /\ client'[d].pc = "stopjoin" /\ client'[d].join = r
                                               /\ client'[d].sess = reader[r].sess
    BY <2>1 DEF Restarting
  <2> DEFINE s == reader[r].sess
  <2>2. /\ r \in DOMAIN reader /\ reader[r].pc \in {"spawn", "install"} /\ reader'[r] = reader[r]
        /\ s \in Sessions
    BY <1>0, <2>1 DEF Restarting
  <2>3. Uncrossed(r) /\ ~GivesUp(r) /\ s \notin overlapped  BY <1>1, <2>2
  <2>4. thread[s] = r /\ \A d \in Clients :
            client[d].pc \in {"register", "reinstall"} => client[d].sess # s
    BY <2>2, <2>3 DEF OneReader, ReadersAreThreads, RetunesAlone, NoReader
  <2>5. process'[s] = process[s]  BY <1>0, <1>2, <2>2, <2>4, ClientFrame
  <2>6. ASSUME s \in registered, s \notin registered'
        PROVE  client'[c].pc = "stopjoin" /\ client'[c].join = r /\ client'[c].sess = s
    <3>1. PICK t \in Sessions : StopPop(c, t)
      BY <1>2, <2>6
      DEF ClientRequest, ClientStep, StartSpawn, RetuneBegin, StartRegister, StartReader,
          StopKill, RetuneLive, RetuneCold, RetuneKill, RetuneSpawn, RetuneFails, RetuneInstall,
          session
    <3>2. t = s  BY <2>6, <3>1 DEF StopPop
    <3> QED  BY <1>0, <2>4, <3>1, <3>2 DEF StopPop, Idle
  <2>7. ASSUME NEW d \in Clients, client[d].pc = "stopjoin", client[d].join = r
        PROVE  client'[d] = client[d]
    <3>1. client'[d].pc = "stopjoin"  BY <2>2, <2>3, <2>7 DEF GivesUp
    <3>2. ASSUME d = c PROVE FALSE
      <4>1. StopKill(c)
        BY <1>2, <2>7, <3>2
        DEF ClientRequest, ClientStep, StartSpawn, StopPop, RetuneBegin, StartRegister,
            StartReader, RetuneLive, RetuneCold, RetuneKill, RetuneSpawn, RetuneFails,
            RetuneInstall
      <4> QED  BY <1>0, <3>1, <3>2, <4>1 DEF StopKill, Return, Idle
    <3> QED  BY <2>1, <3>2
  <2> QED  BY <2>3, <2>5, <2>6, <2>7
<1>3. ASSUME NEW r \in DOMAIN reader, ReaderStep(r) PROVE RestartsMatch'
  <2>1. /\ UNCHANGED <<registered, client>> /\ DOMAIN reader' = DOMAIN reader
        /\ \A x \in DOMAIN reader : x # r => reader'[x] = reader[x]
        /\ reader[r].pc # "done" /\ reader'[r].sess = reader[r].sess
    BY <1>3, ReaderFrame
  <2> SUFFICES ASSUME NEW x \in Restarting', Uncrossed(x)'
               PROVE  /\ process'[reader[x].sess] = reader'[x].proc
                      /\ \/ reader[x].sess \in registered
                         \/ \E d \in Clients : /\ client[d].pc = "stopjoin" /\ client[d].join = x
                                               /\ client[d].sess = reader[x].sess
    BY <2>1 DEF Restarting
  <2>2. x \in DOMAIN reader /\ reader'[x].pc \in {"spawn", "install"} /\ Uncrossed(x)
    BY <1>1, <2>1 DEF Restarting
  <2>3. CASE x = r /\ reader'[r].pc = "spawn"
    BY <1>3, <2>3, ReaderMoves
  <2>4. CASE x = r /\ reader'[r].pc = "install"
    <3>1. RestartSpawn(r)  BY <1>3, <2>4, ReaderMoves
    <3>2. r \in Restarting /\ process' = process /\ reader'[r].proc = reader[r].proc
      BY <3>1, RestartSpawned DEF session, Restarting
    <3> QED  BY <2>2, <2>4, <3>2
  <2>5. CASE x # r
    <3>1. x \in Restarting /\ reader'[x] = reader[x]  BY <2>1, <2>2, <2>5 DEF Restarting
    <3>2. process'[reader[x].sess] = process[reader[x].sess]
      <4>1. CASE RestartInstall(r)
        <5>1. reader[r].pc = "install" /\ process' = [process EXCEPT ![reader[r].sess] = reader[r].new]
          BY <4>1, RestartInstalled
        <5>2. reader[r].sess # reader[x].sess
          BY <2>5, <3>1, <5>1 DEF RestartsHold, Restarting
        <5> QED  BY <1>0, <2>2, <5>1, <5>2
      <4> QED  BY <1>3, <4>1, ReaderMoves
    <3> QED  BY <2>2, <3>1, <3>2
  <2> QED  BY <2>2, <2>3, <2>4, <2>5
<1>4. CASE ProcStep
  <2>1. UNCHANGED <<registered, process, reader, client>>  BY <1>4, ProcFrame
  <2> QED  BY <1>1, <2>1 DEF Restarting
<1> QED  BY <1>2, <1>3, <1>4 DEF Next, CodeStep, ProcStep, vars

-----------------------------------------------------------------------------
(* A process is put into one session once                                  *)

\* A step other than the start of a restart's new process remembers none.
LEMMA RestartsByStep ==
    ASSUME IInv, [Next]_vars, NEW p \in restarted', p \notin restarted
    PROVE  \E r \in DOMAIN reader : RestartSpawn(r) /\ p = reader[r].proc
<1>1. PICK r \in DOMAIN reader : Restarts(r, p)  BY Remembered
<1>2. reader[r].pc = "spawn" /\ reader'[r].pc = "install" /\ reader[r].proc = p
  BY <1>1 DEF Restarts
<1>3. ASSUME NEW c \in Clients, ClientRequest(c) \/ ClientStep(c) PROVE FALSE
  BY <1>2, <1>3, ClientFrame
<1>4. ASSUME NEW x \in DOMAIN reader, ReaderStep(x) PROVE x = r /\ RestartSpawn(r)
  <2>1. x = r  BY <1>2, <1>4, ReaderFrame DEF IInv
  <2> QED  BY <1>2, <1>4, <2>1, ReaderMoves DEF IInv
<1>5. CASE ProcStep  BY <1>2, <1>5, ProcFrame
<1> QED  BY <1>2, <1>3, <1>4, <1>5 DEF Next, CodeStep, ProcStep, vars

\* What steps of requests and of processes keep: the newest process is put nowhere.
LEMMA NewestUnplaced ==
    ASSUME IInv
    PROVE  /\ Newest \notin Started /\ Newest \notin restarted
           /\ \A s \in Sessions : process[s] # Newest
           /\ \A r \in Looking : reader[r].proc # Newest
           /\ \A r \in Installing : reader[r].new # Newest
           /\ \A c \in Newcomers : client[c].new # Newest
<1>1. TypeOK /\ NewApart /\ OldApart  BY DEF IInv
<1>2. PICK n \in Nat : Started = 1 .. n /\ Newest = n + 1
  <2>1. PICK n \in 0 .. MaxWork : proc \in [1 .. n -> {"live", "eof", "dead"}]
    BY <1>1 DEF TypeOK
  <2>2. Started = 1 .. n /\ n \in Nat  BY <2>1, ConstantsAssumption DEF Started
  <2>3. Cardinality(1 .. n) = n  BY <2>2, FS_Interval
  <2> QED  BY <2>2, <2>3 DEF Newest
<1>3. Newest \notin Started /\ Newest # None  BY <1>2, ConstantsAssumption
<1> QED  BY <1>1, <1>3 DEF TypeOK, NewApart, OldApart, Unplaced

LEMMA PlacesByRequest ==
    ASSUME IInv, [Next]_vars, NEW c \in Clients, ClientRequest(c) \/ ClientStep(c)
    PROVE  NewApart' /\ OldApart' /\ ReplacedGone'
<1> USE DEF IInv
<1>0. /\ process \in [Sessions -> Procs \cup {None}] /\ Started \subseteq Started'
  BY Types, ClientFrame DEF SessionType
<1>1. /\ \A d \in Clients : d # c => client'[d] = client[d]
      /\ \A r \in DOMAIN reader : reader'[r] = reader[r]
      /\ Looking' = Looking /\ Installing' = Installing
  BY ClientFrame DEF Looking, Installing
<1>2. Looking \subseteq DOMAIN reader /\ Installing \subseteq DOMAIN reader
  BY DEF Looking, Installing
<1>3. restarted' = restarted
  <2>1. ASSUME NEW p \in restarted', p \notin restarted PROVE FALSE
    <3>1. PICK r \in DOMAIN reader : RestartSpawn(r)  BY <2>1, RestartsByStep
    <3> QED  BY <1>1, <3>1, RestartSpawned
  <2> QED  BY <2>1, Remembered
<1>4. \A r \in DOMAIN reader : reader[r].pc = "spawn" <=> reader'[r].pc = "spawn"  BY <1>1
<1>5. CASE UNCHANGED process
  <2>1. \A p : Unplaced(p) => Unplaced(p)'  BY <1>0, <1>1, <1>2, <1>3, <1>5 DEF Unplaced
  <2>2. NewApart'
    <3>1. CASE client'[c].pc \in {"register", "reinstall"}
      <4>0. PICK n : n = Newest  OBVIOUS
      <4>1. /\ n \notin restarted /\ (\A s \in Sessions : process[s] # n)
            /\ \A r \in Looking : reader[r].proc # n
            /\ \A r \in Installing : reader[r].new # n
            /\ client'[c].new = n /\ n \in Started'
        BY <3>1, <4>0, ClientFrame, NewestUnplaced
      <4>2. Unplaced(n)'
        BY <1>1, <1>2, <1>3, <1>5, <4>1 DEF Unplaced
      <4>3. \A d \in Newcomers' : d = c \/ (d \in Newcomers /\ client'[d] = client[d])
        BY <1>1 DEF Newcomers
      <4> QED  BY <1>1, <1>2, <2>1, <4>1, <4>2, <4>3 DEF NewApart
    <3>2. CASE client'[c].pc \notin {"register", "reinstall"}
      <4>1. \A d \in Newcomers' : d \in Newcomers /\ client'[d] = client[d]
        BY <1>1, <3>2 DEF Newcomers
      <4> QED  BY <1>1, <1>2, <2>1, <4>1 DEF NewApart
    <3> QED  BY <3>1, <3>2
  <2>3. OldApart'  BY <1>0, <1>1, <1>2, <1>5 DEF OldApart
  <2>4. ReplacedGone'
    <3>1. \A r \in DOMAIN reader' : reader'[r].pc = "spawn" => r \in DOMAIN reader
      BY ClientFrame
    <3> QED  BY <1>1, <1>2, <1>3, <1>5, <3>1 DEF ReplacedGone
  <2> QED  BY <2>2, <2>3, <2>4
<1>6. CASE ~UNCHANGED process
  <2> DEFINE s == client[c].sess
             n == client[c].new
  <2>1. /\ c \in Newcomers /\ client'[c].pc = "startreader" /\ s \in Sessions
        /\ UNCHANGED <<proc, reader>>
        /\ process' = [process EXCEPT ![s] = n]
    BY <1>6, ClientFrame DEF Newcomers
  <2>2. process'[s] = n /\ \A t \in Sessions : t # s => process'[t] = process[t]
    BY <1>0, <2>1
  <2>3. Unplaced(n) /\ \A r \in Installing : reader[r].new # n  BY <2>1 DEF NewApart
  <2>4. \A d \in Newcomers' : d \in Newcomers /\ client'[d] = client[d] /\ client[d].new # n
    BY <1>1, <2>1 DEF Newcomers, NamesFresh, Starting
  <2>5. ASSUME NEW p, Unplaced(p), p # n PROVE Unplaced(p)'
    BY <1>0, <1>1, <1>2, <1>3, <2>2, <2>5 DEF Unplaced
  <2> HIDE DEF s, n
  <2>6. NewApart'  BY <1>1, <1>2, <2>3, <2>4, <2>5 DEF NewApart
  <2>7. n \in Started /\ (\A t \in Sessions : process[t] # n) /\ \A r \in Looking : reader[r].proc # n
    BY <2>3 DEF Unplaced
  <2>8. OldApart'  BY <1>0, <1>1, <1>2, <2>2, <2>7 DEF OldApart
  <2>9. ReplacedGone'
    <3>1. \A r \in DOMAIN reader' : reader'[r].pc = "spawn" => r \in DOMAIN reader
      BY ClientFrame
    <3>2. n \notin restarted  BY <2>3 DEF Unplaced
    <3> QED  BY <1>1, <1>2, <1>3, <2>2, <3>1, <3>2 DEF ReplacedGone
  <2> QED  BY <2>6, <2>8, <2>9
<1> QED  BY <1>5, <1>6

LEMMA PlacesByReader ==
    ASSUME IInv, [Next]_vars, NEW r \in DOMAIN reader, ReaderStep(r)
    PROVE  NewApart' /\ OldApart' /\ ReplacedGone'
<1> USE DEF IInv
<1> DEFINE s == reader[r].sess
<1>0. /\ process \in [Sessions -> Procs \cup {None}] /\ s \in Sessions
      /\ \A t \in registered : process[t] \in Started
      /\ \A x \in DOMAIN reader : reader[x].sess \in Sessions
  BY Types DEF SessionType, ReaderType, Reader
<1>1. /\ client' = client /\ DOMAIN reader' = DOMAIN reader /\ Started \subseteq Started'
      /\ \A x \in DOMAIN reader : x # r => reader'[x] = reader[x]
      /\ reader'[r].sess = s
  BY ReaderFrame
<1>2. Newcomers' = Newcomers  BY <1>1 DEF Newcomers
<1>3. \A x \in Looking : reader[x].sess \in Sessions /\ x \in DOMAIN reader
  BY <1>0 DEF Looking
<1> HIDE DEF s
<1>4. CASE RestartSpawn(r)
  <2>0. PICK n : n = Newest  OBVIOUS
  <2>1. /\ reader[r].pc = "spawn" /\ reader'[r].pc = "install" /\ reader'[r].new = n
        /\ reader'[r].proc = reader[r].proc /\ UNCHANGED process
        /\ Started' = Started \cup {n}
    BY <1>4, <2>0, RestartSpawned DEF session
  <2>2. /\ Looking' = Looking /\ Installing' = Installing \cup {r} /\ r \in Looking
        /\ r \notin Installing
        /\ \A x \in Looking : reader'[x].proc = reader[x].proc /\ reader'[x].sess = reader[x].sess
        /\ \A x \in Installing : reader'[x] = reader[x]
    BY <1>1, <2>1 DEF Looking, Installing, s
  <2>3. restarted \subseteq restarted' /\ restarted' \subseteq restarted \cup {reader[r].proc}
    <3>1. ASSUME NEW p \in restarted', p \notin restarted PROVE p = reader[r].proc
      <4>1. PICK x \in DOMAIN reader : RestartSpawn(x) /\ p = reader[x].proc
        BY <3>1, RestartsByStep
      <4>2. x = r  BY <1>1, <4>1, RestartSpawned
      <4> QED  BY <4>1, <4>2
    <3> QED  BY <3>1, Remembered
  <2>4. ASSUME NEW p, Unplaced(p) PROVE Unplaced(p)'
    BY <1>1, <2>1, <2>2, <2>3, <2>4 DEF Unplaced
  <2>n. /\ n \notin restarted /\ n \notin Started /\ (\A t \in Sessions : process[t] # n)
        /\ \A x \in Looking : reader[x].proc # n
        /\ \A x \in Installing : reader[x].new # n
        /\ \A c \in Newcomers : client[c].new # n
    BY <2>0, NewestUnplaced
  <2>5. Unplaced(n)'
    BY <2>1, <2>2, <2>3, <2>n DEF Unplaced
  <2>6. NewApart'
    <3>1. \A x \in Installing' : x = r \/ (x \in Installing /\ reader'[x] = reader[x])
      BY <2>2
    <3> QED  BY <1>1, <1>2, <2>1, <2>4, <2>5, <2>n, <3>1 DEF NewApart
  <2>7. OldApart'  BY <1>1, <2>1, <2>2 DEF OldApart
  <2>8. ReplacedGone'
    <3>1. ASSUME NEW t \in Sessions, process[t] \in restarted'
          PROVE  \E x \in Installing' : reader'[x].sess = t /\ reader'[x].proc = process[t]
      <4>1. CASE process[t] = reader[r].proc
        <5>1. t = s  BY <2>2, <4>1 DEF OldApart, s
        <5> QED  BY <1>1, <2>1, <2>2, <4>1, <5>1
      <4>2. CASE process[t] \in restarted
        BY <2>2, <4>2 DEF ReplacedGone
      <4> QED  BY <2>3, <3>1, <4>1, <4>2
    <3>2. ASSUME NEW x \in DOMAIN reader, reader'[x].pc = "spawn"
          PROVE  reader'[x].proc \notin restarted'
      <4>1. x # r /\ reader'[x] = reader[x] /\ x \in Looking
        BY <1>1, <2>1, <3>2 DEF Looking
      <4>2. reader[x].proc # reader[r].proc
        <5>1. SUFFICES ASSUME reader[x].sess = reader[r].sess PROVE FALSE
          BY <2>2, <4>1 DEF OldApart
        <5> QED  BY <2>1, <3>2, <4>1, <5>1 DEF RestartsHold, Restarting
      <4> QED  BY <2>3, <3>2, <4>1, <4>2 DEF ReplacedGone
    <3> QED  BY <1>1, <2>1, <3>1, <3>2 DEF ReplacedGone
  <2> QED  BY <2>6, <2>7, <2>8
<1>5. CASE ~RestartSpawn(r)
  <2>1. restarted' = restarted /\ Started' = Started /\ reader'[r].pc # "install"
    <3>1. ASSUME NEW p \in restarted', p \notin restarted PROVE FALSE
      <4>1. PICK x \in DOMAIN reader : RestartSpawn(x)  BY <3>1, RestartsByStep
      <4>2. x = r  BY <1>1, <4>1, RestartSpawned
      <4> QED  BY <1>5, <4>1, <4>2
    <3> QED  BY <1>5, <3>1, Remembered, ReaderMoves
  <2>2. /\ Installing' = Installing \ {r} /\ Looking' \subseteq Looking \cup {r}
        /\ \A x \in Looking' : x # r => reader'[x] = reader[x]
        /\ \A x \in Installing' : x # r /\ reader'[x] = reader[x]
    BY <1>1, <2>1 DEF Looking, Installing
  <2>3. CASE RestartInstall(r)
    <3> DEFINE n == reader[r].new
    <3>1. /\ r \in Installing /\ reader'[r].pc = "top"
          /\ process'[s] = n /\ \A t \in Sessions : t # s => process'[t] = process[t]
      BY <1>0, <2>3, RestartInstalled DEF Installing, s
    <3> HIDE DEF n
    <3>2. Looking' \subseteq Looking \ {r}  BY <2>2, <3>1 DEF Looking
    <3>3. /\ Unplaced(n) /\ (\A c \in Newcomers : client[c].new # n)
          /\ \A x \in Installing : reader[x].new = n => x = r
      BY <3>1 DEF NewApart, n
    <3>4. ASSUME NEW p, Unplaced(p), p # n PROVE Unplaced(p)'
      BY <2>1, <2>2, <3>1, <3>2, <3>4 DEF Unplaced
    <3>5. NewApart'  BY <1>1, <1>2, <2>2, <3>3, <3>4 DEF NewApart
    <3>6. OldApart'  BY <2>1, <2>2, <3>1, <3>2, <3>3 DEF OldApart, Unplaced
    <3>7. ReplacedGone'
      <4>1. ASSUME NEW t \in Sessions, process'[t] \in restarted
            PROVE  \E x \in Installing' : reader'[x].sess = t /\ reader'[x].proc = process'[t]
        <5>1. t # s /\ process'[t] = process[t]  BY <3>1, <3>3, <4>1 DEF Unplaced
        <5>2. PICK x \in Installing : reader[x].sess = t /\ reader[x].proc = process[t]
          BY <4>1, <5>1 DEF ReplacedGone
        <5> QED  BY <2>2, <5>1, <5>2 DEF s
      <4>2. ASSUME NEW x \in DOMAIN reader, reader'[x].pc = "spawn"
            PROVE  reader'[x].proc \notin restarted
        BY <1>1, <3>1, <4>2 DEF ReplacedGone
      <4> QED  BY <1>1, <2>1, <4>1, <4>2 DEF ReplacedGone
    <3> QED  BY <3>5, <3>6, <3>7
  <2>4. CASE ~RestartInstall(r)
    <3>1. UNCHANGED process /\ (reader[r].pc = "install" => FALSE)
      <4>1. reader[r].pc # "install"
        BY <2>4
        DEF ReaderStep, ReaderTop, ReaderData, ReaderEof, ReaderDecide, ReaderFinish, RestartEnter,
            RestartSpawn, RestartFails
      <4> QED  BY <2>4, <4>1, ReaderMoves
    <3>2. Installing' = Installing  BY <2>2, <3>1 DEF Installing
    <3>3. r \in Looking' => \/ /\ s \in registered /\ reader'[r].proc = process[s]
                               /\ reader'[r].pc = "restart"
                            \/ r \in Looking /\ reader'[r].proc = reader[r].proc
      BY <2>1, ReaderMoves DEF Looking, s
    <3>4. ASSUME NEW p, Unplaced(p) PROVE Unplaced(p)'
      BY <1>0, <2>1, <2>2, <3>1, <3>3, <3>4 DEF Unplaced
    <3>5. NewApart'  BY <1>1, <1>2, <2>2, <3>2, <3>4 DEF NewApart
    <3>6. ASSUME NEW x \in Looking'
          PROVE  /\ reader'[x].proc \in Started /\ reader'[x].sess = reader[x].sess
                 /\ \A t \in Sessions : process[t] = reader'[x].proc => t = reader[x].sess
                 /\ \A y \in Looking : reader[y].proc = reader'[x].proc
                                          => reader[y].sess = reader[x].sess
      <4>1. CASE x \in Looking /\ reader'[x].proc = reader[x].proc
        <5>1. reader'[x].sess = reader[x].sess  BY <1>1, <1>3, <4>1 DEF s
        <5> QED  BY <4>1, <5>1 DEF OldApart
      <4>2. CASE x = r /\ s \in registered /\ reader'[r].proc = process[s]
        <5>1. process[s] \in Started /\ process[s] # None
          BY <1>0, <4>2, StartedAreProcs
        <5> QED  BY <1>0, <1>1, <4>2, <5>1 DEF OldApart, s
      <4> QED  BY <2>2, <3>3, <3>6, <4>1, <4>2
    <3>7. ASSUME NEW x \in Looking', NEW y \in Looking', reader'[x].proc = reader'[y].proc
          PROVE  reader'[x].sess = reader'[y].sess
      <4>1. CASE x = y  BY <4>1
      <4>2. CASE x # r /\ y # r
        BY <2>2, <3>6, <3>7, <4>2
      <4>3. CASE x = r /\ y # r
        BY <2>2, <3>6, <3>7, <4>3
      <4>4. CASE x # r /\ y = r
        BY <2>2, <3>6, <3>7, <4>4
      <4> QED  BY <4>1, <4>2, <4>3, <4>4
    <3>8. OldApart'
      <4>1. \A t \in Sessions : process'[t] = process[t]  BY <3>1
      <4> QED  BY <2>1, <3>1, <3>6, <3>7, <4>1 DEF OldApart
    <3>9. ReplacedGone'
      <4>1. ASSUME NEW x \in DOMAIN reader, reader'[x].pc = "spawn"
            PROVE  reader'[x].proc \notin restarted
        <5>1. CASE x # r  BY <1>1, <4>1, <5>1 DEF ReplacedGone
        <5>2. CASE x = r
          <6>1. /\ restart_lock[s] = None /\ process[s] = reader[r].proc
                /\ reader'[r].proc = reader[r].proc
            BY <4>1, <5>2, ReaderMoves DEF s
          <6>2. ASSUME NEW y \in Installing, reader[y].sess = s PROVE FALSE
            <7>1. restart_lock[s] = y  BY <6>2 DEF RestartsHold, Restarting, Installing
            <7>2. y \in Procs  BY <6>2, StartedAreProcs DEF Installing, NamesFresh
            <7> QED  BY <6>1, <7>1, <7>2, StartedAreProcs
          <6> QED  BY <1>0, <5>2, <6>1, <6>2 DEF ReplacedGone
        <5> QED  BY <5>1, <5>2
      <4>2. \A t \in Sessions : process'[t] = process[t]  BY <3>1
      <4> QED  BY <1>1, <2>1, <2>2, <3>2, <4>1, <4>2 DEF ReplacedGone
    <3> QED  BY <3>5, <3>8, <3>9
  <2> QED  BY <2>3, <2>4
<1> QED  BY <1>4, <1>5

LEMMA PlacesStep ==
    ASSUME IInv, [Next]_vars
    PROVE  NewApart' /\ OldApart' /\ ReplacedGone'
<1>1. CASE ProcStep
  <2>1. UNCHANGED <<process, client, reader>> /\ Started' = Started  BY <1>1, ProcFrame
  <2>2. restarted' = restarted
    <3>1. ASSUME NEW p \in restarted', p \notin restarted PROVE FALSE
      <4>1. PICK r \in DOMAIN reader : RestartSpawn(r)  BY <3>1, RestartsByStep
      <4> QED  BY <2>1, <4>1, RestartSpawned DEF IInv
    <3> QED  BY <3>1, Remembered
  <2>3. /\ Newcomers' = Newcomers /\ Installing' = Installing /\ Looking' = Looking
        /\ \A p : Unplaced(p)' <=> Unplaced(p)
    BY <2>1, <2>2 DEF Newcomers, Installing, Looking, Unplaced
  <2> QED  BY <2>1, <2>2, <2>3 DEF IInv, NewApart, OldApart, ReplacedGone
<1> QED
  BY <1>1, PlacesByRequest, PlacesByReader DEF Next, CodeStep, ProcStep, vars

LEMMA IInvHolds == Spec => []IInv
<1>1. Init => IInv  BY InitIInv
<1>2. IInv /\ [Next]_vars => IInv'
  <2> SUFFICES ASSUME IInv, [Next]_vars PROVE IInv'
    OBVIOUS
  <2>1. TypeOK' /\ ClientsApart' /\ NamesFresh' /\ OneReader' /\ RestartsHold' /\ RestartsMatch'
    BY TypeStep, ClientsApartStep, NamesFreshStep, OneReaderStep, RestartsHoldStep,
       RestartsMatchStep
  <2> QED  BY <2>1, PlacesStep DEF IInv
<1> QED  BY <1>1, <1>2, PTL DEF Spec

-----------------------------------------------------------------------------
(* What no step may do                                                     *)

\* What a step does to a process that had an owner.
LEMMA OrphanStep ==
    ASSUME IInv, [Next]_vars, NEW p \in Orphans', p \notin Orphans
    PROVE  (\E c \in Clients : RetuneLoses(c, p)) \/ \E r \in DOMAIN reader : RestartLoses(r, p)
<1> DEFINE Goal == (\E c \in Clients : RetuneLoses(c, p))
                      \/ \E r \in DOMAIN reader : RestartLoses(r, p)
<1> USE DEF IInv
<1>0. /\ client \in [Clients -> Client] /\ reader \in [DOMAIN reader -> Reader]
      /\ process \in [Sessions -> Procs \cup {None}]
      /\ registered \subseteq Sessions /\ used \subseteq Sessions
  BY Types DEF ClientType, ReaderType, SessionType
<1>1. p \in Started' /\ Running(p)' /\ ~Owned(p)'  BY DEF Orphans
<1>2. p \in Started => Running(p) /\ Owned(p)  BY <1>1, DeadStayDead DEF Orphans, Running
<1>3. ASSUME NEW c \in Clients, NEW s \in Sessions, StartSpawn(c, s) PROVE FALSE
  <2>1. /\ UNCHANGED <<registered, process, reader>> /\ client[c].pc = "idle"
        /\ client'[c].pc = "register" /\ client'[c].new = Newest
        /\ \A d \in Clients : d # c => client'[d] = client[d]
    BY <1>0, <1>3 DEF StartSpawn, Idle
  <2>2. Started' = Started \cup {Newest}  BY <1>3, SpawnedTyped DEF StartSpawn, Started
  <2> QED  BY <1>1, <1>2, <2>1, <2>2 DEF Owned
<1>4. ASSUME NEW c \in Clients, NEW s \in Sessions, StopPop(c, s) PROVE FALSE
  <2>1. /\ UNCHANGED <<process, reader, proc>> /\ client[c].pc = "idle"
        /\ registered' = registered \ {s} /\ client'[c].pc = "stopjoin" /\ client'[c].sess = s
        /\ \A d \in Clients : d # c => client'[d] = client[d]
    BY <1>0, <1>4 DEF StopPop, Idle
  <2> QED  BY <1>1, <1>2, <2>1 DEF Owned, Started
<1>5. ASSUME NEW c \in Clients, NEW s \in Sessions, RetuneBegin(c, s) PROVE FALSE
  <2>1. /\ UNCHANGED <<registered, process, reader, proc>> /\ client[c].pc = "idle"
        /\ \A d \in Clients : d # c => client'[d] = client[d]
    BY <1>0, <1>5 DEF RetuneBegin
  <2> QED  BY <1>1, <1>2, <2>1 DEF Owned, Started
<1>6. ASSUME NEW c \in Clients, ClientStep(c) PROVE Goal
  <2> DEFINE s == client[c].sess
  <2>1. \A d \in Clients : d # c => client'[d] = client[d]
    BY <1>0, <1>6
    DEF ClientStep, StartRegister, StartReader, StopKill, RetuneLive, RetuneCold, RetuneKill,
        RetuneSpawn, RetuneFails, RetuneInstall, Goto, Return
  <2>2. CASE StartRegister(c)
    <3>1. /\ client[c].pc = "register" /\ s \in Sessions /\ s \notin registered
          /\ \A d \in Clients : d # c => client[d].sess # s
      BY <1>0, <2>2 DEF StartRegister, ClientsApart
    <3>2. /\ UNCHANGED <<proc, reader>> /\ s \in registered' /\ registered \subseteq registered'
          /\ process'[s] = client[c].new
          /\ \A t \in Sessions : t # s => process'[t] = process[t]
      BY <1>0, <2>2, <3>1 DEF StartRegister
    <3>3. \A d \in Clients : d # c /\ client[d].pc = "stopjoin"
                                => process'[client[d].sess] = process[client[d].sess]
      BY <1>0, <3>1, <3>2 DEF ClientsApart
    <3> QED  BY <1>0, <1>1, <1>2, <2>1, <3>1, <3>2, <3>3 DEF Owned, Started
  <2>3. CASE StartReader(c)
    <3>1. /\ UNCHANGED <<registered, process, proc>> /\ client[c].pc = "startreader"
          /\ client[c].new \notin DOMAIN reader
      BY <2>3 DEF StartReader, NamesFresh, Starting
    <3>2. \A r \in DOMAIN reader : r \in DOMAIN reader' /\ reader'[r] = reader[r]
      BY <2>3, <3>1 DEF StartReader
    <3> QED  BY <1>1, <1>2, <2>1, <3>1, <3>2 DEF Owned, Started
  <2>4. CASE StopKill(c)
    <3>1. /\ UNCHANGED <<registered, process, reader>> /\ client[c].pc = "stopjoin"
          /\ proc' = Killed(process[s])
      BY <2>4 DEF StopKill
    <3>2. Started' = Started /\ p # process[s]  BY <1>1, <3>1 DEF Killed, Started, Running
    <3> QED  BY <1>1, <1>2, <2>1, <3>1, <3>2 DEF Owned
  <2>5. CASE RetuneKill(c)
    <3>1. /\ UNCHANGED <<registered, process, reader>> /\ client[c].pc = "rejoin"
          /\ proc' = Killed(client[c].old)
      BY <2>5 DEF RetuneKill, session
    <3>2. Started' = Started /\ p # client[c].old  BY <1>1, <3>1 DEF Killed, Started, Running
    <3> QED  BY <1>1, <1>2, <2>1, <3>1, <3>2 DEF Owned
  <2>6. CASE RetuneSpawn(c)
    <3>1. /\ UNCHANGED <<registered, process, reader>> /\ client[c].pc = "respawn"
          /\ client'[c].pc = "reinstall" /\ client'[c].new = Newest
      BY <1>0, <2>6 DEF RetuneSpawn, session, Client
    <3>2. Started' = Started \cup {Newest}  BY <2>6, SpawnedTyped DEF RetuneSpawn, Started
    <3> QED  BY <1>1, <1>2, <2>1, <3>1, <3>2 DEF Owned
  <2>7. CASE RetuneInstall(c)
    <3>1. /\ UNCHANGED <<registered, reader, proc>> /\ client[c].pc = "reinstall"
          /\ client'[c].pc = "startreader" /\ process' = [process EXCEPT ![s] = client[c].new]
      BY <1>0, <2>7 DEF RetuneInstall, Goto, Client
    <3>2. \A d \in Clients : client[d].pc # "idle" => client[d].sess \in Sessions
      BY <1>0 DEF ClientsApart
    <3>3. CASE p = process[s]  BY <3>1, <3>3 DEF RetuneLoses
    <3>4. CASE p = client[c].new /\ s \notin registered  BY <3>1, <3>4 DEF RetuneLoses
    <3>5. CASE p = client[c].new /\ s \in registered
      <4>1. process'[s] = p  BY <1>0, <3>1, <3>2, <3>5
      <4> QED  BY <1>1, <3>1, <3>5, <4>1 DEF Owned
    <3>6. CASE p # process[s] /\ p # client[c].new
      <4>1. \A t \in Sessions : process[t] = p => process'[t] = p
        BY <1>0, <3>1, <3>6
      <4> QED  BY <1>0, <1>1, <1>2, <2>1, <3>1, <3>2, <3>6, <4>1 DEF Owned, Started
    <3> QED  BY <3>3, <3>4, <3>5, <3>6
  <2>8. CASE RetuneLive(c) \/ RetuneCold(c) \/ RetuneFails(c)
    <3>1. /\ UNCHANGED <<registered, process, reader, proc>>
          /\ client[c].pc \in {"tune", "respawn"}
      BY <2>8 DEF RetuneLive, RetuneCold, RetuneFails
    <3> QED  BY <1>1, <1>2, <2>1, <3>1 DEF Owned, Started
  <2> QED
    BY <1>6, <2>2, <2>3, <2>4, <2>5, <2>6, <2>7, <2>8 DEF ClientStep
<1>7. ASSUME NEW r \in DOMAIN reader, ReaderStep(r) PROVE Goal
  <2>1. /\ UNCHANGED <<registered, client>> /\ DOMAIN reader' = DOMAIN reader
        /\ \A x \in DOMAIN reader : x # r => reader'[x] = reader[x]
    BY <1>7, ReaderFrame
  <2>2. CASE RestartInstall(r)
    <3> DEFINE s == reader[r].sess
    <3>1. /\ reader[r].pc = "install" /\ proc' = proc /\ process'[s] = reader[r].new
          /\ \A t \in Sessions : t # s => process'[t] = process[t]
      BY <1>0, <2>2 DEF RestartInstall, Reader
    <3>2. CASE ~Uncrossed(r) /\ p = process[s]
      BY <2>2, <3>2, RestartInstalled DEF RestartLoses, Uncrossed
    <3>3. CASE ~Uncrossed(r) /\ p = reader[r].new /\ s \notin registered
      BY <2>2, <3>3, RestartInstalled DEF RestartLoses, Uncrossed
    <3>4. CASE p = reader[r].new /\ s \in registered
      BY <1>1, <2>1, <3>1, <3>4 DEF Owned
    <3>5. CASE p # reader[r].new /\ p # process[s]
      <4>1. \A c \in Clients : client[c].pc = "stopjoin" => client[c].sess \in Sessions
        BY <1>0 DEF ClientsApart
      <4>2. p \in Started  BY <1>1, <3>1 DEF Started
      <4>3. Owned(p) => Owned(p)'
        BY <1>0, <2>1, <3>1, <3>5, <4>1 DEF Owned
      <4> QED  BY <1>1, <1>2, <4>2, <4>3
    <3>6. CASE Uncrossed(r)
      <4>1. /\ process[s] = reader[r].proc /\ proc[reader[r].proc] = "dead"
            /\ s \in registered \/ \E c \in Clients : client[c].pc = "stopjoin" /\ client[c].sess = s
        BY <3>1, <3>6 DEF RestartsMatch, RestartsHold, Restarting
      <4>2. p # process[s]
        BY <1>1, <3>1, <4>1 DEF Running, Started
      <4>3. p = reader[r].new => s \notin registered /\ FALSE
        BY <1>1, <2>1, <3>1, <4>1 DEF Owned
      <4> QED  BY <3>5, <4>2, <4>3
    <3> QED  BY <3>2, <3>3, <3>4, <3>5, <3>6
  <2>3. CASE RestartSpawn(r)
    <3>1. /\ process' = process /\ reader[r].pc = "spawn" /\ reader'[r].pc = "install"
          /\ reader'[r].new = Newest /\ Started' = Started \cup {Newest}
      BY <2>3, RestartSpawned DEF session
    <3> QED  BY <1>1, <1>2, <2>1, <3>1 DEF Owned
  <2>4. CASE ~RestartInstall(r) /\ ~RestartSpawn(r)
    <3>1. process' = process /\ Started' = Started /\ reader[r].pc # "install"
      BY <1>7, <2>4
      DEF ReaderStep, ReaderTop, ReaderData, ReaderEof, ReaderDecide, ReaderFinish,
          RestartEnter, RestartFails, Killed, Started, session
    <3> QED  BY <1>1, <1>2, <2>1, <3>1 DEF Owned
  <2> QED  BY <2>2, <2>3, <2>4
<1>8. CASE ProcStep
  <2>1. UNCHANGED <<registered, process, reader, client>> /\ Started' = Started
    BY <1>8, ProcFrame
  <2> QED  BY <1>1, <1>2, <2>1 DEF Owned
<1> QED  BY <1>3, <1>4, <1>5, <1>6, <1>7, <1>8 DEF Next, CodeStep, ClientRequest, ProcStep, vars

\* What a step does to a session that was read, not "running" or in a request.
LEMMA UnreadStep ==
    ASSUME IInv, [Next]_vars, NEW s \in Unread', s \notin Unread
    PROVE  \E c \in Clients :
              client[c].pc = "tune" /\ client[c].sess = s /\ client'[c].pc = "idle"
<1> DEFINE Goal == \E c \in Clients :
                      client[c].pc = "tune" /\ client[c].sess = s /\ client'[c].pc = "idle"
<1> USE DEF IInv
<1>0. /\ client \in [Clients -> Client] /\ reader \in [DOMAIN reader -> Reader]
      /\ status \in [Sessions -> {"running", "retuning", "stopped"}]
      /\ stop_reader \in [Sessions -> BOOLEAN]
      /\ registered \subseteq Sessions /\ used \subseteq Sessions /\ None \notin Sessions
  BY Types, ConstantsAssumption DEF ClientType, ReaderType, SessionType
<1>1. /\ s \in registered' /\ s \in Sessions
      /\ status'[s] = "running" /\ ~Watched(s)' /\ \A c \in Clients : client'[c].sess # s
  BY SessionTypeStep DEF Unread, SessionType
<1>2. s \in registered /\ status[s] = "running"
         => Watched(s) \/ \E c \in Clients : client[c].sess = s
  BY DEF Unread
<1>3. ASSUME NEW c \in Clients, ClientRequest(c) PROVE FALSE
  <2>1. UNCHANGED reader /\ registered' \subseteq registered /\ client[c].pc = "idle"
    BY <1>3 DEF ClientRequest, StartSpawn, StopPop, RetuneBegin
  <2>2. /\ \A d \in Clients : d # c => client'[d] = client[d]
        /\ status'[s] = status[s] \/ client'[c].sess = s
    BY <1>0, <1>1, <1>3 DEF ClientRequest, StartSpawn, StopPop, RetuneBegin, Idle
  <2>3. client[c].sess # s  BY <1>0, <1>1, <2>1 DEF ClientsApart
  <2>4. stop_reader'[s] = stop_reader[s]
    BY <1>0, <1>1, <1>3 DEF ClientRequest, StartSpawn, StopPop, StopReader, RetuneBegin
  <2> QED  BY <1>1, <1>2, <2>1, <2>2, <2>3, <2>4 DEF Watched, HasReader
<1>4. ASSUME NEW c \in Clients, ClientStep(c) PROVE Goal
  <2>1. \A d \in Clients : d # c => client'[d] = client[d]
    BY <1>0, <1>4
    DEF ClientStep, StartRegister, StartReader, StopKill, RetuneLive, RetuneCold, RetuneKill,
        RetuneSpawn, RetuneFails, RetuneInstall, Goto, Return
  <2>2. CASE client[c].sess # s
    <3>1. /\ registered' \subseteq registered \cup {client[c].sess}
          /\ status'[s] = status[s] /\ stop_reader'[s] = stop_reader[s]
      BY <1>0, <1>1, <1>4, <2>2
      DEF ClientStep, StartRegister, StartReader, StopKill, RetuneLive, RetuneCold, RetuneKill,
          RetuneSpawn, RetuneFails, RetuneInstall, StopReader, session
    <3>2. \A r \in DOMAIN reader : r \in DOMAIN reader' /\ reader'[r] = reader[r]
      <4>1. CASE StartReader(c)
        BY <4>1 DEF StartReader, NamesFresh, Starting
      <4>2. CASE ~StartReader(c)
        BY <1>4, <4>2
        DEF ClientStep, StartRegister, StopKill, RetuneLive, RetuneCold, RetuneKill,
            RetuneSpawn, RetuneFails, RetuneInstall
      <4> QED  BY <4>1, <4>2
    <3> QED  BY <1>1, <1>2, <2>1, <2>2, <3>1, <3>2 DEF Watched, HasReader
  <2>3. CASE client[c].sess = s
    <3>1. CASE StartReader(c)
      <4>1. /\ client[c].new \in DOMAIN reader' /\ reader'[client[c].new].sess = s
            /\ reader'[client[c].new].pc = "top" /\ ~stop_reader'[s]
        BY <1>0, <1>1, <2>3, <3>1 DEF StartReader
      <4> QED  BY <1>1, <4>1 DEF Watched, HasReader
    <3>2. CASE StopKill(c)
      BY <1>1, <2>3, <3>2 DEF StopKill, ClientsApart
    <3>3. CASE RetuneFails(c)
      <4>1. s \in Sessions  BY <1>0, <2>3, <3>3 DEF RetuneFails, ClientsApart
      <4> QED  BY <1>0, <1>1, <2>3, <3>3, <4>1 DEF RetuneFails
    <3>4. CASE RetuneLive(c)
      BY <1>0, <2>3, <3>4 DEF RetuneLive, Return, Idle
    <3>5. CASE StartRegister(c) \/ RetuneCold(c) \/ RetuneKill(c) \/ RetuneSpawn(c)
                 \/ RetuneInstall(c)
      <4>1. CASE RetuneKill(c)  BY <1>0, <1>1, <2>3, <4>1 DEF RetuneKill, Idle
      <4>2. ASSUME ~RetuneKill(c) PROVE client'[c].sess = s
        BY <1>0, <2>3, <3>5, <4>2
        DEF StartRegister, RetuneCold, RetuneSpawn, RetuneInstall, Goto, Client
      <4> QED  BY <1>1, <4>1, <4>2
    <3> QED  BY <1>4, <3>1, <3>2, <3>3, <3>4, <3>5 DEF ClientStep
  <2> QED  BY <2>2, <2>3
<1>5. ASSUME NEW r \in DOMAIN reader, ReaderStep(r) PROVE FALSE
  <2>1. /\ UNCHANGED <<registered, stop_reader, client>> /\ DOMAIN reader' = DOMAIN reader
        /\ \A x \in DOMAIN reader : x # r => reader'[x] = reader[x]
        /\ reader[r].pc # "done" /\ reader'[r].sess = reader[r].sess
    BY <1>5, ReaderFrame
  <2>2. CASE ReaderFinish(r)
    <3>1. status[s] = "running" /\ (reader[r].sess = s => MustEnd(s))
      BY <1>0, <1>1, <2>1, <2>2 DEF ReaderFinish
    <3>2. Watched(s)  BY <1>1, <1>2, <2>1, <3>1
    <3>3. reader[r].sess = s  BY <1>1, <2>1, <3>2 DEF Watched, HasReader
    <3>4. stop_reader[s]  BY <1>1, <2>1, <3>1, <3>3 DEF MustEnd
    <3> QED  BY <3>2, <3>4 DEF Watched
  <2>3. CASE ~ReaderFinish(r)
    <3>1. status' = status
      BY <1>5, <2>3
      DEF ReaderStep, ReaderTop, ReaderData, ReaderEof, ReaderDecide, RestartEnter,
          RestartSpawn, RestartFails, RestartInstall, session
    <3>2. reader'[r].pc # "done"
      <4>1. AfterEof(r) \in {"finish", "top", "restart"}  BY DEF AfterEof
      <4>2. ASSUME NEW pc, NEW q, NEW n, ReaderAt(r, pc, q, n) PROVE reader'[r].pc = pc
        BY <1>0, <4>2 DEF ReaderAt
      <4>3. \E pc \in ReaderPcs \ {"done"} : \E q, n : ReaderAt(r, pc, q, n)
        BY <1>5, <2>3, <4>1
        DEF ReaderStep, ReaderTop, ReaderData, ReaderEof, ReaderDecide, RestartEnter,
            RestartSpawn, RestartFails, RestartInstall, ReaderGoto, ReaderPcs
      <4> QED  BY <4>2, <4>3
    <3> QED  BY <1>1, <1>2, <2>1, <3>1, <3>2 DEF Watched, HasReader
  <2> QED  BY <2>2, <2>3
<1>6. CASE ProcStep
  <2>1. UNCHANGED <<registered, status, stop_reader, reader, client>>  BY <1>6, ProcFrame
  <2> QED  BY <1>1, <1>2, <2>1 DEF Watched, HasReader
<1> QED  BY <1>3, <1>4, <1>5, <1>6 DEF Next, CodeStep, ProcStep, vars

-----------------------------------------------------------------------------
(* Theorems                                                                *)

\* _reader_loop: of the readers of a session at most one is one that no join has
\* given up on, in whatever order starts, stops, retunes, failures and restarts
\* come, unless its retunes overlapped.
THEOREM ReadersAlone == Spec => []Safe
<1>1. IInv => Safe
  BY DEF IInv, OneReader, ReadersAreThreads, SingleReader, Safe
<1> QED  BY <1>1, IInvHolds, PTL

\* _restart_stream: no process is replaced by two restarts, though readers that a
\* join gave up on live beside new ones and a restart starts the new process
\* without a lock that start, stop or retune would take.
THEOREM RestartsOnce == Spec => RestartedOnce
<1> DEFINE A == \A r \in DOMAIN reader, p \in Started : Restarts(r, p) => p \notin restarted
<1>1. IInv => [A]_vars  BY DEF IInv, ReplacedGone, Restarts
<1> QED  BY <1>1, IInvHolds, PTL DEF RestartedOnce

\* Only what retune and _restart_stream write over, and after joins that gave up or
\* crossing retunes alone in the second case, leaves a running process that nobody
\* will stop; and only a retune that told a process whose reader has ended or must
\* end leaves a session "running" and unread.  No other interleaving neglects anything.
THEOREM OnlyInstallsNeglect == Spec => NeglectOnlyByInstall
<1> DEFINE A == /\ \A p \in Orphans' \ Orphans :
                      \/ \E c \in Clients : RetuneLoses(c, p)
                      \/ \E r \in DOMAIN reader : RestartLoses(r, p)
                /\ \A s \in Unread' \ Unread : \E c \in Clients :
                     client[c].pc = "tune" /\ client[c].sess = s /\ client'[c].pc = "idle"
<1>1. IInv /\ [Next]_vars => [A]_vars
  <2> SUFFICES ASSUME IInv, [Next]_vars PROVE A
    OBVIOUS
  <2> QED  BY OrphanStep, UnreadStep
<1> QED  BY <1>1, IInvHolds, PTL DEF Spec, NeglectOnlyByInstall
=============================================================================
