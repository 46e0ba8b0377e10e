------------------------- MODULE WiFiMonitor_proofs -------------------------
(***************************************************************************)
(* The captures of the WiFi sessions, for every set of sessions, clients   *)
(* and captures: the types are kept, and nothing but the two places that   *)
(* start a capture without looking again loses one or disturbs a scan.     *)
(***************************************************************************)
EXTENDS WiFiMonitor, FiniteSetTheorems, TLAPS

-----------------------------------------------------------------------------
(* The inductive invariant: what holds of the sessions, and what holds of  *)
(* each thread                                                             *)

ThreadRecord ==
    [pc : Pcs, sess : Sessions \cup {None}, start : Sessions \cup {None},
     proc : Procs \cup {None}, todo : SUBSET Sessions, size : Nat]

\* The type of everything but the threads; the ids in use are counted.
Types ==
    /\ listed \subseteq used /\ used \subseteq Sessions /\ IsFiniteSet(used)
    /\ process \in [Sessions -> Procs \cup {None}]
    /\ status \in [Sessions -> {"running", "failed", "stopped"}]
    /\ stopping \in [Sessions -> BOOLEAN]
    /\ mode \in {"monitor", "managed"}
    /\ \E n \in 0 .. MaxProcs : proc \in [1 .. n -> {"live", "dead"}]
    /\ scanner \in [Sessions -> {"none", "waiting", "taken", "finally", "resume", "done"}]

\* A session's capture is one that was started.
CapturesStarted == \A s \in Sessions : process[s] \in Started \cup {None}

\* What works for a session finds it listed, or told to stop.
Live(s) == s \in listed \/ stopping[s]
ScansLive == \A s \in Sessions : scanner[s] # "none" => Live(s)

\* Requests stop and start, and a start knows the session it is for.
Starting == {"replace", "register", "capture", "threads"}
RequestsStart(t) ==
    /\ thread[t].pc \in Starting \cup {"kill"} => t \in Clients
    /\ thread[t].start \in used \cup {None}
    /\ thread[t].pc \in Starting => thread[t].start # None
    /\ thread[t].pc \in {"capture", "threads"} => Live(thread[t].start)

\* A capture that is looked at was started, and one that is restarted by its
\* collector is over.
LooksAtStarted(t) ==
    /\ thread[t].pc \in {"reading", "polled", "eof"} => thread[t].proc \in Started
    /\ thread[t].pc = "eof" => proc[thread[t].proc] = "dead"

\* A collector works for a live session, and one whose capture is still its
\* session's finds the session in somebody's hands: whoever lets go of it takes
\* its capture first.
CollectsHeld(t) ==
    t \in Sessions =>
        /\ thread[t].pc # "idle" => Live(t)
        /\ thread[t].pc \in {"reading", "eof"} /\ process[t] = thread[t].proc => Held(t)

ThreadInv(t) ==
    thread[t] \in ThreadRecord /\ RequestsStart(t) /\ LooksAtStarted(t) /\ CollectsHeld(t)

World == Types /\ CapturesStarted /\ ScansLive
IInv ==
    /\ World
    /\ thread = [t \in Threads |-> thread[t]]
    /\ \A t \in Threads : ThreadInv(t)

LEMMA TypesKept == IInv => TypeOK
<1> SUFFICES ASSUME IInv PROVE TypeOK
  OBVIOUS
<1>1. thread \in [Threads -> ThreadRecord]
  BY DEF IInv, ThreadInv
<1>2. \A t \in Threads : thread[t].pc \in {"reading", "polled"} => thread[t].proc \in Started
  BY DEF IInv, ThreadInv, LooksAtStarted
<1> QED
  BY <1>1, <1>2 DEF IInv, World, Types, ThreadRecord, TypeOK

-----------------------------------------------------------------------------
(* What steps do to the parts                                              *)

\* The captures are numbered without gaps.
LEMMA Numbered ==
    ASSUME Types
    PROVE  /\ \E n \in 0 .. MaxProcs : Started = 1 .. n /\ Newest = n + 1
           /\ Newest \notin Started /\ Started \subseteq Procs /\ None \notin Started \cup {Newest}
<1>1. PICK n \in 0 .. MaxProcs : proc \in [1 .. n -> {"live", "dead"}]
  BY DEF Types
<1>2. Started = 1 .. n
  BY <1>1 DEF Started
<1>3. Cardinality(1 .. n) = n
  BY <1>1, FS_Interval, WiFiAssumption DEF WiFiAssumption
<1>4. Newest = n + 1
  BY <1>2, <1>3 DEF Newest
<1> QED
  BY <1>2, <1>4, WiFiAssumption DEF WiFiAssumption, Procs

\* A new capture is live, and leaves the others as they are.
LEMMA Spawned ==
    ASSUME Types, Spawn
    PROVE  /\ Newest \in Procs /\ Started' = Started \cup {Newest}
           /\ \E n \in 0 .. MaxProcs : proc' \in [1 .. n -> {"live", "dead"}]
           /\ proc'[Newest] = "live"
           /\ \A p \in Started : proc'[p] = proc[p]
<1>1. PICK n \in 0 .. MaxProcs : Started = 1 .. n /\ Newest = n + 1
  BY Numbered
<1>2. Newest \in Procs /\ Started' = Started \cup {Newest}
  BY DEF Spawn, Started
<1>3. \A p \in Started : proc[p] \in {"live", "dead"}
  BY DEF Types, Started
<1>4. n + 1 \in 0 .. MaxProcs /\ Started \cup {Newest} = 1 .. n + 1
  BY <1>1, <1>2, WiFiAssumption DEF WiFiAssumption, Procs
<1>5. proc' \in [1 .. n + 1 -> {"live", "dead"}]
  BY <1>1, <1>3, <1>4 DEF Spawn
<1>6. proc'[Newest] = "live" /\ \A p \in Started : proc'[p] = proc[p]
  BY Numbered DEF Spawn
<1> QED
  BY <1>2, <1>4, <1>5, <1>6

\* The captures stay the same ones, and none comes back to life.
Wane ==
    /\ Started' = Started
    /\ \E n \in 0 .. MaxProcs : proc' \in [1 .. n -> {"live", "dead"}]
    /\ \A p \in Started : proc'[p] = "live" => proc[p] = "live"

\* A capture taken from its session is over.
LEMMA Taken ==
    ASSUME Types, NEW s, Take(s)
    PROVE  /\ Wane
           /\ process' \in [Sessions -> Procs \cup {None}]
           /\ \A r \in Sessions : process'[r] = IF r = s THEN None ELSE process[r]
           /\ process[s] \in Started => proc'[process[s]] = "dead"
<1>1. PICK n \in 0 .. MaxProcs : proc \in [1 .. n -> {"live", "dead"}]
  BY DEF Types
<1>2. Started = 1 .. n /\ proc' \in [1 .. n -> {"live", "dead"}]
  BY <1>1 DEF Take, Started
<1>3. \A p \in Started : proc'[p] = IF p = process[s] THEN "dead" ELSE proc[p]
  BY DEF Take
<1>4. process' \in [Sessions -> Procs \cup {None}] /\ \A r \in Sessions : process'[r] = IF r = s THEN None ELSE process[r]
  BY DEF Types, Take
<1> QED
  BY <1>2, <1>3, <1>4 DEF Wane, Started

\* A session with a new capture.
LEMMA Installed ==
    ASSUME Types, NEW s, Install(s)
    PROVE  /\ process' \in [Sessions -> Procs \cup {None}]
           /\ \A r \in Sessions : process'[r] = IF r = s THEN Newest ELSE process[r]
  BY Spawned DEF Types, Install

-----------------------------------------------------------------------------
(* A thread that a step leaves alone keeps its invariant, if the step does *)
(* to the rest only this: ids and captures stay known, what is over stays  *)
(* over, live sessions stay live, and a session let go of, or given a new  *)
(* capture, does not have one of the captures started so far.              *)

Forth ==
    /\ used \subseteq used' /\ Started \subseteq Started'
    /\ \A p \in Started : proc[p] = "dead" => proc'[p] = "dead"
    /\ \A s \in Sessions :
          /\ Live(s) => Live(s)'
          /\ process'[s] \in Started => process'[s] = process[s]
          /\ process'[s] \in Started /\ Held(s) => Held(s)'

LEMMA LeftAlone ==
    ASSUME IInv, Types', Forth, NEW t \in Threads, thread'[t] = thread[t]
    PROVE  ThreadInv(t)'
<1>1. thread[t] \in ThreadRecord /\ RequestsStart(t) /\ LooksAtStarted(t) /\ CollectsHeld(t)
  BY DEF IInv, ThreadInv
<1>2. thread[t].start \in Sessions \cup {None}
  BY <1>1 DEF ThreadRecord
<1>3. thread'[t] \in ThreadRecord
  BY <1>1
<1>4. RequestsStart(t)'
  BY <1>1, <1>2 DEF RequestsStart, Forth, Starting
<1>5. LooksAtStarted(t)'
  BY <1>1 DEF LooksAtStarted, Forth
<1>6. CollectsHeld(t)'
  BY <1>1 DEF CollectsHeld, Forth, LooksAtStarted
<1> QED
  BY <1>3, <1>4, <1>5, <1>6 DEF ThreadInv, ThreadRecord

\* So a step keeps the invariant if the threads it changes have theirs.
LEMMA StepKeeps ==
    ASSUME IInv, World', Forth, thread' = [t \in Threads |-> thread'[t]],
           \A t \in Threads : thread'[t] = thread[t] \/ ThreadInv(t)'
    PROVE  IInv' /\ Forth
<1>1. \A t \in Threads : ThreadInv(t)'
  BY LeftAlone DEF World
<1> QED
  BY <1>1 DEF IInv

\* Steps that change nothing but threads that are not about to take a capture.
LEMMA HeldOn ==
    ASSUME IInv, listed \subseteq listed', NEW s, Held(s),
           \A c \in Clients : thread[c].pc = "kill" => thread'[c] = thread[c]
    PROVE  Held(s)'
  BY DEF Held

LEMMA OnlyThreads ==
    ASSUME IInv, UNCHANGED <<listed, used, process, stopping, proc, scanner>>,
           status' \in [Sessions -> {"running", "failed", "stopped"}],
           mode' \in {"monitor", "managed"},
           \A c \in Clients : thread[c].pc = "kill" => thread'[c] = thread[c]
    PROVE  World' /\ Forth
<1>1. World'
  BY DEF IInv, World, Types, CapturesStarted, ScansLive, Live, Started
<1>2. \A s \in Sessions : Held(s) => Held(s)'
  BY HeldOn
<1>3. Forth
  BY <1>2 DEF Forth, Live, Started
<1> QED
  BY <1>1, <1>3

-----------------------------------------------------------------------------
(* Requests that only look                                                 *)

LEMMA Constants ==
    Clients \subseteq Threads /\ Sessions \subseteq Threads /\ None \notin Threads \cap Sessions
    /\ None \notin Sessions /\ None \notin Int /\ Clients \cap Sessions = {}
  BY WiFiAssumption DEF WiFiAssumption, Threads

\* A thread that is idle, done or about to go through the sessions.
LEMMA PlainRecords ==
    ASSUME IInv, NEW t
    PROVE  /\ Idle \in ThreadRecord /\ [Idle EXCEPT !.pc = "done"] \in ThreadRecord
           /\ Refreshing(t) \in ThreadRecord
           /\ Idle.pc = "idle" /\ Idle.start = None
           /\ Refreshing(t).pc = "refresh" /\ Refreshing(t).start = None
<1>1. Cardinality(listed) \in Nat /\ listed \in SUBSET Sessions
  BY FS_Subset, FS_CardinalityType DEF IInv, World, Types
<1> QED
  BY <1>1 DEF ThreadRecord, Idle, Refreshing, Pcs

\* A step that gives one thread a new record keeps the invariant if the record
\* has what ThreadInv asks of it and the rest of the state goes on as above.
LEMMA OneThread ==
    ASSUME IInv, World', Forth, NEW t \in Threads, NEW r,
           thread' = [thread EXCEPT ![t] = r], ThreadInv(t)'
    PROVE  IInv' /\ Forth
<1>1. thread' = [u \in Threads |-> IF u = t THEN r ELSE thread[u]]
  BY DEF IInv
<1>2. thread' = [u \in Threads |-> thread'[u]]
  BY <1>1
<1>3. \A u \in Threads : thread'[u] = thread[u] \/ ThreadInv(u)'
  BY <1>1
<1> QED
  BY <1>2, <1>3, StepKeeps

LEMMA ListKeeps ==
    ASSUME IInv, NEW c \in Clients, List(c)
    PROVE  IInv' /\ Forth
<1>1. thread' = [thread EXCEPT ![c] = Refreshing(c)] /\ c \in Threads /\ thread[c].pc = "idle"
  BY Constants DEF List
<1>2. thread'[c] = Refreshing(c) /\ \A d \in Clients : d # c => thread'[d] = thread[d]
  BY <1>1 DEF IInv
<1>3. World' /\ Forth
  BY <1>1, <1>2, OnlyThreads DEF List, sessions, IInv, World, Types
<1>4. ThreadInv(c)'
  BY <1>1, <1>2, <1>3, PlainRecords, Constants
  DEF ThreadInv, RequestsStart, LooksAtStarted, CollectsHeld, Starting
<1> QED
  BY <1>1, <1>3, <1>4, OneThread

LEMMA FinishKeeps ==
    ASSUME IInv, NEW t \in Threads, Finish(t), thread[t].pc \notin {"idle", "kill"},
           UNCHANGED <<sessions, mode, proc, scanner>>
    PROVE  IInv' /\ Forth
<1> DEFINE r == IF t \in Clients THEN Idle ELSE [Idle EXCEPT !.pc = "done"]
<1>1. thread' = [thread EXCEPT ![t] = r]
  BY DEF Finish
<1>2. r \in ThreadRecord /\ r.pc \in {"idle", "done"} /\ r.start = None
  BY PlainRecords DEF Idle
<1>3. thread'[t] = r /\ \A d \in Clients : d # t => thread'[d] = thread[d]
  BY <1>1, Constants DEF IInv
<1> HIDE DEF r
<1>4. World' /\ Forth
  BY <1>3, OnlyThreads DEF sessions, IInv, World, Types
<1>5. t \in Sessions => Live(t)
  BY DEF IInv, ThreadInv, CollectsHeld
<1>6. ThreadInv(t)'
  BY <1>2, <1>3, <1>4, <1>5 DEF ThreadInv, RequestsStart, LooksAtStarted, CollectsHeld, Starting, Forth
<1> QED
  BY <1>1, <1>4, <1>6, OneThread

\* A thread at another place of its program, with the rest of its record.
LEMMA GoesTo ==
    ASSUME IInv, NEW t \in Threads, NEW pc \in Pcs, Goto(t, pc)
    PROVE  LET r == [thread[t] EXCEPT !.pc = pc] IN
           /\ thread' = [thread EXCEPT ![t] = r] /\ thread'[t] = r /\ r \in ThreadRecord
           /\ r.pc = pc /\ r.start = thread[t].start /\ r.proc = thread[t].proc
           /\ \A d \in Threads : d # t => thread'[d] = thread[d]
<1>1. thread[t] \in ThreadRecord
  BY DEF IInv, ThreadInv
<1> QED
  BY <1>1 DEF Goto, IInv, ThreadRecord

LEMMA PrepareMonitorKeeps ==
    ASSUME IInv, NEW t \in Threads, PrepareMonitor(t)
    PROVE  IInv' /\ Forth
<1> DEFINE r == [thread[t] EXCEPT !.pc = "register"]
<1>1. thread' = [thread EXCEPT ![t] = r] /\ thread'[t] = r /\ r \in ThreadRecord /\ r.pc = "register"
      /\ r.start = thread[t].start /\ \A d \in Threads : d # t => thread'[d] = thread[d]
  BY ZenonT(30), GoesTo DEF PrepareMonitor, Pcs
<1> HIDE DEF r
<1>2. World' /\ Forth
  BY <1>1, OnlyThreads, Constants DEF PrepareMonitor, sessions, IInv, World, Types
<1>3. ThreadInv(t)'
  BY <1>1, <1>2, Constants
  DEF PrepareMonitor, sessions, IInv, ThreadInv, RequestsStart, LooksAtStarted, CollectsHeld, Starting
<1> QED
  BY <1>1, <1>2, <1>3, OneThread

LEMMA RefreshLookKeeps ==
    ASSUME IInv, NEW t \in Threads, RefreshLook(t)
    PROVE  IInv' /\ Forth
<1>1. PICK s \in thread[t].todo :
         thread' = [thread EXCEPT ![t].pc = IF Watched(s) THEN "polled" ELSE "refresh",
                                  ![t].sess = s, ![t].proc = process[s], ![t].todo = @ \ {s}]
  BY DEF RefreshLook
<1> DEFINE r == [thread[t] EXCEPT !.pc = IF Watched(s) THEN "polled" ELSE "refresh",
                                  !.sess = s, !.proc = process[s], !.todo = @ \ {s}]
<1>2. thread[t] \in ThreadRecord /\ s \in Sessions /\ thread[t].pc = "refresh"
  BY <1>1 DEF IInv, ThreadInv, ThreadRecord, RefreshLook
<1>3. r \in ThreadRecord /\ r.pc \in {"polled", "refresh"} /\ r.start = thread[t].start
      /\ r.proc = process[s] /\ (r.pc = "polled" => process[s] # None)
  BY <1>2 DEF ThreadRecord, Pcs, IInv, World, Types, Watched
<1>4. thread' = [thread EXCEPT ![t] = r] /\ thread'[t] = r /\ \A d \in Threads : d # t => thread'[d] = thread[d]
  BY <1>1, <1>2 DEF IInv
<1> HIDE DEF r
<1>5. World' /\ Forth
  BY <1>2, <1>4, OnlyThreads, Constants DEF RefreshLook, sessions, IInv, World, Types
<1>6. r.pc = "polled" => r.proc \in Started
  BY <1>2, <1>3 DEF IInv, World, CapturesStarted
<1>7. ThreadInv(t)'
  BY <1>2, <1>3, <1>4, <1>5, <1>6
  DEF RefreshLook, sessions, Started, Live, IInv, ThreadInv, RequestsStart, LooksAtStarted, CollectsHeld, Starting
<1> QED
  BY <1>4, <1>5, <1>7, OneThread

LEMMA RefreshPollKeeps ==
    ASSUME IInv, NEW t \in Threads, RefreshPoll(t)
    PROVE  IInv' /\ Forth
<1>1. PICK pc \in {"recapture", "refresh"} : Goto(t, pc)
  BY DEF RefreshPoll
<1> DEFINE r == [thread[t] EXCEPT !.pc = pc]
<1>2. thread' = [thread EXCEPT ![t] = r] /\ thread'[t] = r /\ r \in ThreadRecord /\ r.pc = pc
      /\ r.start = thread[t].start /\ \A d \in Threads : d # t => thread'[d] = thread[d]
  <2>1. pc \in Pcs
    BY DEF Pcs
  <2> QED
    BY <1>1, <2>1, GoesTo
<1> HIDE DEF r
<1>3. World' /\ Forth
  BY <1>2, OnlyThreads, Constants DEF RefreshPoll, sessions, IInv, World, Types
<1>4. ThreadInv(t)'
  BY <1>2, <1>3
  DEF RefreshPoll, sessions, Live, IInv, ThreadInv, RequestsStart, LooksAtStarted, CollectsHeld, Starting
<1> QED
  BY <1>2, <1>3, <1>4, OneThread

LEMMA RecaptureFailsKeeps ==
    ASSUME IInv, NEW t \in Threads, RecaptureFails(t)
    PROVE  IInv' /\ Forth
<1> DEFINE r == [thread[t] EXCEPT !.pc = "refresh"]
<1>1. thread' = [thread EXCEPT ![t] = r] /\ thread'[t] = r /\ r \in ThreadRecord /\ r.pc = "refresh"
      /\ r.start = thread[t].start /\ \A d \in Threads : d # t => thread'[d] = thread[d]
  BY GoesTo DEF RecaptureFails, Pcs
<1> HIDE DEF r
<1>2. status' \in [Sessions -> {"running", "failed", "stopped"}] /\ mode' \in {"monitor", "managed"}
  BY DEF RecaptureFails, IInv, World, Types
<1>3. World' /\ Forth
  BY <1>1, <1>2, OnlyThreads, Constants DEF RecaptureFails
<1>4. ThreadInv(t)'
  BY <1>1, <1>3
  DEF RecaptureFails, Live, IInv, ThreadInv, RequestsStart, LooksAtStarted, CollectsHeld, Starting
<1> QED
  BY <1>1, <1>3, <1>4, OneThread

-----------------------------------------------------------------------------
(* The collector, where it starts no capture                               *)

LEMMA CollectKeeps ==
    ASSUME IInv, NEW s \in Sessions, Collect(s)
    PROVE  IInv' /\ Forth
<1> DEFINE r == [thread[s] EXCEPT !.pc = "reading", !.proc = process[s]]
<1>1. s \in Threads /\ thread[s] \in ThreadRecord /\ thread[s].pc = "top"
  BY Constants DEF IInv, ThreadInv, Collect
<1>2. r \in ThreadRecord /\ r.pc = "reading" /\ r.proc = process[s] /\ r.start = thread[s].start
  BY <1>1 DEF ThreadRecord, Pcs, IInv, World, Types
<1>3. thread' = [thread EXCEPT ![s] = r] /\ thread'[s] = r /\ \A d \in Threads : d # s => thread'[d] = thread[d]
  BY <1>1 DEF Collect, IInv
<1> HIDE DEF r
<1>4. World' /\ Forth
  BY <1>1, <1>3, OnlyThreads, Constants DEF Collect, sessions, IInv, World, Types
<1>5. r.proc \in Started
  BY <1>2 DEF Collect, IInv, World, CapturesStarted
<1>6. s \in listed
  BY <1>1 DEF IInv, ThreadInv, CollectsHeld, Live, Collect
<1>7. ThreadInv(s)'
  BY <1>1, <1>2, <1>3, <1>4, <1>5, <1>6
  DEF Collect, sessions, Started, Held, Live, IInv, ThreadInv, RequestsStart, LooksAtStarted, CollectsHeld, Starting
<1> QED
  BY <1>1, <1>3, <1>4, <1>7, OneThread

\* The collector goes through the sessions at its end, or when it fails.
LEMMA CollectorRefreshes ==
    ASSUME IInv, NEW s \in Sessions, thread[s].pc \in {"top", "eof"},
           thread' = [thread EXCEPT ![s] = Refreshing(s)],
           status' \in [Sessions -> {"running", "failed", "stopped"}],
           UNCHANGED <<listed, used, process, stopping, mode, proc, scanner>>
    PROVE  IInv' /\ Forth
<1>1. s \in Threads /\ thread'[s] = Refreshing(s) /\ \A d \in Threads : d # s => thread'[d] = thread[d]
  BY Constants DEF IInv
<1>2. World' /\ Forth
  BY <1>1, OnlyThreads, Constants DEF IInv, World, Types
<1>3. ThreadInv(s)'
  BY <1>1, <1>2, PlainRecords
  DEF Live, IInv, ThreadInv, RequestsStart, LooksAtStarted, CollectsHeld, Starting
<1> QED
  BY <1>1, <1>2, <1>3, OneThread

LEMMA CollectLineKeeps ==
    ASSUME IInv, NEW s \in Sessions, CollectLine(s)
    PROVE  IInv' /\ Forth
<1> DEFINE pc == IF proc[thread[s].proc] = "live" THEN "top" ELSE "eof"
           r == [thread[s] EXCEPT !.pc = pc]
<1>1. s \in Threads /\ thread[s].pc = "reading" /\ thread[s].proc \in Started
  BY Constants DEF IInv, ThreadInv, LooksAtStarted, CollectLine
<1>2. pc = "eof" => proc[thread[s].proc] = "dead"
  BY <1>1 DEF IInv, World, Types, Started
<1>3. pc \in Pcs /\ pc \in {"top", "eof"} /\ Goto(s, pc)
  BY DEF Pcs, CollectLine
<1> HIDE DEF pc
<1>4. thread' = [thread EXCEPT ![s] = r] /\ thread'[s] = r /\ r \in ThreadRecord /\ r.pc = pc
      /\ r.start = thread[s].start /\ r.proc = thread[s].proc
      /\ \A d \in Threads : d # s => thread'[d] = thread[d]
  BY <1>1, <1>3, GoesTo
<1> HIDE DEF r
<1>5. World' /\ Forth
  BY <1>1, <1>4, OnlyThreads, Constants DEF CollectLine, sessions, IInv, World, Types
<1>6. Held(s) => Held(s)'
  BY <1>1, <1>4, HeldOn, Constants DEF CollectLine, sessions
<1>7. ThreadInv(s)'
  BY <1>1, <1>2, <1>3, <1>4, <1>5, <1>6
  DEF CollectLine, sessions, Started, Live, IInv, ThreadInv, RequestsStart, LooksAtStarted, CollectsHeld, Starting
<1> QED
  BY <1>1, <1>4, <1>5, <1>7, OneThread

LEMMA CollectAgainKeeps ==
    ASSUME IInv, NEW s \in Sessions, CollectAgain(s)
    PROVE  IInv' /\ Forth
<1> DEFINE r == [thread[s] EXCEPT !.pc = "top"]
<1>1. s \in Threads /\ thread[s].pc = "eof"
  BY Constants DEF CollectAgain
<1>2. thread' = [thread EXCEPT ![s] = r] /\ thread'[s] = r /\ r \in ThreadRecord /\ r.pc = "top"
      /\ r.start = thread[s].start /\ \A d \in Threads : d # s => thread'[d] = thread[d]
  BY <1>1, GoesTo DEF CollectAgain, Pcs
<1> HIDE DEF r
<1>3. World' /\ Forth
  BY <1>1, <1>2, OnlyThreads, Constants DEF CollectAgain, sessions, IInv, World, Types
<1>4. ThreadInv(s)'
  BY <1>1, <1>2, <1>3
  DEF CollectAgain, sessions, Live, IInv, ThreadInv, RequestsStart, LooksAtStarted, CollectsHeld, Starting
<1> QED
  BY <1>1, <1>2, <1>3, <1>4, OneThread

-----------------------------------------------------------------------------
(* Sessions come and go                                                    *)

\* A session let go of is in the hands of the thread that stops it.
LEMMA Popped ==
    ASSUME IInv, NEW s \in Sessions, Pop(s), NEW c \in Clients,
           thread[c].pc # "kill", thread'[c].pc = "kill", thread'[c].sess = s,
           \A d \in Threads : d # c => thread'[d] = thread[d],
           UNCHANGED <<used, process, status, mode, proc, scanner>>
    PROVE  World' /\ Forth
<1>1. listed' = listed \ {s} /\ stopping' \in [Sessions -> BOOLEAN]
      /\ \A r \in Sessions : stopping'[r] = (r = s \/ stopping[r])
  BY DEF Pop, IInv, World, Types
<1>2. \A r \in Sessions : Live(r) => Live(r)'
  BY <1>1 DEF Live
<1>3. World'
  BY <1>1, <1>2 DEF IInv, World, Types, CapturesStarted, ScansLive, Started
<1>4. \A r \in Sessions : Held(r) => Held(r)'
  BY <1>1, Constants DEF Held
<1> QED
  BY <1>2, <1>3, <1>4 DEF Forth, Started

LEMMA StopKeeps ==
    ASSUME IInv, NEW c \in Clients, NEW s \in Sessions, Stop(c, s)
    PROVE  IInv' /\ Forth
<1> DEFINE r == [Idle EXCEPT !.pc = "kill", !.sess = s]
<1>1. r \in ThreadRecord /\ r.pc = "kill" /\ r.sess = s /\ r.start = None
  BY PlainRecords DEF ThreadRecord, Idle, Pcs
<1>2. thread' = [thread EXCEPT ![c] = r] /\ thread'[c] = r /\ \A d \in Threads : d # c => thread'[d] = thread[d]
  BY Constants DEF Stop, IInv
<1> HIDE DEF r
<1>3. World' /\ Forth
  BY <1>1, <1>2, Popped DEF Stop
<1>4. ThreadInv(c)'
  BY <1>1, <1>2, <1>3, Constants DEF ThreadInv, RequestsStart, LooksAtStarted, CollectsHeld, Starting
<1> QED
  BY <1>2, <1>3, <1>4, Constants, OneThread

LEMMA ReplaceKeeps ==
    ASSUME IInv, NEW t \in Threads, Replace(t)
    PROVE  IInv' /\ Forth
<1>1. PICK s \in thread[t].todo \cap listed :
         /\ Pop(s)
         /\ thread' = [thread EXCEPT ![t].pc = "kill", ![t].sess = s, ![t].todo = @ \ {s}]
  BY DEF Replace
<1> DEFINE r == [thread[t] EXCEPT !.pc = "kill", !.sess = s, !.todo = @ \ {s}]
<1>2. thread[t] \in ThreadRecord /\ thread[t].pc = "replace" /\ RequestsStart(t)
  BY DEF IInv, ThreadInv, Replace
<1>3. t \in Clients /\ s \in Sessions
  BY <1>1, <1>2 DEF RequestsStart, Starting, ThreadRecord
<1>4. r \in ThreadRecord /\ r.pc = "kill" /\ r.sess = s /\ r.start = thread[t].start
  BY <1>2, <1>3 DEF ThreadRecord, Pcs
<1>5. thread' = [thread EXCEPT ![t] = r] /\ thread'[t] = r /\ \A d \in Threads : d # t => thread'[d] = thread[d]
  BY <1>1, <1>2 DEF IInv
<1> HIDE DEF r
<1>6. World' /\ Forth
  <2>1. thread[t].pc # "kill" /\ thread'[t].pc = "kill" /\ thread'[t].sess = s
    BY <1>2, <1>4, <1>5
  <2>2. UNCHANGED <<used, process, status, mode, proc, scanner>>
    BY DEF Replace
  <2> QED
    BY ZenonT(30), <1>1, <1>3, <1>5, <2>1, <2>2, Popped
<1>7. ThreadInv(t)'
  BY <1>2, <1>3, <1>4, <1>5, <1>6, Constants
  DEF Replace, ThreadInv, RequestsStart, LooksAtStarted, CollectsHeld, Starting
<1> QED
  BY <1>5, <1>6, <1>7, OneThread

LEMMA StartKeeps ==
    ASSUME IInv, NEW c \in Clients, NEW s \in Sessions, NEW replace_existing, Start(c, s, replace_existing)
    PROVE  IInv' /\ Forth
<1> DEFINE r == [Idle EXCEPT !.pc = "replace", !.start = s, !.todo = listed]
<1>1. r \in ThreadRecord /\ r.pc = "replace" /\ r.start = s
  BY PlainRecords DEF ThreadRecord, Idle, Pcs, IInv, World, Types
<1>2. thread' = [thread EXCEPT ![c] = r] /\ thread'[c] = r /\ thread[c].pc = "idle"
      /\ \A d \in Threads : d # c => thread'[d] = thread[d]
  BY Constants DEF Start, IInv
<1> HIDE DEF r
<1>3. used' = used \cup {s} /\ IsFiniteSet(used')
  BY FS_AddElement DEF Start, IInv, World, Types
<1>4. World'
  BY <1>3 DEF Start, IInv, World, Types, CapturesStarted, ScansLive, Live, Started
<1>5. \A i \in Sessions : Held(i) => Held(i)'
  BY <1>2, HeldOn, Constants DEF Start
<1>6. Forth
  BY <1>3, <1>5 DEF Start, Forth, Live, Started
<1>7. ThreadInv(c)'
  BY <1>1, <1>2, <1>3, Constants DEF ThreadInv, RequestsStart, LooksAtStarted, CollectsHeld, Starting
<1> QED
  BY <1>2, <1>4, <1>6, <1>7, Constants, OneThread

LEMMA RegisterKeeps ==
    ASSUME IInv, NEW t \in Threads, Register(t)
    PROVE  IInv' /\ Forth
<1> DEFINE r == [thread[t] EXCEPT !.pc = "capture"]
<1>1. thread[t].pc = "register" /\ RequestsStart(t)
  BY DEF IInv, ThreadInv, Register
<1>2. thread' = [thread EXCEPT ![t] = r] /\ thread'[t] = r /\ r \in ThreadRecord /\ r.pc = "capture"
      /\ r.start = thread[t].start /\ \A d \in Threads : d # t => thread'[d] = thread[d]
  BY ZenonT(30), GoesTo DEF Register, Pcs
<1> HIDE DEF r
<1>3. thread[t].start \in used /\ thread[t].start # None /\ t \in Clients
  BY <1>1 DEF RequestsStart, Starting
<1>4. World'
  BY <1>3 DEF Register, IInv, World, Types, CapturesStarted, ScansLive, Live, Started
<1>5. \A i \in Sessions : Held(i) => Held(i)'
  BY <1>1, <1>2, HeldOn, Constants DEF Register
<1>6. Forth
  BY <1>5 DEF Register, Forth, Live, Started
<1>7. ThreadInv(t)'
  BY <1>1, <1>2, <1>3, Constants
  DEF Register, Live, ThreadInv, RequestsStart, LooksAtStarted, CollectsHeld, Starting
<1> QED
  BY <1>2, <1>4, <1>6, <1>7, OneThread

LEMMA StartThreadsKeeps ==
    ASSUME IInv, NEW t \in Threads, StartThreads(t)
    PROVE  IInv' /\ Forth
<1>1. thread[t].pc = "threads" /\ RequestsStart(t) /\ thread[t] \in ThreadRecord
  BY DEF IInv, ThreadInv, StartThreads
<1>a. PICK s \in Sessions : s = thread[t].start
  BY <1>1 DEF RequestsStart, Starting, IInv, World, Types
<1>2. s \in Threads /\ t \in Clients /\ t # s /\ Live(s)
  BY <1>1, <1>a, Constants DEF RequestsStart, Starting
<1> DEFINE r == [thread[s] EXCEPT !.pc = "top"]
<1>3. thread[s] \in ThreadRecord /\ RequestsStart(s)
  BY <1>2 DEF IInv, ThreadInv
<1>4. r \in ThreadRecord /\ r.pc = "top" /\ r.start = thread[s].start
  BY <1>3 DEF ThreadRecord, Pcs
<1>5. thread' = [u \in Threads |-> IF u = s THEN r ELSE IF u = t THEN Idle ELSE thread[u]]
  BY <1>a, <1>2 DEF StartThreads, IInv
<1>6. scanner' \in [Sessions -> {"none", "waiting", "taken", "finally", "resume", "done"}]
      /\ \A i \in Sessions : i # s => scanner'[i] = scanner[i]
  BY <1>a, <1>2 DEF StartThreads, IInv, World, Types
<1> HIDE DEF r
<1>7. World'
  BY <1>2, <1>6 DEF StartThreads, sessions, IInv, World, Types, CapturesStarted, ScansLive, Live, Started
<1>8. \A i \in Sessions : Held(i) => Held(i)'
  BY <1>1, <1>2, <1>5, HeldOn, Constants DEF StartThreads, sessions
<1>9. Forth
  BY <1>8 DEF StartThreads, sessions, Forth, Live, Started
<1>10. ThreadInv(t)'
  BY <1>2, <1>5, PlainRecords, Constants
  DEF ThreadInv, RequestsStart, LooksAtStarted, CollectsHeld, Starting
<1>11. ThreadInv(s)'
  BY <1>2, <1>3, <1>4, <1>5, <1>9, Constants
  DEF ThreadInv, RequestsStart, LooksAtStarted, CollectsHeld, Starting, Forth
<1>12. \A u \in Threads : thread'[u] = thread[u] \/ ThreadInv(u)'
  BY <1>2, <1>5, <1>10, <1>11
<1>13. thread' = [u \in Threads |-> thread'[u]]
  BY <1>5
<1> QED
  BY <1>7, <1>9, <1>12, <1>13, StepKeeps

-----------------------------------------------------------------------------
(* Captures end, are taken and are started                                 *)

\* What is over stays over.
LEMMA WaneIsFinal ==
    ASSUME IInv, Wane
    PROVE  Started' = Started /\ \A p \in Started : proc[p] = "dead" => proc'[p] = "dead"
  BY DEF Wane, IInv, World, Types, Started

\* Captures that end and scans that go on, with no thread involved.
LEMMA EndKeepsWorld ==
    ASSUME IInv, Wane, UNCHANGED <<listed, used, process, stopping, thread>>,
           status' \in [Sessions -> {"running", "failed", "stopped"}], mode' \in {"monitor", "managed"},
           scanner' \in [Sessions -> {"none", "waiting", "taken", "finally", "resume", "done"}],
           \A s \in Sessions : scanner'[s] # "none" => scanner[s] # "none"
    PROVE  IInv' /\ Forth
<1>1. Started' = Started /\ \A p \in Started : proc[p] = "dead" => proc'[p] = "dead"
  BY WaneIsFinal
<1>2. World'
  BY <1>1 DEF Wane, IInv, World, Types, CapturesStarted, ScansLive, Live
<1>3. Forth
  BY <1>1 DEF Forth, Live, Held
<1> QED
  BY <1>2, <1>3, StepKeeps DEF IInv

LEMMA ExitKeeps ==
    ASSUME IInv, NEW p \in Started, Exit(p)
    PROVE  IInv' /\ Forth
<1>1. PICK n \in 0 .. MaxProcs : proc \in [1 .. n -> {"live", "dead"}]
  BY DEF IInv, World, Types
<1>2. proc' \in [1 .. n -> {"live", "dead"}] /\ \A q \in Started : proc'[q] = "live" => proc[q] = "live"
  BY <1>1 DEF Exit, Started
<1>3. Wane
  BY <1>1, <1>2 DEF Wane, Started
<1> QED
  BY <1>3, EndKeepsWorld DEF Exit, sessions, IInv, World, Types

LEMMA ScannerMovesKeeps ==
    ASSUME IInv, NEW s \in Sessions, Scan(s) \/ ScanRestores(s) \/ ScanEnds(s)
    PROVE  IInv' /\ Forth
<1>1. UNCHANGED <<listed, used, process, status, stopping, thread, proc>> /\ mode' \in {"monitor", "managed"}
  BY DEF Scan, ScanRestores, ScanEnds, sessions, IInv, World, Types
<1>2. PICK pc \in {"finally", "resume", "done"} : scanner' = [scanner EXCEPT ![s] = pc]
  BY DEF Scan, ScanRestores, ScanEnds, ScanGoto
<1>3. scanner[s] # "none"
  BY DEF Scan, ScanRestores, ScanEnds
<1>4. Wane
  BY <1>1 DEF Wane, Started, IInv, World, Types
<1>5. scanner' \in [Sessions -> {"none", "waiting", "taken", "finally", "resume", "done"}]
      /\ \A r \in Sessions : scanner'[r] # "none" => scanner[r] # "none"
  BY <1>2, <1>3 DEF IInv, World, Types
<1>6. status' \in [Sessions -> {"running", "failed", "stopped"}]
  BY <1>1 DEF IInv, World, Types
<1> QED
  BY <1>1, <1>4, <1>5, <1>6, EndKeepsWorld

\* A session whose capture is taken has none: nobody needs to hold it.
LEMMA TakeKeepsWorld ==
    ASSUME IInv, NEW s, Take(s), UNCHANGED <<listed, used, stopping, mode>>,
           status' \in [Sessions -> {"running", "failed", "stopped"}],
           scanner' \in [Sessions -> {"none", "waiting", "taken", "finally", "resume", "done"}],
           \A r \in Sessions : scanner'[r] # "none" => scanner[r] # "none",
           \A r \in Sessions : r # s /\ Held(r) => Held(r)'
    PROVE  World' /\ Forth
<1>1. /\ Wane /\ process' \in [Sessions -> Procs \cup {None}]
      /\ \A r \in Sessions : process'[r] = IF r = s THEN None ELSE process[r]
  BY Taken DEF IInv, World
<1>2. Started' = Started /\ \A p \in Started : proc[p] = "dead" => proc'[p] = "dead"
  BY <1>1, WaneIsFinal
<1>3. None \notin Started
  BY Numbered DEF IInv, World
<1>4. World'
  BY <1>1, <1>2 DEF Wane, IInv, World, Types, CapturesStarted, ScansLive, Live
<1>5. Forth
  BY <1>1, <1>2, <1>3 DEF Forth, Live
<1> QED
  BY <1>4, <1>5

LEMMA ScanTakesKeeps ==
    ASSUME IInv, NEW s \in Sessions, ScanTakes(s)
    PROVE  IInv' /\ Forth
<1>1. scanner' \in [Sessions -> {"none", "waiting", "taken", "finally", "resume", "done"}]
      /\ \A r \in Sessions : scanner'[r] # "none" => scanner[r] # "none"
  BY DEF ScanTakes, ScanGoto, IInv, World, Types
<1>2. World' /\ Forth
  BY <1>1, TakeKeepsWorld DEF ScanTakes, Held, IInv, World, Types
<1> QED
  BY <1>2, StepKeeps DEF ScanTakes, IInv

LEMMA KillKeeps ==
    ASSUME IInv, NEW t \in Threads, Kill(t)
    PROVE  IInv' /\ Forth
<1>1. PICK s : s = thread[t].sess
  OBVIOUS
<1>2. thread[t].pc = "kill" /\ thread[t] \in ThreadRecord /\ RequestsStart(t)
  BY DEF IInv, ThreadInv, Kill
<1>3. t \in Clients /\ t \notin Sessions
  BY <1>2, Constants DEF RequestsStart
<1> DEFINE r == IF thread[t].start = None THEN Idle ELSE [thread[t] EXCEPT !.pc = "replace"]
<1>4. thread' = [thread EXCEPT ![t] = r]
  BY <1>2, <1>3 DEF Kill, Finish, Goto, IInv, ThreadRecord
<1>5. r \in ThreadRecord /\ r.pc \in {"idle", "replace"} /\ r.start = thread[t].start
      /\ (r.pc = "replace" => thread[t].start # None)
  BY <1>2, PlainRecords DEF ThreadRecord, Idle, Pcs
<1>6. thread'[t] = r /\ \A d \in Threads : d # t => thread'[d] = thread[d]
  BY <1>4 DEF IInv
<1> HIDE DEF r
<1>7. \A i \in Sessions : i # s /\ Held(i) => Held(i)'
  BY <1>1, <1>6, Constants DEF Held, Kill
<1>8. status' \in [Sessions -> {"running", "failed", "stopped"}]
  BY DEF Kill, IInv, World, Types
<1>9. World' /\ Forth
  BY <1>1, <1>7, <1>8, TakeKeepsWorld DEF Kill, IInv, World, Types
<1>10. ThreadInv(t)'
  BY <1>2, <1>3, <1>5, <1>6, <1>9
  DEF Kill, ThreadInv, RequestsStart, LooksAtStarted, CollectsHeld, Starting
<1> QED
  BY <1>4, <1>9, <1>10, OneThread

\* A session that gets a new capture has none of those started before.
LEMMA InstallKeepsWorld ==
    ASSUME IInv, NEW s, Install(s), UNCHANGED <<listed, used, status, stopping, mode>>,
           scanner' \in [Sessions -> {"none", "waiting", "taken", "finally", "resume", "done"}],
           \A r \in Sessions : scanner'[r] # "none" => scanner[r] # "none",
           \A c \in Clients : thread[c].pc = "kill" => thread'[c] = thread[c]
    PROVE  World' /\ Forth
<1>1. process' \in [Sessions -> Procs \cup {None}]
      /\ \A r \in Sessions : process'[r] = IF r = s THEN Newest ELSE process[r]
  BY Installed DEF IInv, World
<1>2. Started' = Started \cup {Newest} /\ (\E n \in 0 .. MaxProcs : proc' \in [1 .. n -> {"live", "dead"}])
      /\ \A p \in Started : proc'[p] = proc[p]
  BY Spawned DEF Install, IInv, World
<1>3. Newest \notin Started
  BY Numbered DEF IInv, World
<1>4. World'
  BY <1>1, <1>2 DEF IInv, World, Types, CapturesStarted, ScansLive, Live
<1>5. \A r \in Sessions : Held(r) => Held(r)'
  BY HeldOn
<1>6. Forth
  BY <1>1, <1>2, <1>3, <1>5 DEF Forth, Live
<1> QED
  BY <1>4, <1>6

LEMMA CaptureKeeps ==
    ASSUME IInv, NEW t \in Threads, Capture(t)
    PROVE  IInv' /\ Forth
<1>1. PICK s : s = thread[t].start
  OBVIOUS
<1> DEFINE r == [thread[t] EXCEPT !.pc = "threads"]
<1>2. thread[t].pc = "capture" /\ RequestsStart(t)
  BY DEF IInv, ThreadInv, Capture
<1>3. thread' = [thread EXCEPT ![t] = r] /\ thread'[t] = r /\ r \in ThreadRecord /\ r.pc = "threads"
      /\ r.start = s /\ \A d \in Threads : d # t => thread'[d] = thread[d]
  BY ZenonT(30), <1>1, GoesTo DEF Capture, Pcs
<1> HIDE DEF r
<1>4. \A c \in Clients : thread[c].pc = "kill" => thread'[c] = thread[c]
  BY <1>2, <1>3, Constants
<1>5. World' /\ Forth
  BY <1>1, <1>4, InstallKeepsWorld DEF Capture, IInv, World, Types
<1>6. ThreadInv(t)'
  BY <1>1, <1>2, <1>3, <1>5, Constants
  DEF Capture, Live, ThreadInv, RequestsStart, LooksAtStarted, CollectsHeld, Starting
<1> QED
  BY <1>3, <1>5, <1>6, OneThread

LEMMA RecaptureKeeps ==
    ASSUME IInv, NEW t \in Threads, Recapture(t)
    PROVE  IInv' /\ Forth
<1>1. PICK s : s = thread[t].sess
  OBVIOUS
<1> DEFINE r == [thread[t] EXCEPT !.pc = "refresh"]
<1>2. thread[t].pc = "recapture" /\ ThreadInv(t)
  BY DEF IInv, Recapture
<1>3. thread' = [thread EXCEPT ![t] = r] /\ thread'[t] = r /\ r \in ThreadRecord /\ r.pc = "refresh"
      /\ r.start = thread[t].start /\ \A d \in Threads : d # t => thread'[d] = thread[d]
  BY GoesTo DEF Recapture, Pcs
<1> HIDE DEF r
<1>4. \A c \in Clients : thread[c].pc = "kill" => thread'[c] = thread[c]
  BY <1>2, <1>3, Constants
<1>5. World' /\ Forth
  BY <1>1, <1>4, InstallKeepsWorld DEF Recapture, IInv, World, Types
<1>6. ThreadInv(t)'
  BY <1>2, <1>3, <1>5
  DEF Recapture, Live, ThreadInv, RequestsStart, LooksAtStarted, CollectsHeld, Starting
<1> QED
  BY <1>3, <1>5, <1>6, OneThread

LEMMA CollectRestartKeeps ==
    ASSUME IInv, NEW s \in Sessions, CollectRestart(s)
    PROVE  IInv' /\ Forth
<1> DEFINE r == [thread[s] EXCEPT !.pc = "top"]
<1>1. s \in Threads /\ thread[s].pc = "eof" /\ ThreadInv(s)
  BY Constants DEF IInv, CollectRestart
<1>2. thread' = [thread EXCEPT ![s] = r] /\ thread'[s] = r /\ r \in ThreadRecord /\ r.pc = "top"
      /\ r.start = thread[s].start /\ \A d \in Threads : d # s => thread'[d] = thread[d]
  BY ZenonT(30), <1>1, GoesTo DEF CollectRestart, Pcs
<1> HIDE DEF r
<1>3. \A c \in Clients : thread[c].pc = "kill" => thread'[c] = thread[c]
  BY <1>1, <1>2, Constants
<1>4. World' /\ Forth
  BY <1>3, InstallKeepsWorld DEF CollectRestart, IInv, World, Types
<1>5. ThreadInv(s)'
  BY <1>1, <1>2, <1>4
  DEF CollectRestart, Live, ThreadInv, RequestsStart, LooksAtStarted, CollectsHeld, Starting
<1> QED
  BY <1>1, <1>2, <1>4, <1>5, OneThread

LEMMA ScanResumesKeeps ==
    ASSUME IInv, NEW s \in Sessions, ScanResumes(s)
    PROVE  IInv' /\ Forth
<1>1. scanner' \in [Sessions -> {"none", "waiting", "taken", "finally", "resume", "done"}]
      /\ \A r \in Sessions : scanner'[r] # "none" => scanner[r] # "none"
  BY DEF ScanResumes, ScanGoto, IInv, World, Types
<1>2. World' /\ Forth
  BY <1>1, InstallKeepsWorld DEF ScanResumes
<1> QED
  BY <1>2, StepKeeps DEF ScanResumes, IInv

-----------------------------------------------------------------------------
(* The invariant                                                           *)

LEMMA InitHolds == Init => IInv
<1> SUFFICES ASSUME Init PROVE IInv
  OBVIOUS
<1>1. World
  <2>1. Started = {} /\ proc \in [1 .. 0 -> {"live", "dead"}]
    BY DEF Init, Started
  <2>2. IsFiniteSet(used)
    BY FS_EmptySet DEF Init
  <2> QED
    BY <2>1, <2>2, WiFiAssumption DEF WiFiAssumption, Init, World, Types, CapturesStarted, ScansLive
<1>2. \A t \in Threads : thread[t] = Idle
  BY DEF Init
<1>3. Idle \in ThreadRecord
  BY DEF Idle, ThreadRecord, Pcs
<1>4. \A t \in Threads : ThreadInv(t)
  BY <1>2, <1>3 DEF Idle, ThreadInv, RequestsStart, LooksAtStarted, CollectsHeld, Starting
<1> QED
  BY <1>1, <1>4 DEF Init, IInv

LEMMA ThreadStepKeeps ==
    ASSUME IInv, NEW t \in Threads, ThreadStep(t)
    PROVE  IInv' /\ Forth
<1>1. CASE StartFails(t) \/ CaptureFails(t) \/ RefreshEnds(t)
  BY <1>1, FinishKeeps DEF StartFails, CaptureFails, RefreshEnds
<1>2. CASE Kill(t) \/ Replace(t) \/ PrepareMonitor(t) \/ Register(t)
  BY <1>2, KillKeeps, ReplaceKeeps, PrepareMonitorKeeps, RegisterKeeps
<1>3. CASE Capture(t) \/ StartThreads(t) \/ Recapture(t)
  BY <1>3, CaptureKeeps, StartThreadsKeeps, RecaptureKeeps
<1>4. CASE RefreshLook(t) \/ RefreshPoll(t) \/ RecaptureFails(t)
  BY <1>4, RefreshLookKeeps, RefreshPollKeeps, RecaptureFailsKeeps
<1> QED
  BY <1>1, <1>2, <1>3, <1>4 DEF ThreadStep

LEMMA SessionStepKeeps ==
    ASSUME IInv, NEW s \in Sessions, CollectorStep(s) \/ ScannerStep(s)
    PROVE  IInv' /\ Forth
<1>1. CASE CollectEnds(s)
  BY <1>1, CollectorRefreshes DEF CollectEnds, sessions, IInv, World, Types
<1>2. CASE CollectRestartFails(s)
  <2>1. status' \in [Sessions -> {"running", "failed", "stopped"}]
    BY <1>2 DEF CollectRestartFails, IInv, World, Types
  <2> QED
    BY <1>2, <2>1, CollectorRefreshes DEF CollectRestartFails
<1>3. CASE Collect(s) \/ CollectLine(s) \/ CollectRestart(s) \/ CollectAgain(s)
  BY <1>3, CollectKeeps, CollectLineKeeps, CollectRestartKeeps, CollectAgainKeeps
<1>4. CASE ScannerStep(s)
  BY <1>4, ScanTakesKeeps, ScannerMovesKeeps, ScanResumesKeeps DEF ScannerStep
<1> QED
  BY <1>1, <1>2, <1>3, <1>4 DEF CollectorStep

LEMMA NextKeeps ==
    ASSUME IInv, [Next]_vars
    PROVE  IInv' /\ Forth
<1>1. CASE UNCHANGED vars
  <2>1. World' /\ Forth
    BY <1>1, OnlyThreads DEF vars, sessions, IInv, World, Types
  <2> QED
    BY <1>1, <2>1, StepKeeps DEF vars, IInv
<1>2. ASSUME NEW c \in Clients, Request(c) PROVE IInv' /\ Forth
  BY <1>2, ListKeeps, StopKeeps, StartKeeps DEF Request
<1>3. ASSUME NEW p \in Started, Exit(p) PROVE IInv' /\ Forth
  BY <1>3, ExitKeeps
<1> QED
  BY <1>1, <1>2, <1>3, ThreadStepKeeps, SessionStepKeeps DEF Next

LEMMA Inductive == Spec => []IInv
<1>1. IInv /\ [Next]_vars => IInv'
  BY NextKeeps
<1> QED
  BY <1>1, InitHolds, PTL DEF Spec

\* Requests, collectors and scan threads keep the types of their state, for
\* every set of sessions and clients: what is polled or read is a capture that
\* was started, never the one a session does not have.
THEOREM TypeCorrect == Spec => []TypeOK
  BY Inductive, TypesKept, PTL

-----------------------------------------------------------------------------
(* Which steps lose a capture, or disturb a scan                           *)

Harmless ==
    /\ Disturbed' \subseteq Disturbed
    /\ Orphans' \subseteq Orphans \cup {process[s] : s \in Disturbed}

\* A step that starts no capture loses none, if it ends those it takes: Forth
\* says that who held the others still does.
LEMMA NoneStarted ==
    ASSUME IInv, Forth, Wane, Disturbed' \subseteq Disturbed,
           \A s \in Sessions : process'[s] = process[s] \/ (process[s] \in Started => proc'[process[s]] = "dead")
    PROVE  Harmless
<1>1. ASSUME NEW p \in Orphans' PROVE p \in Orphans
  <2>1. p \in Started /\ proc'[p] = "live" /\ proc[p] = "live"
    BY <1>1 DEF Orphans, Wane
  <2>2. ASSUME NEW s \in Sessions, process[s] = p PROVE ~Held(s)
    <3>1. process'[s] = p
      BY <2>1, <2>2
    <3>2. ~Held(s)'
      BY <1>1, <3>1 DEF Orphans
    <3> QED
      BY <2>1, <3>1, <3>2 DEF Forth
  <2> QED
    BY <2>1, <2>2 DEF Orphans
<1> QED
  BY <1>1 DEF Harmless

LEMMA NothingStarted ==
    ASSUME IInv, Forth, UNCHANGED <<proc, process>>, Disturbed' \subseteq Disturbed
    PROVE  Harmless
<1>1. Wane
  BY DEF Wane, Started, IInv, World, Types
<1> QED
  BY <1>1, NoneStarted

\* Sessions and scans as they were.
LEMMA NothingTouched ==
    ASSUME IInv, Forth, UNCHANGED <<proc, process, scanner>>
    PROVE  Harmless
  BY NothingStarted DEF Disturbed

LEMMA TakeHarmless ==
    ASSUME IInv, Forth, NEW s \in Sessions \cup {None}, Take(s),
           \A r \in Sessions : r # s => scanner'[r] = scanner[r]
    PROVE  Harmless
<1>1. /\ Wane
      /\ \A r \in Sessions : process'[r] = IF r = s THEN None ELSE process[r]
      /\ process[s] \in Started => proc'[process[s]] = "dead"
  BY Taken DEF IInv, World
<1>2. Disturbed' \subseteq Disturbed
  BY <1>1 DEF Disturbed
<1> QED
  BY <1>1, <1>2, NoneStarted

\* A capture started for a session in somebody's hands is not lost, and neither
\* is the one it had, when that is over or a scan's.
LEMMA InstallHarmless ==
    ASSUME IInv, Forth, NEW s \in Sessions, Install(s), Held(s)', Disturbed' \subseteq Disturbed,
           process[s] \in Started => proc[process[s]] = "dead" \/ s \in Disturbed
    PROVE  Harmless
<1>1. \A r \in Sessions : process'[r] = IF r = s THEN Newest ELSE process[r]
  BY Installed DEF IInv, World
<1>2. Started' = Started \cup {Newest} /\ \A p \in Started : proc'[p] = proc[p]
  BY Spawned DEF Install, IInv, World
<1>3. ASSUME NEW p \in Orphans' PROVE p \in Orphans \/ p \in {process[r] : r \in Disturbed}
  <2>1. p # Newest
    BY <1>1, <1>3 DEF Orphans
  <2>2. p \in Started /\ proc[p] = "live"
    BY <1>2, <1>3, <2>1 DEF Orphans
  <2>3. ASSUME NEW r \in Sessions, process[r] = p, Held(r) PROVE r = s
    <3>1. SUFFICES ASSUME r # s PROVE FALSE
      OBVIOUS
    <3>2. process'[r] = p
      BY <1>1, <2>3, <3>1
    <3>3. Held(r)'
      BY <2>2, <2>3, <3>2 DEF Forth
    <3> QED
      BY <1>3, <3>2, <3>3 DEF Orphans
  <2>4. CASE \E r \in Sessions : process[r] = p /\ Held(r)
    BY <2>2, <2>3, <2>4
  <2> QED
    BY <2>2, <2>4 DEF Orphans
<1> QED
  BY <1>3 DEF Harmless

\* The collector looks again under the lock: the capture it replaces is over and
\* still its session's, which therefore is in somebody's hands.
LEMMA CollectRestartHarmless ==
    ASSUME IInv, Forth, NEW s \in Sessions, CollectRestart(s)
    PROVE  Harmless
<1>1. s \in Threads /\ thread[s].pc = "eof" /\ process[s] = thread[s].proc /\ Install(s)
  BY Constants DEF CollectRestart, SameCapture
<1>2. LooksAtStarted(s) /\ CollectsHeld(s)
  BY <1>1 DEF IInv, ThreadInv
<1>3. process[s] \in Started /\ proc[process[s]] = "dead" /\ Held(s)
  BY <1>1, <1>2 DEF LooksAtStarted, CollectsHeld
<1>4. Held(s)'
  <2>1. \A d \in Threads : d # s => thread'[d] = thread[d]
    BY <1>1, GoesTo DEF CollectRestart, Pcs
  <2> QED
    BY <1>3, <2>1, Constants DEF Held, CollectRestart
<1>5. process[s] # None
  BY <1>3, Numbered DEF IInv, World
<1>6. \A r \in Sessions : r # s => process'[r] = process[r]
  BY <1>1, Installed DEF IInv, World
<1>7. Disturbed' \subseteq Disturbed
  BY <1>5, <1>6 DEF CollectRestart, Disturbed
<1> QED
  BY <1>1, <1>3, <1>4, <1>7, InstallHarmless

\* A scan resumes the capture of a session that is not told to stop, and so is
\* still listed; a capture that somebody gave it meanwhile disturbed it already.
LEMMA ScanResumesHarmless ==
    ASSUME IInv, Forth, NEW s \in Sessions, ScanResumes(s)
    PROVE  Harmless
<1>1. scanner[s] = "resume" /\ ~stopping[s] /\ Install(s) /\ UNCHANGED <<listed, thread>>
  BY DEF ScanResumes
<1>2. scanner' = [scanner EXCEPT ![s] = "waiting"]
  BY DEF ScanResumes, ScanGoto
<1>3. Held(s)'
  BY <1>1 DEF IInv, World, ScansLive, Live, Held
<1>4. \A r \in Sessions : r # s => process'[r] = process[r]
  BY <1>1, Installed DEF IInv, World
<1>5. Disturbed' \subseteq Disturbed
  BY <1>2, <1>4 DEF Disturbed, IInv, World, Types
<1>6. process[s] \in Started => s \in Disturbed
  BY <1>1, Numbered DEF Disturbed, IInv, World
<1> QED
  BY <1>1, <1>3, <1>5, <1>6, InstallHarmless

LEMMA ScannerHarmless ==
    ASSUME IInv, Forth, NEW s \in Sessions, ScannerStep(s)
    PROVE  Harmless
<1>1. CASE ScanTakes(s)
  BY <1>1, TakeHarmless DEF ScanTakes, ScanGoto, IInv, World, Types
<1>2. CASE Scan(s) \/ ScanRestores(s) \/ ScanEnds(s)
  <2>1. Disturbed' \subseteq Disturbed
    BY <1>2 DEF Scan, ScanRestores, ScanEnds, ScanGoto, sessions, Disturbed, IInv, World, Types
  <2> QED
    BY <1>2, <2>1, NothingStarted DEF Scan, ScanRestores, ScanEnds, sessions
<1> QED
  BY <1>1, <1>2, ScanResumesHarmless DEF ScannerStep

LEMMA ThreadHarmless ==
    ASSUME IInv, Forth, NEW t \in Threads, ThreadStep(t)
    PROVE  Unchecked \/ Harmless
<1>1. CASE Kill(t)
  <2>1. thread[t].sess \in Sessions \cup {None}
    BY DEF IInv, ThreadInv, ThreadRecord
  <2> QED
    BY <1>1, <2>1, TakeHarmless DEF Kill
<1>2. CASE Capture(t)
  <2>1. thread[t].pc = "capture" /\ Goto(t, "threads") /\ "threads" \in Pcs
    BY <1>2 DEF Capture, Pcs
  <2>2. thread'[t].pc = "threads"
    BY <2>1 DEF Goto, IInv, ThreadInv, ThreadRecord
  <2> QED
    BY <2>1, <2>2 DEF Unchecked
<1>3. CASE Recapture(t)
  <2>1. thread[t].pc = "recapture" /\ Goto(t, "refresh") /\ "refresh" \in Pcs
    BY <1>3 DEF Recapture, Pcs
  <2>2. thread'[t].pc = "refresh"
    BY <2>1 DEF Goto, IInv, ThreadInv, ThreadRecord
  <2> QED
    BY <2>1, <2>2 DEF Unchecked
<1>4. CASE StartThreads(t)
  <2>1. Disturbed' \subseteq Disturbed
    BY <1>4 DEF StartThreads, sessions, Disturbed, IInv, World, Types
  <2> QED
    BY <1>4, <2>1, NothingStarted DEF StartThreads, sessions
<1>5. CASE Replace(t) \/ StartFails(t) \/ PrepareMonitor(t) \/ Register(t) \/ CaptureFails(t)
  BY <1>5, NothingTouched DEF Replace, StartFails, PrepareMonitor, Register, CaptureFails, sessions
<1>6. CASE RefreshEnds(t) \/ RefreshLook(t) \/ RefreshPoll(t) \/ RecaptureFails(t)
  BY <1>6, NothingTouched DEF RefreshEnds, RefreshLook, RefreshPoll, RecaptureFails, sessions
<1> QED
  BY <1>1, <1>2, <1>3, <1>4, <1>5, <1>6 DEF ThreadStep

\* No step loses a capture or disturbs a scan but the unchecked starts of
\* _refresh and start, whatever the interleaving of stops, replacements,
\* collectors and scans: for every set of sessions, clients and captures.
THEOREM OnlyUncheckedStartsHarmHolds == Spec => OnlyUncheckedStartsHarm
<1>1. ASSUME IInv, [Next]_vars PROVE Unchecked \/ Harmless
  <2>1. Forth
    BY <1>1, NextKeeps
  <2>2. ASSUME NEW c \in Clients, Request(c) PROVE Harmless
    BY <1>1, <2>1, <2>2, NothingTouched DEF Request, List, Stop, Start, sessions
  <2>3. ASSUME NEW s \in Sessions, CollectorStep(s) PROVE Harmless
    <3>1. CASE CollectRestart(s)
      BY <1>1, <2>1, <3>1, CollectRestartHarmless
    <3>2. CASE Collect(s) \/ CollectEnds(s) \/ CollectLine(s) \/ CollectRestartFails(s) \/ CollectAgain(s)
      BY <1>1, <2>1, <3>2, NothingTouched
      DEF Collect, CollectEnds, CollectLine, CollectRestartFails, CollectAgain, sessions
    <3> QED
      BY <2>3, <3>1, <3>2 DEF CollectorStep
  <2>4. ASSUME NEW p \in Started, Exit(p) PROVE Harmless
    <3>1. PICK n \in 0 .. MaxProcs : proc \in [1 .. n -> {"live", "dead"}]
      BY <1>1 DEF IInv, World, Types
    <3>2. Wane
      BY <2>4, <3>1 DEF Exit, Wane, Started
    <3> QED
      BY <1>1, <2>1, <2>4, <3>2, NoneStarted DEF Exit, sessions, Disturbed
  <2>5. CASE UNCHANGED vars
    BY <1>1, <2>1, <2>5, NothingTouched DEF vars, sessions
  <2> QED
    BY <1>1, <2>1, <2>2, <2>3, <2>4, <2>5, ThreadHarmless, ScannerHarmless DEF Next
<1>2. IInv /\ [Next]_vars => [Unchecked \/ Harmless]_vars
  BY <1>1
<1> QED
  BY <1>2, Inductive, PTL DEF Spec, OnlyUncheckedStartsHarm, Harmless
=============================================================================
