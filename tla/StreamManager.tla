--------------------------- MODULE StreamManager ---------------------------
(***************************************************************************)
(* The life of the streams of StreamManager (src/app/services.py): client  *)
(* requests that start, retune and stop sessions, the reader thread of     *)
(* each session with its automatic restart of a failed SDR process, and    *)
(* the processes themselves.                                               *)
(*                                                                         *)
(* Requests run in threads of the web server's pool, so two of them        *)
(* interleave at every blocking call; only _restart_stream takes a lock.   *)
(* A process is a number, given in the order of creation.  A reader thread *)
(* is named by the process whose installation started it.  Streams are     *)
(* continuous (no num_samples, no duration_seconds).                       *)
(*                                                                         *)
(* thread.join(timeout=1.0) returns when the reader has ended or after a   *)
(* second, and its caller cannot tell which: no step here waits for it.    *)
(* What the properties say about joins that gave up on a reader, and about *)
(* retunes that overlap, is remembered in variables of their own, which no *)
(* step of the code reads.                                                 *)
(***************************************************************************)
EXTENDS Integers, FiniteSets

CONSTANTS
    Sessions,       \* stream ids; each is used once, as a uuid4 is
    Clients,        \* request threads
    MaxWork,        \* bound on the processes ever started and requests ever made, together
    None            \* Python's None

ASSUME ConstantsAssumption ==
    /\ MaxWork \in Nat
    /\ None \notin Int
    /\ None \notin Sessions

VARIABLES
    registered,     \* the keys of _sessions
    used,           \* the stream ids given so far
    process, status,
    recent,         \* less than 1 s since retuned_at
    stop_reader,    \* the event the session holds is set
    thread,         \* session.reader_thread
    restart_lock,   \* the reader holding it, or None
    proc,           \* process -> "live", "eof" (pipe closed, not reaped), "dead"
    reader,         \* reader thread -> where it is, its session and processes
    client,         \* request thread -> where it is and its local variables
    requests,       \* how many requests were made, for the bound
    given_up,       \* history: reader threads still running that a join gave up on
    overlapped,     \* history: sessions retuned with a start or a retune unanswered
    restarted       \* history: processes that a restart has replaced

session == <<registered, used, process, status, recent, stop_reader, thread, restart_lock>>
code == <<session, proc, reader, client>>
vars == <<code, requests, given_up, overlapped, restarted>>

Procs == 1 .. MaxWork
Started == DOMAIN proc

ReaderPcs == {"top", "reading", "eof", "restart", "spawn", "install", "finish", "done"}
ClientPcs == {"idle", "register", "startreader", "stopjoin", "tune", "rejoin", "respawn",
              "reinstall"}
Idle == [pc |-> "idle", sess |-> None, old |-> None, join |-> None, new |-> None]

TypeOK ==
    /\ registered \subseteq used /\ used \subseteq Sessions
    /\ process \in [Sessions -> Procs \cup {None}]
    /\ \A s \in registered : process[s] \in Started
    /\ status \in [Sessions -> {"running", "retuning", "stopped"}]
    /\ recent \in [Sessions -> BOOLEAN]
    /\ stop_reader \in [Sessions -> BOOLEAN]
    /\ thread \in [Sessions -> Procs \cup {None}]
    /\ restart_lock \in [Sessions -> Procs \cup {None}]
    /\ \E n \in 0 .. MaxWork : proc \in [1 .. n -> {"live", "eof", "dead"}]
    /\ \E R \in SUBSET Procs :
          reader \in [R -> [pc : ReaderPcs, sess : Sessions,
                            proc : Procs \cup {None}, new : Procs \cup {None}]]
    /\ client \in [Clients -> [pc : ClientPcs, sess : Sessions \cup {None},
                               old : Procs \cup {None}, join : Procs \cup {None},
                               new : Procs \cup {None}]]
    /\ requests \in 0 .. MaxWork
    /\ given_up \subseteq DOMAIN reader
    /\ overlapped \subseteq Sessions
    /\ restarted \subseteq Started

Init ==
    /\ registered = {} /\ used = {}
    /\ process = [s \in Sessions |-> None]
    /\ status = [s \in Sessions |-> "running"]
    /\ recent = [s \in Sessions |-> TRUE]
    /\ stop_reader = [s \in Sessions |-> FALSE]
    /\ thread = [s \in Sessions |-> None]
    /\ restart_lock = [s \in Sessions |-> None]
    /\ proc = [p \in {} |-> "live"]
    /\ reader = [r \in {} |-> Idle]
    /\ client = [c \in Clients |-> Idle]
    /\ requests = 0
    /\ given_up = {} /\ overlapped = {} /\ restarted = {}

-----------------------------------------------------------------------------
(* Processes                                                               *)

Newest == Cardinality(Started) + 1
CanSpawn == Newest + requests \in Procs

\* backend.start_stream after backend.stop_stream(old), old being None when
\* there is nothing to stop.  stop_stream waits until the process is gone.
Spawned(old) ==
    [p \in Started \cup {Newest} |-> IF p = Newest THEN "live"
                                     ELSE IF p = old THEN "dead" ELSE proc[p]]
Killed(p) == [proc EXCEPT ![p] = "dead"]

\* A process fails by itself: its pipe closes, then poll() sees the exit.
Exit(p) ==
    /\ proc[p] = "live"
    /\ proc' = [proc EXCEPT ![p] = "eof"]
    /\ UNCHANGED <<session, reader, client>>

Reaped(p) ==
    /\ proc[p] = "eof"
    /\ proc' = [proc EXCEPT ![p] = "dead"]
    /\ UNCHANGED <<session, reader, client>>

\* A second passes since retuned_at.
Age(s) ==
    /\ s \in used /\ recent[s]
    /\ recent' = [recent EXCEPT ![s] = FALSE]
    /\ UNCHANGED <<registered, used, process, status, stop_reader, thread, restart_lock,
                   proc, reader, client>>

-----------------------------------------------------------------------------
(* StreamManager.start                                                     *)

Goto(c, pc) == client' = [client EXCEPT ![c].pc = pc]
Return(c) == client' = [client EXCEPT ![c] = Idle]

StartSpawn(c, s) ==
    /\ client[c].pc = "idle"
    /\ s \in Sessions \ used /\ CanSpawn
    /\ proc' = Spawned(None)
    /\ used' = used \cup {s}
    /\ client' = [client EXCEPT ![c] = [Idle EXCEPT !.pc = "register", !.sess = s, !.new = Newest]]
    /\ UNCHANGED <<registered, process, status, recent, stop_reader, thread, restart_lock, reader>>

StartRegister(c) ==
    LET s == client[c].sess IN
    /\ client[c].pc = "register"
    /\ registered' = registered \cup {s}
    /\ process' = [process EXCEPT ![s] = client[c].new]
    /\ Goto(c, "startreader")
    /\ UNCHANGED <<used, status, recent, stop_reader, thread, restart_lock, proc, reader>>

\* A new Event and _start_reader; a session just created has a new Event anyway.
StartReader(c) ==
    LET s == client[c].sess
        r == client[c].new IN
    /\ client[c].pc = "startreader"
    /\ stop_reader' = [stop_reader EXCEPT ![s] = FALSE]
    /\ thread' = [thread EXCEPT ![s] = r]
    /\ reader' = [x \in DOMAIN reader \cup {r} |->
                    IF x = r THEN [pc |-> "top", sess |-> s, proc |-> None, new |-> None]
                             ELSE reader[x]]
    /\ Return(c)
    /\ UNCHANGED <<registered, used, process, status, recent, restart_lock, proc>>

-----------------------------------------------------------------------------
(* StreamManager.stop                                                      *)

\* _stop_reader up to the join: set the event, look up the thread.
StopReader(s) == stop_reader' = [stop_reader EXCEPT ![s] = TRUE]

StopPop(c, s) ==
    /\ client[c].pc = "idle" /\ s \in registered
    /\ registered' = registered \ {s}
    /\ StopReader(s)
    /\ client' = [client EXCEPT ![c] = [Idle EXCEPT !.pc = "stopjoin", !.sess = s, !.join = thread[s]]]
    /\ UNCHANGED <<used, process, status, recent, thread, restart_lock, proc, reader>>

\* Error: stops the process the reader was started for, which a restart may have
\* replaced.
StopKillFirst(c) ==
    LET s == client[c].sess IN
    /\ client[c].pc = "stopjoin"
    /\ proc' = Killed(thread[s])
    /\ status' = [status EXCEPT ![s] = "stopped"]
    /\ Return(c)
    /\ UNCHANGED <<registered, used, process, recent, stop_reader, thread, restart_lock, reader>>

\* The join returns, the thread ended or not; then stop the process the session
\* has by now.
StopKill(c) ==
    LET s == client[c].sess IN
    /\ client[c].pc = "stopjoin"
    /\ proc' = Killed(process[s])
    /\ status' = [status EXCEPT ![s] = "stopped"]
    /\ Return(c)
    /\ UNCHANGED <<registered, used, process, recent, stop_reader, thread, restart_lock, reader>>

-----------------------------------------------------------------------------
(* StreamManager.retune                                                    *)

RetuneBegin(c, s) ==
    /\ client[c].pc = "idle" /\ s \in registered
    /\ status' = [status EXCEPT ![s] = "retuning"]
    /\ client' = [client EXCEPT ![c] = [Idle EXCEPT !.pc = "tune", !.sess = s]]
    /\ UNCHANGED <<registered, used, process, recent, stop_reader, thread, restart_lock, proc, reader>>

\* backend.retune_stream told the running process; it refuses one poll() knows
\* to be gone.
RetuneLive(c) ==
    LET s == client[c].sess IN
    /\ client[c].pc = "tune" /\ proc[process[s]] # "dead"
    /\ status' = [status EXCEPT ![s] = "running"]
    /\ recent' = [recent EXCEPT ![s] = TRUE]
    /\ Return(c)
    /\ UNCHANGED <<registered, used, process, stop_reader, thread, restart_lock, proc, reader>>

\* Error: the reader thread is told to end, but nobody waits for it.
RetuneColdUnjoined(c) ==
    LET s == client[c].sess IN
    /\ client[c].pc = "tune"
    /\ StopReader(s)
    /\ client' = [client EXCEPT ![c].pc = "rejoin", ![c].old = process[s]]
    /\ UNCHANGED <<registered, used, process, status, recent, thread, restart_lock, proc, reader>>

\* Otherwise the process is replaced: the one the session has now, whatever
\* the reader thread does until the join returns.
RetuneCold(c) ==
    LET s == client[c].sess IN
    /\ client[c].pc = "tune"
    /\ StopReader(s)
    /\ client' = [client EXCEPT ![c].pc = "rejoin", ![c].old = process[s], ![c].join = thread[s]]
    /\ UNCHANGED <<registered, used, process, status, recent, thread, restart_lock, proc, reader>>

RetuneKill(c) ==
    /\ client[c].pc = "rejoin"
    /\ proc' = Killed(client[c].old)
    /\ client' = [client EXCEPT ![c] = [Idle EXCEPT !.pc = "respawn", !.sess = client[c].sess]]
    /\ UNCHANGED <<session, reader>>

RetuneSpawn(c) ==
    /\ client[c].pc = "respawn" /\ CanSpawn
    /\ proc' = Spawned(None)
    /\ client' = [client EXCEPT ![c].pc = "reinstall", ![c].new = Newest]
    /\ UNCHANGED <<session, reader>>

RetuneFails(c) ==
    /\ client[c].pc = "respawn"
    /\ status' = [status EXCEPT ![client[c].sess] = "stopped"]
    /\ Return(c)
    /\ UNCHANGED <<registered, used, process, recent, stop_reader, thread, restart_lock, proc, reader>>

RetuneInstall(c) ==
    LET s == client[c].sess IN
    /\ client[c].pc = "reinstall"
    /\ process' = [process EXCEPT ![s] = client[c].new]
    /\ status' = [status EXCEPT ![s] = "running"]
    /\ recent' = [recent EXCEPT ![s] = TRUE]
    /\ Goto(c, "startreader")
    /\ UNCHANGED <<registered, used, stop_reader, thread, restart_lock, proc, reader>>

-----------------------------------------------------------------------------
(* _reader_loop                                                            *)

\* The thread goes on at pc with the processes p and n in its local variables;
\* what it does not need any more is forgotten.
ReaderAt(r, pc, p, n) ==
    reader' = [reader EXCEPT ![r] = [pc |-> pc, sess |-> reader[r].sess, proc |-> p, new |-> n]]
ReaderGoto(r, pc) == ReaderAt(r, pc, None, None)

\* Error: the loop looks only at the event the session holds.
MustEndIfTold(s) == stop_reader[s]

MustEnd(s) == stop_reader[s] \/ s \notin registered

\* The head of the loop, up to the blocking read of the current process's pipe.
ReaderTop(r) ==
    LET s == reader[r].sess IN
    /\ reader[r].pc = "top"
    /\ IF MustEnd(s) THEN ReaderGoto(r, "finish") ELSE ReaderAt(r, "reading", process[s], None)
    /\ UNCHANGED <<session, proc, client>>

ReaderData(r) ==
    /\ reader[r].pc = "reading" /\ proc[reader[r].proc] = "live"
    /\ ReaderGoto(r, "top")
    /\ UNCHANGED <<session, proc, client>>

ReaderEof(r) ==
    /\ reader[r].pc = "reading" /\ proc[reader[r].proc] # "live"
    /\ ReaderGoto(r, "eof")
    /\ UNCHANGED <<session, proc, client>>

\* After an empty read: end, wait out a retune, restart the failed process of
\* the session, or (the pipe is closed but poll() still says None) give up.
AfterEof(r) ==
    LET s == reader[r].sess IN
    CASE MustEnd(s) -> "finish"
      [] ~MustEnd(s) /\ (status[s] = "retuning" \/ recent[s]) -> "top"
      [] OTHER -> IF proc[process[s]] = "dead" THEN "restart" ELSE "finish"

ReaderDecide(r) ==
    /\ reader[r].pc = "eof"
    /\ ReaderAt(r, AfterEof(r), IF AfterEof(r) = "restart" THEN process[reader[r].sess] ELSE None,
                None)
    /\ UNCHANGED <<session, proc, client>>

\* Error: the status is left alone.
ReaderFinishSilently(r) ==
    /\ reader[r].pc = "finish"
    /\ ReaderGoto(r, "done")
    /\ UNCHANGED <<session, proc, client>>

\* The end of the loop, under session.condition.
ReaderFinish(r) ==
    LET s == reader[r].sess IN
    /\ reader[r].pc = "finish"
    /\ status' = [status EXCEPT ![s] = IF @ = "running" /\ ~MustEnd(s) THEN "stopped" ELSE @]
    /\ ReaderGoto(r, "done")
    /\ UNCHANGED <<registered, used, process, recent, stop_reader, thread, restart_lock, proc, client>>

-----------------------------------------------------------------------------
(* _restart_stream, called with the process the reader found dead          *)

\* Error: the process is not compared with the one found dead.
StillRunning(r) == status[reader[r].sess] = "running"

StillFailed(r) == status[reader[r].sess] = "running" /\ process[reader[r].sess] = reader[r].proc

RestartEnter(r) ==
    LET s == reader[r].sess
        proceed == s \in registered /\ StillFailed(r) IN
    /\ reader[r].pc = "restart" /\ restart_lock[s] = None
    /\ CASE proceed -> ReaderAt(r, "spawn", reader[r].proc, None)
         [] ~proceed /\ s \in registered /\ status[s] = "running" -> ReaderGoto(r, "top")
         [] OTHER -> ReaderGoto(r, "finish")
    /\ restart_lock' = [restart_lock EXCEPT ![s] = IF proceed THEN r ELSE None]
    /\ UNCHANGED <<registered, used, process, status, recent, stop_reader, thread, proc, client>>

RestartSpawn(r) ==
    /\ reader[r].pc = "spawn" /\ CanSpawn
    /\ proc' = Spawned(reader[r].proc)
    /\ ReaderAt(r, "install", reader[r].proc, Newest)
    /\ UNCHANGED <<session, client>>

RestartFails(r) ==
    /\ reader[r].pc = "spawn"
    /\ proc' = Killed(reader[r].proc)
    /\ ReaderGoto(r, "finish")
    /\ restart_lock' = [restart_lock EXCEPT ![reader[r].sess] = None]
    /\ UNCHANGED <<registered, used, process, status, recent, stop_reader, thread, client>>

RestartInstall(r) ==
    LET s == reader[r].sess IN
    /\ reader[r].pc = "install"
    /\ process' = [process EXCEPT ![s] = reader[r].new]
    /\ recent' = [recent EXCEPT ![s] = TRUE]
    /\ restart_lock' = [restart_lock EXCEPT ![s] = None]
    /\ ReaderGoto(r, "top")
    /\ UNCHANGED <<registered, used, status, stop_reader, thread, proc, client>>

-----------------------------------------------------------------------------
ClientStep(c) ==
    \/ StartRegister(c) \/ StartReader(c)
    \/ StopKill(c)
    \/ RetuneLive(c) \/ RetuneCold(c) \/ RetuneKill(c)
    \/ RetuneSpawn(c) \/ RetuneFails(c) \/ RetuneInstall(c)

ClientRequest(c) ==
    \E s \in Sessions : StartSpawn(c, s) \/ StopPop(c, s) \/ RetuneBegin(c, s)

ReaderStep(r) ==
    \/ ReaderTop(r) \/ ReaderData(r) \/ ReaderEof(r) \/ ReaderDecide(r) \/ ReaderFinish(r)
    \/ RestartEnter(r) \/ RestartSpawn(r) \/ RestartFails(r) \/ RestartInstall(r)

CodeStep ==
    \/ \E c \in Clients : ClientRequest(c) \/ ClientStep(c)
    \/ \E r \in DOMAIN reader : ReaderStep(r)
    \/ \E p \in Started : Exit(p) \/ Reaped(p)
    \/ \E s \in Sessions : Age(s)

-----------------------------------------------------------------------------
(* History                                                                 *)

\* A join of r returns in this step though r has not ended.
GivesUp(r) ==
    /\ reader[r].pc # "done"
    /\ \E c \in Clients : /\ client[c].pc \in {"stopjoin", "rejoin"} /\ client[c].join = r
                          /\ client'[c].pc # client[c].pc

\* A retune of s begins in this step while its start or another retune is under way.
Overlaps(s) ==
    /\ \E c \in Clients : client[c].sess = s /\ client[c].pc # "stopjoin"
    /\ \E c \in Clients : /\ client[c].pc = "idle" /\ client'[c].pc = "tune"
                          /\ client'[c].sess = s

\* A restart starts the process that replaces p in this step.
Restarts(r, p) == reader[r].pc = "spawn" /\ reader'[r].pc = "install" /\ reader[r].proc = p

Remember ==
    /\ given_up' = {r \in DOMAIN reader : reader'[r].pc # "done" /\ (r \in given_up \/ GivesUp(r))}
    /\ overlapped' = overlapped \cup {s \in Sessions : Overlaps(s)}
    /\ restarted' = restarted \cup {p \in Started : \E r \in DOMAIN reader : Restarts(r, p)}

\* A request begins in this step.
Begins == \E c \in Clients : client[c].pc = "idle" /\ client'[c].pc # "idle"

Count ==
    /\ Begins => requests + Cardinality(Started') < MaxWork
    /\ requests' = requests + (IF Begins THEN 1 ELSE 0)

Next == CodeStep /\ Count /\ Remember

Spec == Init /\ [][Next]_vars

\* Threads run, an exited process is reaped, time passes, and a live SDR
\* process delivers samples.  Nobody has to make a request.
Fairness ==
    /\ \A c \in Clients : WF_code(ClientStep(c))
    /\ \A r \in Procs : WF_code(r \in DOMAIN reader /\ ReaderStep(r))
    /\ WF_code(\E p \in Started : Reaped(p))
    /\ \A s \in Sessions : WF_code(Age(s))

FairSpec == Spec /\ Fairness

-----------------------------------------------------------------------------
(* Properties                                                              *)

Running(p) == proc[p] # "dead"

\* Somebody will still stop p or hand it to a session: it is the process of a
\* registered session, or a request or a restart under way has it in hand.
Owned(p) ==
    \/ \E s \in registered : process[s] = p
    \/ \E c \in Clients :
          \/ client[c].pc \in {"register", "reinstall"} /\ client[c].new = p
          \/ client[c].pc = "rejoin" /\ client[c].old = p
          \/ client[c].pc = "stopjoin" /\ process[client[c].sess] = p
    \/ \E r \in DOMAIN reader : reader[r].pc = "install" /\ reader[r].new = p

Orphans == {p \in Started : Running(p) /\ ~Owned(p)}

HasReader(s) == \E r \in DOMAIN reader : reader[r].sess = s /\ reader[r].pc # "done"
Watched(s) == HasReader(s) /\ ~stop_reader[s]

\* Sessions that say "running", with no request under way, and with nobody who
\* reads the samples or with readers that have been told to end.
Unread ==
    {s \in registered : /\ status[s] = "running"
                        /\ ~Watched(s)
                        /\ \A c \in Clients : client[c].sess # s}

\* c's retune writes its process over p, or puts p into a session stopped meanwhile.
RetuneLoses(c, p) ==
    /\ client[c].pc = "reinstall" /\ client'[c].pc = "startreader"
    /\ \/ p = process[client[c].sess]
       \/ p = client[c].new /\ client[c].sess \notin registered

\* r's restart does the same, after a join gave up on r or retunes overlapped.
RestartLoses(r, p) ==
    /\ reader[r].pc = "install" /\ reader'[r].pc = "top"
    /\ r \in given_up \/ reader[r].sess \in overlapped
    /\ \/ p = process[reader[r].sess]
       \/ p = reader[r].new /\ reader[r].sess \notin registered

\* What nobody looks after any more got so in one of three ways.  A running
\* process gets out of the reach of stop() and stop_all() when a retune writes
\* another one over it in session.process or puts it into a session stopped
\* meanwhile (the process to stop is looked up before the join, services.py
\* 1095); or when a restart does so, which it can only do after the one second
\* of a join of its thread ran out (1166) or two retunes crossed.  A session
\* stays "running" with nobody reading it only when a retune told a process
\* whose reader had ended or been told to.  No other step, of whichever
\* interleaving of starts, stops, failures and timed-out joins, neglects anything.
NeglectOnlyByInstall ==
    [][/\ \A p \in Orphans' \ Orphans :
              \/ \E c \in Clients : RetuneLoses(c, p)
              \/ \E r \in DOMAIN reader : RestartLoses(r, p)
       /\ \A s \in Unread' \ Unread : \E c \in Clients :
              client[c].pc = "tune" /\ client[c].sess = s /\ client'[c].pc = "idle"]_vars

\* Of the reader threads that work for a session at most one is one no join
\* has given up on, unless retunes of the session overlapped: a timed-out join
\* leaves behind that one reader, which a fresh Event then lets go on, and
\* neither restarts, failures, stops nor the next retune make it more.
SingleReader ==
    \A r1, r2 \in DOMAIN reader :
        /\ reader[r1].sess = reader[r2].sess /\ r1 # r2
        /\ reader[r1].sess \notin overlapped
        => \/ reader[r1].pc = "done" \/ reader[r2].pc = "done"
           \/ r1 \in given_up \/ r2 \in given_up

Safe == TypeOK /\ SingleReader

\* No failed process is replaced by two restarts, also when two readers of the
\* session have found it dead, retunes replace processes and stops take the
\* session away meanwhile.
RestartedOnce ==
    [][\A r \in DOMAIN reader, p \in Started : Restarts(r, p) => p \notin restarted]_vars

\* The reader threads of a session that has been stopped end, also one that a
\* stop or a retune gave up on, or that a retune started afterwards.
ReadersEnd == \A s \in Sessions : s \notin registered ~> ~HasReader(s)

\* A session does not stay "running" with a dead process for ever as long as a
\* reader not told to end is there to see it: the process is replaced by a live
\* one, or the status changes, or the session is stopped.
FailureNoticed ==
    \A s \in Sessions :
        (s \in registered /\ ~Running(process[s]) /\ Watched(s))
            ~> (s \notin registered \/ Running(process[s]) \/ status[s] = "stopped")
=============================================================================
