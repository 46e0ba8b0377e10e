---------------------------- MODULE WiFiMonitor ----------------------------
(***************************************************************************)
(* The WiFi captures of WiFiMonitorManager (src/app/services.py) on one    *)
(* interface: requests that start, stop and list sessions, and for each    *)
(* session a collector thread that reads its capture process and restarts  *)
(* it, and a thread that scans actively every now and then, for which it   *)
(* takes the capture away and the interface out of monitor mode.           *)
(*                                                                         *)
(* The blocks under session.lock are atomic.  Captures are tcpdump or      *)
(* tshark processes, numbered in the order of creation.  Channel hopping   *)
(* only tunes the interface, under control_lock, and is left out.          *)
(***************************************************************************)
EXTENDS Integers, FiniteSets

CONSTANTS
    Sessions,       \* scan ids; each is used once
    Clients,        \* request threads
    Ops,            \* the requests they make, among "start", "stop", "list"
    Scans,          \* the sessions whose configuration asks for active_scan
    MaxProcs,       \* bound on the captures ever started
    None

ASSUME WiFiAssumption ==
    /\ Ops \subseteq {"start", "stop", "list"}
    /\ Scans \subseteq Sessions
    /\ MaxProcs \in Nat
    /\ Sessions \cap Clients = {}
    /\ None \notin Sessions \cup Int

VARIABLES
    listed,         \* the keys of _sessions
    used,           \* the ids given so far
    process,        \* session -> its capture, or None
    status,
    stopping,       \* session -> its _stop event is set
    mode,           \* of the interface
    proc,           \* capture -> "live" or "dead"
    thread,         \* request threads, and collectors by the name of their session
    scanner         \* session -> where its active scan thread is

sessions == <<listed, used, process, status, stopping>>
vars == <<sessions, mode, proc, thread, scanner>>

Procs == 1 .. MaxProcs
Started == DOMAIN proc
Threads == Clients \cup Sessions

Pcs == {"idle", "replace", "kill", "register", "capture", "threads",
        "top", "reading", "eof", "done", "refresh", "polled", "recapture"}
Idle == [pc |-> "idle", sess |-> None, start |-> None, proc |-> None, todo |-> {}, size |-> 0]

TypeOK ==
    /\ listed \subseteq used /\ used \subseteq Sessions
    /\ process \in [Sessions -> Procs \cup {None}]
    /\ status \in [Sessions -> {"running", "failed", "stopped"}]
    /\ stopping \in [Sessions -> BOOLEAN]
    /\ mode \in {"monitor", "managed"}
    /\ \E n \in 0 .. MaxProcs : proc \in [1 .. n -> {"live", "dead"}]
    /\ thread \in [Threads -> [pc : Pcs, sess : Sessions \cup {None}, start : Sessions \cup {None},
                               proc : Procs \cup {None}, todo : SUBSET Sessions,
                               size : Nat]]
    /\ \A t \in Threads : thread[t].pc \in {"reading", "polled"} => thread[t].proc \in Started
    /\ scanner \in [Sessions -> {"none", "waiting", "taken", "finally", "resume", "done"}]

Init ==
    /\ listed = {} /\ used = {}
    /\ process = [s \in Sessions |-> None]
    /\ status = [s \in Sessions |-> "running"]
    /\ stopping = [s \in Sessions |-> FALSE]
    /\ mode = "managed"
    /\ proc = [p \in {} |-> "live"]
    /\ thread = [t \in Threads |-> Idle]
    /\ scanner = [s \in Sessions |-> "none"]

Goto(t, pc) == thread' = [thread EXCEPT ![t].pc = pc]

\* A request returns; a collector thread ends.
Finish(t) == thread' = [thread EXCEPT ![t] = IF t \in Clients THEN Idle ELSE [Idle EXCEPT !.pc = "done"]]

-----------------------------------------------------------------------------
(* _start_capture and _terminate                                           *)

Newest == Cardinality(Started) + 1
Spawn == Newest \in Procs /\ proc' = [p \in Started \cup {Newest} |->
                                        IF p = Newest THEN "live" ELSE proc[p]]
Install(s) == Spawn /\ process' = [process EXCEPT ![s] = Newest]

\* The capture of s is terminated and forgotten, in one hold of the lock.
Take(s) ==
    /\ proc' = [p \in Started |-> IF p = process[s] THEN "dead" ELSE proc[p]]
    /\ process' = [process EXCEPT ![s] = None]

Exit(p) ==
    /\ proc[p] = "live"
    /\ proc' = [proc EXCEPT ![p] = "dead"]
    /\ UNCHANGED <<sessions, mode, thread, scanner>>

-----------------------------------------------------------------------------
(* stop                                                                    *)

\* Error: the event is not set.
PopQuietly(s) == listed' = listed \ {s} /\ stopping' = stopping

Pop(s) == listed' = listed \ {s} /\ stopping' = [stopping EXCEPT ![s] = TRUE]

Stop(c, s) ==
    /\ thread[c].pc = "idle" /\ "stop" \in Ops /\ s \in listed
    /\ Pop(s)
    /\ thread' = [thread EXCEPT ![c] = [Idle EXCEPT !.pc = "kill", !.sess = s]]
    /\ UNCHANGED <<used, process, status, mode, proc, scanner>>

Kill(c) ==
    LET s == thread[c].sess IN
    /\ thread[c].pc = "kill"
    /\ Take(s)
    /\ status' = [status EXCEPT ![s] = "stopped"]
    /\ IF thread[c].start = None THEN Finish(c) ELSE Goto(c, "replace")
    /\ UNCHANGED <<listed, used, stopping, mode, scanner>>

-----------------------------------------------------------------------------
(* start                                                                   *)

\* An interface in use is refused unless the request replaces its sessions.
Start(c, s, replace_existing) ==
    /\ thread[c].pc = "idle" /\ "start" \in Ops /\ s \in Sessions \ used
    /\ listed = {} \/ replace_existing
    /\ used' = used \cup {s}
    /\ thread' = [thread EXCEPT ![c] = [Idle EXCEPT !.pc = "replace", !.start = s, !.todo = listed]]
    /\ UNCHANGED <<listed, process, status, stopping, mode, proc, scanner>>

Replace(c) ==
    /\ thread[c].pc = "replace"
    /\ \E s \in thread[c].todo \cap listed :
          /\ Pop(s)
          /\ thread' = [thread EXCEPT ![c].pc = "kill", ![c].sess = s, ![c].todo = @ \ {s}]
    /\ UNCHANGED <<used, process, status, mode, proc, scanner>>

\* Somebody else stopped a session that was to be replaced (KeyError), or the
\* interface cannot be prepared.
StartFails(c) ==
    /\ thread[c].pc = "replace"
    /\ thread[c].todo \subseteq listed => thread[c].todo = {}
    /\ Finish(c)
    /\ UNCHANGED <<sessions, mode, proc, scanner>>

PrepareMonitor(c) ==
    /\ thread[c].pc = "replace" /\ thread[c].todo = {}
    /\ mode' = "monitor"
    /\ Goto(c, "register")
    /\ UNCHANGED <<sessions, proc, scanner>>

Register(c) ==
    /\ thread[c].pc = "register"
    /\ listed' = listed \cup {thread[c].start}
    /\ Goto(c, "capture")
    /\ UNCHANGED <<used, process, status, stopping, mode, proc, scanner>>

Capture(c) ==
    /\ thread[c].pc = "capture"
    /\ Install(thread[c].start)
    /\ Goto(c, "threads")
    /\ UNCHANGED <<listed, used, status, stopping, mode, scanner>>

\* The session stays listed.
CaptureFails(c) ==
    /\ thread[c].pc = "capture"
    /\ Finish(c)
    /\ UNCHANGED <<sessions, mode, proc, scanner>>

StartThreads(c) ==
    LET s == thread[c].start IN
    /\ thread[c].pc = "threads"
    /\ thread' = [thread EXCEPT ![c] = Idle, ![s].pc = "top"]
    /\ scanner' = [scanner EXCEPT ![s] = IF s \in Scans THEN "waiting" ELSE "none"]
    /\ UNCHANGED <<sessions, mode, proc>>

-----------------------------------------------------------------------------
(* _refresh, by a request that lists or looks up sessions and by every     *)
(* collector at its end                                                    *)

Refreshing(t) == [Idle EXCEPT !.pc = "refresh", !.todo = listed, !.size = Cardinality(listed)]

List(c) ==
    /\ thread[c].pc = "idle" /\ "list" \in Ops
    /\ thread' = [thread EXCEPT ![c] = Refreshing(c)]
    /\ UNCHANGED <<sessions, mode, proc, scanner>>

\* The loop walks the dict itself: RuntimeError when its size changes.
RefreshEnds(t) ==
    /\ thread[t].pc = "refresh"
    /\ thread[t].todo = {} \/ Cardinality(listed) # thread[t].size
    /\ Finish(t)
    /\ UNCHANGED <<sessions, mode, proc, scanner>>

\* Error: a session may have no capture.
RunningOnly(s) == status[s] = "running"

Watched(s) == status[s] = "running" /\ process[s] # None

RefreshLook(t) ==
    /\ thread[t].pc = "refresh" /\ Cardinality(listed) = thread[t].size
    /\ \E s \in thread[t].todo :
          thread' = [thread EXCEPT ![t].pc = IF Watched(s) THEN "polled" ELSE "refresh",
                                   ![t].sess = s, ![t].proc = process[s], ![t].todo = @ \ {s}]
    /\ UNCHANGED <<sessions, mode, proc, scanner>>

RefreshPoll(t) ==
    LET restart == proc[thread[t].proc] = "dead" /\ ~stopping[thread[t].sess] IN
    /\ thread[t].pc = "polled"
    /\ Goto(t, IF restart THEN "recapture" ELSE "refresh")
    /\ UNCHANGED <<sessions, mode, proc, scanner>>

\* Nothing is looked at again once the lock is held.
Recapture(t) ==
    /\ thread[t].pc = "recapture"
    /\ Install(thread[t].sess)
    /\ Goto(t, "refresh")
    /\ UNCHANGED <<listed, used, status, stopping, mode, scanner>>

RecaptureFails(t) ==
    /\ thread[t].pc = "recapture"
    /\ status' = [status EXCEPT ![thread[t].sess] = "failed"]
    /\ Goto(t, "refresh")
    /\ UNCHANGED <<listed, used, process, stopping, mode, proc, scanner>>

-----------------------------------------------------------------------------
(* _collect_events                                                         *)

Collect(s) ==
    /\ thread[s].pc = "top" /\ ~stopping[s] /\ process[s] # None
    /\ thread' = [thread EXCEPT ![s].pc = "reading", ![s].proc = process[s]]
    /\ UNCHANGED <<sessions, mode, proc, scanner>>

CollectEnds(s) ==
    /\ thread[s].pc = "top" /\ stopping[s]
    /\ thread' = [thread EXCEPT ![s] = Refreshing(s)]
    /\ UNCHANGED <<sessions, mode, proc, scanner>>

CollectLine(s) ==
    /\ thread[s].pc = "reading"
    /\ Goto(s, IF proc[thread[s].proc] = "live" THEN "top" ELSE "eof")
    /\ UNCHANGED <<sessions, mode, proc, scanner>>

\* Error: a restart without looking whether the capture was taken meanwhile.
AnyCapture(s) == TRUE

\* session.process is process
SameCapture(s) == process[s] = thread[s].proc

\* Error: the end of the capture is ignored.
CollectIgnores(s) ==
    /\ thread[s].pc = "eof" /\ SameCapture(s)
    /\ Goto(s, "top")
    /\ UNCHANGED <<sessions, mode, proc, scanner>>

CollectRestart(s) ==
    /\ thread[s].pc = "eof" /\ SameCapture(s)
    /\ Install(s)
    /\ Goto(s, "top")
    /\ UNCHANGED <<listed, used, status, stopping, mode, scanner>>

CollectRestartFails(s) ==
    /\ thread[s].pc = "eof" /\ SameCapture(s)
    /\ status' = [status EXCEPT ![s] = "failed"]
    /\ thread' = [thread EXCEPT ![s] = Refreshing(s)]
    /\ UNCHANGED <<listed, used, process, stopping, mode, proc, scanner>>

CollectAgain(s) ==
    /\ thread[s].pc = "eof" /\ ~SameCapture(s)
    /\ Goto(s, "top")
    /\ UNCHANGED <<sessions, mode, proc, scanner>>

-----------------------------------------------------------------------------
(* _active_scan_loop and _run_active_scan                                  *)

ScanGoto(s, pc) == scanner' = [scanner EXCEPT ![s] = pc]

ScanTakes(s) ==
    /\ scanner[s] = "waiting" /\ ~stopping[s]
    /\ Take(s)
    /\ ScanGoto(s, "taken")
    /\ UNCHANGED <<listed, used, status, stopping, mode, thread>>

\* Leaving monitor mode and the scan itself; either may fail.
Scan(s) ==
    /\ scanner[s] = "taken"
    /\ mode' \in {mode, "managed"}
    /\ ScanGoto(s, "finally")
    /\ UNCHANGED <<sessions, proc, thread>>

ScanRestores(s) ==
    /\ scanner[s] = "finally" /\ ~stopping[s]
    /\ mode' \in {mode, "monitor"}
    /\ ScanGoto(s, "resume")
    /\ UNCHANGED <<sessions, proc, thread>>

ScanResumes(s) ==
    /\ scanner[s] = "resume" /\ ~stopping[s]
    /\ Install(s)
    /\ ScanGoto(s, "waiting")
    /\ UNCHANGED <<listed, used, status, stopping, mode, thread>>

\* The session was stopped, or the capture does not start again and the
\* exception ends the thread.
ScanEnds(s) ==
    /\ \/ scanner[s] \in {"waiting", "finally", "resume"} /\ stopping[s]
       \/ scanner[s] = "resume"
    /\ ScanGoto(s, "done")
    /\ UNCHANGED <<sessions, mode, proc, thread>>

-----------------------------------------------------------------------------
Request(c) ==
    \/ List(c)
    \/ \E s \in Sessions : Stop(c, s) \/ \E replace_existing \in BOOLEAN : Start(c, s, replace_existing)

ThreadStep(t) ==
    \/ Kill(t) \/ Replace(t) \/ StartFails(t) \/ PrepareMonitor(t) \/ Register(t)
    \/ Capture(t) \/ CaptureFails(t) \/ StartThreads(t)
    \/ RefreshEnds(t) \/ RefreshLook(t) \/ RefreshPoll(t) \/ Recapture(t) \/ RecaptureFails(t)

CollectorStep(s) ==
    \/ Collect(s) \/ CollectEnds(s) \/ CollectLine(s)
    \/ CollectRestart(s) \/ CollectRestartFails(s) \/ CollectAgain(s)

ScannerStep(s) ==
    ScanTakes(s) \/ Scan(s) \/ ScanRestores(s) \/ ScanResumes(s) \/ ScanEnds(s)

Next ==
    \/ \E c \in Clients : Request(c)
    \/ \E t \in Threads : ThreadStep(t)
    \/ \E s \in Sessions : CollectorStep(s) \/ ScannerStep(s)
    \/ \E p \in Started : Exit(p)

Spec == Init /\ [][Next]_vars

\* Threads run, and a capture writes lines while it lives.
FairSpec ==
    /\ Spec
    /\ \A t \in Threads : WF_vars(ThreadStep(t))
    /\ \A s \in Sessions : WF_vars(CollectorStep(s)) /\ WF_vars(ScannerStep(s))

-----------------------------------------------------------------------------
(* Properties                                                              *)

\* A capture is in somebody's hands: of a listed session, of one whose stop is
\* about to terminate it, or of one whose start is under way.
Held(s) == s \in listed \/ \E c \in Clients : thread[c].pc = "kill" /\ thread[c].sess = s
Orphans == {p \in Started : proc[p] = "live" /\ \A s \in Sessions : process[s] = p => ~Held(s)}

\* An active scan has the radio for itself, from the moment it took the capture
\* until it starts the next one.
Disturbed == {s \in Sessions : scanner[s] \in {"taken", "finally", "resume"} /\ process[s] # None}

\* The two places that start a capture without looking again whether the session
\* is stopped or scans: _refresh and start.
Unchecked ==
    \E t \in Threads :
        \/ thread[t].pc = "recapture" /\ thread'[t].pc = "refresh"
        \/ thread[t].pc = "capture" /\ thread'[t].pc = "threads"

\* No capture gets out of the reach of stop() and stop_all(), and none disturbs
\* an active scan, unless _refresh or start just started one unchecked, or had
\* started the very capture that the scan's end then writes over: the collector
\* and the scan thread, which look again under session.lock, never do it by
\* themselves, however they interleave with stops, replacements and failures.
OnlyUncheckedStartsHarm ==
    [][ \/ Unchecked
        \/ /\ Disturbed' \subseteq Disturbed
           /\ Orphans' \subseteq Orphans \cup {process[s] : s \in Disturbed} ]_vars

\* A stopped session's threads end.
ThreadsEnd ==
    \A s \in Sessions :
        (status[s] = "stopped") ~> (thread[s].pc \in {"idle", "done"} /\ scanner[s] \in {"none", "done"})

\* A capture that ended is replaced, or the session fails or is stopped.
Dead(s) == process[s] \in Started /\ proc[process[s]] = "dead"
DeadCaptureNoticed ==
    \A s \in Sessions :
        (Dead(s) /\ thread[s].pc # "idle") ~> (~Dead(s) \/ status[s] # "running" \/ stopping[s])
=============================================================================
