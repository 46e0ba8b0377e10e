------------------------------ MODULE Viewers ------------------------------
(***************************************************************************)
(* Who reads a stream and who ends it: the websocket handlers iq_stream    *)
(* and iq_sweep_stream and the chunk route of src/app/main.py, the probe,  *)
(* and the IQ sweep that IQSweepManager (src/app/services.py) runs on a    *)
(* stream of its own, hopping when a reader finds the dwell time over.     *)
(*                                                                         *)
(* Handlers are coroutines: they run on one event loop and give it away    *)
(* only at an await.  A retune or a stop called by a handler blocks the    *)
(* loop (`loop` names the handler), but not the threads that serve the     *)
(* stop routes, the reads and the stream's reader.  There is one stream    *)
(* and one sweep.  A read takes one chunk (StreamBuffer joins them and     *)
(* evicts), and a cold retune joins the reader thread (StreamManager says  *)
(* what happens when it does not).                                         *)
(***************************************************************************)
EXTENDS Integers, Sequences, FiniteSets

CONSTANTS
    Handlers,       \* requests and websockets, each used once
    Roles,          \* what they are, among AllRoles
    Backends,       \* "plain" ones have no start_iq_sweep, as in the tests, and
                    \* "stub" ones inherit that of SDRBackend, as all but HackRF's
    Points,         \* number of centre frequencies of the sweep
    Captures,       \* capture_count of the probe
    MaxHeld,        \* chunks the ring holds
    None

Async == {"ws", "sweep_ws", "sweep_get", "probe"}
AllRoles == Async \cup {"stop", "sweep_stop"}

ASSUME ViewersAssumption ==
    /\ Roles \subseteq AllRoles /\ Backends \subseteq {"plain", "stub"}
    /\ Points \in Nat \ {0} /\ Captures \in Nat \ {0} /\ MaxHeld \in Nat \ {0}
    /\ None \notin Int /\ None \notin Handlers
    \* The cursors of websockets are uuids.
    /\ {"sweep", "_default"} \cap Handlers = {}

VARIABLES
    stream,         \* the session and its process, tuned to a centre
    ring, cursors,  \* its chunks, and cursor -> how many of them it has passed
    sweep,          \* the IQSweepSession
    handler,        \* handler -> where it is and its local variables
    loop            \* the handler that blocks the event loop, or None

viewerVars == <<stream, ring, cursors, sweep, handler, loop>>

Chunk == [center : 0 .. Points - 1, stale : BOOLEAN]
Owner == Handlers \cup {"sweep", "_default"}

StreamSession == [state : {"none", "registered", "gone"}, alive : BOOLEAN,
                  status : {"running", "retuning", "stopped"},
                  tuned : 0 .. Points - 1, pipe : 0 .. Points - 1,
                  crossed : BOOLEAN]    \* history: started again by a retune when it was gone

SweepSession == [state : {"none", "starting", "listed", "gone"}, hops : BOOLEAN,
                 status : {"running", "retuning", "stopped"}, point_index : 0 .. Points - 1]

\* A request or a websocket, the chunk it has read and what a probe has left.
Visit == [role : Roles \cup {None}, keep : BOOLEAN,
          pc : {"idle", "accept", "refused", "call", "tune", "read", "resume", "leave", "stop",
                "end", "done"},
          chunk : Chunk \cup {None}, left : 0 .. Captures, overtaken : BOOLEAN]

Unused == [role |-> None, keep |-> FALSE, pc |-> "idle", chunk |-> None, left |-> Captures,
         overtaken |-> FALSE]

Registered == stream.state = "registered"
Live == stream.status \in {"running", "retuning"}

ViewersTypeOK ==
    /\ stream \in StreamSession /\ sweep \in SweepSession
    /\ ring \in Seq(Chunk) /\ Len(ring) <= MaxHeld
    /\ \E C \in SUBSET Owner : cursors \in [C -> 0 .. Len(ring)]
    /\ handler \in [Handlers -> Visit]
    /\ loop \in Handlers \cup {None}
    /\ loop # None => handler[loop].pc \in {"tune", "stop", "end"}

ViewersInit ==
    /\ stream = [state |-> "none", alive |-> FALSE, status |-> "running", tuned |-> 0, pipe |-> 0,
                 crossed |-> FALSE]
    /\ ring = <<>> /\ cursors = [c \in {} |-> 0]
    /\ sweep = [state |-> "none", hops |-> FALSE, status |-> "running", point_index |-> 0]
    /\ handler = [h \in Handlers |-> Unused]
    /\ loop = None

\* h may run: a coroutine needs the event loop, a thread does not.
Runs(h, pc) == handler[h].pc = pc /\ (handler[h].role \in Async => loop \in {None, h})

Goto(h, pc) == handler' = [handler EXCEPT ![h].pc = pc]
BlockLoop(h) == loop' = IF handler[h].role \in Async THEN h ELSE loop
FreeLoop(h) == loop' = IF loop = h THEN None ELSE loop

With(owner, position) ==
    [c \in DOMAIN cursors \cup {owner} |-> IF c = owner THEN position ELSE cursors[c]]

-----------------------------------------------------------------------------
(* The start of the stream, by a start route, by the sweep or by a probe   *)

Started == [stream EXCEPT !.state = "registered", !.alive = TRUE]

StartStream ==
    /\ stream.state = "none"
    /\ stream' = Started
    /\ UNCHANGED <<ring, cursors, sweep, handler, loop>>

\* IQSweepManager.start on the stream.
StartSweep ==
    /\ "plain" \in Backends /\ sweep.state = "none" /\ stream.state = "none"
    /\ stream' = Started
    /\ sweep' = [sweep EXCEPT !.state = "starting", !.hops = TRUE]
    /\ UNCHANGED <<ring, cursors, handler, loop>>

\* create_cursor raises when the stream is already stopped again.
ListSweep ==
    /\ sweep.state = "starting"
    /\ sweep' = [sweep EXCEPT !.state = IF Registered THEN "listed" ELSE "gone"]
    /\ cursors' = IF Registered THEN With("sweep", 0) ELSE cursors
    /\ UNCHANGED <<stream, ring, handler, loop>>

\* The stub returns None, and the session counts as a native one.
StartNativeSweep ==
    /\ "stub" \in Backends /\ sweep.state = "none"
    /\ sweep' = [sweep EXCEPT !.state = "listed"]
    /\ UNCHANGED <<stream, ring, cursors, handler, loop>>

Enter(h, role, pc, keep) ==
    /\ handler[h].pc = "idle" /\ role \in Roles /\ (role \in Async => loop = None)
    /\ handler' = [handler EXCEPT ![h].role = role, ![h].pc = pc, ![h].keep = keep]

ProbeBegins(h) ==
    /\ stream.state = "none" /\ Enter(h, "probe", "read", FALSE)
    /\ stream' = Started
    /\ UNCHANGED <<ring, cursors, sweep, loop>>

-----------------------------------------------------------------------------
(* Coming in                                                               *)

\* iq_stream: get, create_cursor.
Connect(h, keep) ==
    /\ Registered /\ Enter(h, "ws", "accept", keep)
    /\ \E start \in {0, Len(ring)} : cursors' = With(h, start)
    /\ UNCHANGED <<stream, ring, sweep, loop>>

ConnectSweep(h, keep) ==
    /\ sweep.state = "listed" /\ Enter(h, "sweep_ws", "accept", keep)
    /\ UNCHANGED <<stream, ring, cursors, sweep, loop>>

Accept(h) ==
    /\ Runs(h, "accept")
    /\ Goto(h, IF handler[h].role = "ws" THEN "read" ELSE "call")
    /\ UNCHANGED <<stream, ring, cursors, sweep, loop>>

\* The peer is gone before the handshake: accept raises, outside of the try.
AcceptFails(h) ==
    /\ Runs(h, "accept")
    /\ Goto(h, "refused")
    /\ UNCHANGED <<stream, ring, cursors, sweep, loop>>

\* The chunk route and the stop routes.
SendRequest(h) ==
    /\ \/ sweep.state = "listed" /\ Enter(h, "sweep_get", "call", FALSE)
       \/ sweep.state = "listed" /\ Enter(h, "sweep_stop", "leave", FALSE)
       \/ Registered /\ Enter(h, "stop", "leave", FALSE)
    /\ UNCHANGED <<stream, ring, cursors, sweep, loop>>

-----------------------------------------------------------------------------
(* IQSweepManager.read_chunk and _advance, StreamManager.retune            *)

\* A KeyError leaves the websocket's loop, or answers the request.
CallMissed(h) ==
    /\ Runs(h, "call") /\ sweep.state # "listed"
    /\ Goto(h, "leave")
    /\ UNCHANGED <<stream, ring, cursors, sweep, loop>>

\* The dwell time is not over, there is one centre, or nothing to hop with.
CallReads(h) ==
    /\ Runs(h, "call") /\ sweep.state = "listed"
    /\ Goto(h, "read")
    /\ UNCHANGED <<stream, ring, cursors, sweep, loop>>

NextPoint == (sweep.point_index + 1) % Points

\* The index moves before the retune, which raises when the stream is gone.
Advance(h) ==
    /\ Runs(h, "call") /\ sweep.state = "listed" /\ sweep.hops /\ Points > 1
    /\ sweep' = [sweep EXCEPT !.point_index = NextPoint, !.status = "retuning"]
    /\ handler' = [x \in Handlers |->
          IF x = h THEN [handler[x] EXCEPT !.pc = IF Registered THEN "tune" ELSE "leave"]
          ELSE [handler[x] EXCEPT !.overtaken = @ \/ handler[x].pc = "resume"]]
    /\ stream' = IF Registered THEN [stream EXCEPT !.status = "retuning"] ELSE stream
    /\ IF Registered THEN BlockLoop(h) ELSE UNCHANGED loop
    /\ UNCHANGED <<ring, cursors>>

\* Error: the chunks of the last centre stay.
KeepRing == UNCHANGED <<ring, cursors>>

\* _clear_stream_buffer
ClearRing == ring' = <<>> /\ cursors' = [c \in DOMAIN cursors |-> 0]

\* Live: the process is told, and what it has sent already comes after the
\* clear.  Cold: it is replaced, also when the stream was stopped meanwhile.
TuneEnds(h, live) ==
    /\ Runs(h, "tune")
    /\ live => stream.alive
    /\ stream' = [stream EXCEPT !.tuned = sweep.point_index, !.alive = TRUE, !.status = "running",
                                !.pipe = IF live THEN @ ELSE sweep.point_index,
                                !.crossed = @ \/ (~live /\ ~Registered)]
    /\ ClearRing
    /\ sweep' = [sweep EXCEPT !.status = "running"]
    /\ Goto(h, "read") /\ FreeLoop(h)

TuneFails(h) ==
    /\ Runs(h, "tune")
    /\ stream' = [stream EXCEPT !.status = "stopped", !.alive = FALSE]
    /\ Goto(h, "leave") /\ FreeLoop(h)
    /\ UNCHANGED <<ring, cursors, sweep>>

-----------------------------------------------------------------------------
(* A read: StreamManager.read_chunk in a thread, then the handler again    *)

CursorOf(h) == CASE handler[h].role = "ws" -> h [] handler[h].role = "probe" -> "_default"
                 [] OTHER -> "sweep"

Position(h) == IF CursorOf(h) \in DOMAIN cursors THEN cursors[CursorOf(h)] ELSE 0

\* The read of a session without a process, _read_native_chunk.
Sourceless(h) == handler[h].role \in {"sweep_ws", "sweep_get"} /\ ~sweep.hops

ReadChunk(h) ==
    /\ handler[h].pc = "read" /\ Registered /\ ~Sourceless(h)
    /\ Position(h) < Len(ring)
    /\ cursors' = With(CursorOf(h), Position(h) + 1)
    /\ handler' = [handler EXCEPT ![h].pc = "resume", ![h].chunk = ring[Position(h) + 1],
                                  ![h].overtaken = sweep.status = "retuning"]
    /\ UNCHANGED <<stream, ring, sweep, loop>>

\* Its 2 s are over, the stream is gone or stopped, or there never was one.
ReadNothing(h) ==
    /\ handler[h].pc = "read" /\ (Registered => Sourceless(h) \/ Position(h) = Len(ring))
    /\ handler' = [handler EXCEPT ![h].pc = "resume", ![h].chunk = None]
    /\ cursors' = IF Registered /\ CursorOf(h) \notin DOMAIN cursors
                     /\ handler[h].role = "probe" THEN With("_default", 0) ELSE cursors
    /\ UNCHANGED <<stream, ring, sweep, loop>>

\* Error: an unknown stream does not end the loop.
SeemsOverUnlessGone(h) == Registered /\ (~stream.alive \/ ~Live)

\* should_close: the stream is gone, or its process has ended, or its status
\* is neither "running" nor "retuning".
SeemsOver(h) == ~Registered \/ ~stream.alive \/ ~Live

\* iq_stream waits and reads on, or gives up; the others give up.
ResumeEmpty(h) ==
    /\ Runs(h, "resume") /\ handler[h].chunk = None
    /\ Goto(h, IF handler[h].role = "ws" /\ ~SeemsOver(h) THEN "read" ELSE "leave")
    /\ UNCHANGED <<stream, ring, cursors, sweep, loop>>

\* The chunk is sent (a sweep's with the centre the session has now), and the
\* next one is awaited; the probe counts, the chunk route returns.
ResumeChunk(h) ==
    /\ Runs(h, "resume") /\ handler[h].chunk # None
    /\ handler' = [handler EXCEPT
          ![h].pc = CASE handler[h].role = "ws" -> "read"
                      [] handler[h].role = "sweep_ws" -> "call"
                      [] handler[h].role = "probe" /\ handler[h].left > 1 -> "read"
                      [] OTHER -> "leave",
          ![h].left = IF handler[h].role = "probe" THEN @ - 1 ELSE @,
          ![h].chunk = None, ![h].overtaken = FALSE]
    /\ UNCHANGED <<stream, ring, cursors, sweep, loop>>

SendFails(h) ==
    /\ Runs(h, "resume") /\ handler[h].chunk # None /\ handler[h].role \in {"ws", "sweep_ws"}
    /\ handler' = [handler EXCEPT ![h].pc = "leave", ![h].chunk = None, ![h].overtaken = FALSE]
    /\ UNCHANGED <<stream, ring, cursors, sweep, loop>>

-----------------------------------------------------------------------------
(* The finally clauses and both stops                                      *)

Without(owner) == IF Registered THEN [c \in DOMAIN cursors \ {owner} |-> cursors[c]] ELSE cursors

\* Error: the viewer that keeps its stream keeps its cursor.
ReleasedUnlessKept(h) == IF handler[h].keep THEN cursors ELSE Without(h)

Released(h) == Without(h)

\* Error: only what was stopped by a route is stopped.
StopsIfAsked(h) == handler[h].role \in {"stop", "sweep_stop"}

\* The chunk route only returns, and keep=1 spares stream and sweep.
Stops(h) == handler[h].role # "sweep_get" /\ ~handler[h].keep

\* stop() takes the session out of the dict, or raises KeyError and is done.
Leave(h) ==
    /\ Runs(h, "leave")
    /\ cursors' = IF handler[h].role = "ws" THEN Released(h) ELSE cursors
    /\ IF Stops(h)
         THEN IF handler[h].role \in {"sweep_ws", "sweep_stop"}
                THEN /\ Goto(h, IF sweep.state = "listed" THEN "stop" ELSE "done")
                     /\ sweep' = IF sweep.state = "listed" THEN [sweep EXCEPT !.state = "gone"] ELSE sweep
                     /\ IF sweep.state = "listed" THEN BlockLoop(h) ELSE UNCHANGED loop
                     /\ UNCHANGED stream
                ELSE /\ Goto(h, IF Registered THEN "end" ELSE "done")
                     /\ stream' = IF Registered THEN [stream EXCEPT !.state = "gone"] ELSE stream
                     /\ IF Registered THEN BlockLoop(h) ELSE UNCHANGED loop
                     /\ UNCHANGED sweep
         ELSE Goto(h, "done") /\ UNCHANGED <<stream, sweep, loop>>
    /\ UNCHANGED ring

\* IQSweepManager.stop after its pop: the cursor, then the stream, which may
\* be gone.
StopSweep(h) ==
    LET owned == sweep.hops /\ Registered IN
    /\ Runs(h, "stop")
    /\ cursors' = IF sweep.hops THEN Without("sweep") ELSE cursors
    /\ stream' = IF owned THEN [stream EXCEPT !.state = "gone"] ELSE stream
    /\ sweep' = IF owned THEN sweep ELSE [sweep EXCEPT !.status = "stopped"]
    /\ Goto(h, IF owned THEN "end" ELSE "done")
    /\ IF owned THEN UNCHANGED loop ELSE FreeLoop(h)
    /\ UNCHANGED ring

StopEnds(h) ==
    /\ Runs(h, "end")
    /\ stream' = [stream EXCEPT !.status = "stopped", !.alive = FALSE]
    /\ sweep' = IF handler[h].role \in {"sweep_ws", "sweep_stop"} THEN [sweep EXCEPT !.status = "stopped"]
                ELSE sweep
    /\ Goto(h, "done") /\ FreeLoop(h)
    /\ UNCHANGED <<ring, cursors>>

-----------------------------------------------------------------------------
(* The stream's process and its reader thread                              *)

\* A chunk begins with the oldest samples still in the pipe.
Deliver ==
    /\ Registered /\ stream.alive /\ Live /\ Len(ring) < MaxHeld
    /\ ring' = Append(ring, [center |-> stream.pipe, stale |-> stream.pipe # stream.tuned])
    /\ \E center \in {stream.pipe, stream.tuned} : stream' = [stream EXCEPT !.pipe = center]
    /\ UNCHANGED <<cursors, sweep, handler, loop>>

\* The process fails; the reader thread restarts it or ends.
ProcessExits ==
    /\ Registered /\ stream.alive
    /\ stream' = [stream EXCEPT !.alive = FALSE]
    /\ UNCHANGED <<ring, cursors, sweep, handler, loop>>

ReaderReacts ==
    /\ Registered /\ ~stream.alive /\ stream.status = "running"
    /\ stream' \in {[stream EXCEPT !.alive = TRUE, !.pipe = stream.tuned],
                    [stream EXCEPT !.status = "stopped"]}
    /\ UNCHANGED <<ring, cursors, sweep, handler, loop>>

-----------------------------------------------------------------------------
Step(h) ==
    \/ Accept(h) \/ AcceptFails(h) \/ CallMissed(h) \/ CallReads(h) \/ Advance(h)
    \/ (\E live \in BOOLEAN : TuneEnds(h, live)) \/ TuneFails(h)
    \/ ReadChunk(h) \/ ReadNothing(h) \/ ResumeEmpty(h) \/ ResumeChunk(h) \/ SendFails(h)
    \/ Leave(h) \/ StopSweep(h) \/ StopEnds(h)

ViewersNext ==
    \/ StartStream \/ StartSweep \/ ListSweep \/ StartNativeSweep
    \/ Deliver \/ ProcessExits \/ ReaderReacts
    \/ \E h \in Handlers :
          \/ ProbeBegins(h) \/ SendRequest(h) \/ Step(h)
          \/ \E keep \in BOOLEAN : Connect(h, keep) \/ ConnectSweep(h, keep)

ViewersSpec == ViewersInit /\ [][ViewersNext]_viewerVars

\* The loop takes up every handler that can go on (asyncio's queue is first in,
\* first out), reads end after 2 s at most, and a peer reads or goes away.
FairViewersSpec == ViewersSpec /\ \A h \in Handlers : WF_viewerVars(Step(h))

-----------------------------------------------------------------------------
(* Properties                                                              *)

\* No cursor is left behind: while the stream exists, each of its cursors is
\* that of a probe, of the sweep, or of a viewer still connected.  A viewer
\* whose handshake failed leaves its cursor (accept is outside of the try).
NoCursorLeft ==
    Registered => \A c \in DOMAIN cursors :
        CASE c \in Handlers -> handler[c].pc # "done"
          [] c = "sweep" -> sweep.state = "listed" \/ \E h \in Handlers : handler[h].pc = "stop"
          [] OTHER -> \E h \in Handlers : handler[h].role = "probe" /\ handler[h].pc # "done"

ViewersSafe == ViewersTypeOK /\ NoCursorLeft

\* The stream is out of the dict and its process has ended or is being ended, or
\* else a cold retune that was under way when the stream was stopped has started
\* another one, which nobody knows of.
Over ==
    /\ ~Registered
    /\ stream.alive => stream.crossed \/ \E g \in Handlers : handler[g].pc = "end"

\* "Ensure ordinary dropped/refreshing clients don't leave orphan SDR
\* processes running": once a viewer without keep, a probe or a stop is done,
\* its stream is over; once a sweep is stopped, its stream is over, or another
\* handler is about to stop it.  A viewer whose handshake failed never gets to
\* its finally clause ("refused") and leaves the stream as it is.
NotLeftRunning ==
    \A h \in Handlers :
        handler[h].pc = "done" /\ ~handler[h].keep =>
            CASE handler[h].role \in {"ws", "probe", "stop"} -> Over
              [] handler[h].role \in {"sweep_ws", "sweep_stop"} ->
                    /\ sweep.state = "gone"
                    /\ sweep.hops => Over \/ \E g \in Handlers : handler[g].pc = "stop"
              [] OTHER -> TRUE

\* A chunk of a sweep goes out with the centre its samples were taken at,
\* unless the sweep was between a hop of another reader, or a hop that failed,
\* and the next one (its status says "retuning"), or another reader hopped
\* while this one waited for the loop, or the samples were on their way when a
\* live retune took place.
LabelRight ==
    \A h \in Handlers :
        LET chunk == handler[h].chunk IN
        (handler[h].pc = "resume" /\ handler[h].role \in {"sweep_ws", "sweep_get"} /\ chunk # None)
            => (chunk.center = sweep.point_index \/ chunk.stale \/ handler[h].overtaken)

\* When the stream is gone, whoever reads it finds out and ends.
HandlersEnd ==
    \A h \in Handlers :
        (~Registered /\ handler[h].pc # "idle") ~> handler[h].pc \in {"done", "refused"}

\* A listed IQ sweep has a process or a stream to read from.
SweepHasSource == sweep.state = "listed" => sweep.hops
=============================================================================
