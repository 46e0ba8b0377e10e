---------------------------- MODULE NativeSweep ----------------------------
(***************************************************************************)
(* One native IQ sweep: the worker native/hackrf_iq_sweep.c, which writes  *)
(* a header and a payload for every block the radio delivers, the pipe     *)
(* between them, and IQSweepManager (src/app/services.py), which cuts the  *)
(* bytes it finds there into frames again for the requests that read the   *)
(* session.                                                                *)
(*                                                                         *)
(* A byte of the pipe is <<n, i>>: unit i of frame n.  The first two units *)
(* of a frame are its header, unit 1 with the magic and unit 2 with the    *)
(* fields, the other ones its payload.  Reads of the non-blocking pipe     *)
(* return any number of units, and every wait may run into its deadline.   *)
(***************************************************************************)
EXTENDS Integers, Sequences, SequencesExt

CONSTANTS
    Readers,        \* clients that read the session, each one request at a time
    Centers,        \* number of centres the hardware sweeps over
    PayloadUnits,   \* units of a payload
    Capacity,       \* units that fit in the pipe
    PerTransfer,    \* blocks of a USB transfer
    MaxFrames       \* bound on the frames ever written

ASSUME SweepAssumption ==
    /\ Centers \in Nat \ {0} /\ PayloadUnits \in Nat \ {0}
    /\ Capacity \in Nat \ {0} /\ PerTransfer \in Nat \ {0}
    /\ MaxFrames \in Nat

VARIABLES
    proc,           \* "live", or "failed" and "done" after an exit with an error or none
    stop_requested, \* of the worker
    blocks,         \* of the transfer in the callback, those not yet written as frames
    unit,           \* of the frame the callback writes, the unit it is at
    frames_written,
    pipe,
    session,        \* IQSweepSession
    reader,         \* request -> where it is and its local variables
    chunks,         \* the chunks returned so far: a frame number, or 0 for a mixture
    stopper         \* the request that stops the session

worker == <<proc, stop_requested, blocks, unit, frames_written>>
clients == <<reader, chunks>>
vars == <<worker, pipe, session, clients, stopper>>

HeaderUnits == 2
FrameUnits == HeaderUnits + PayloadUnits
Unit == (1 .. MaxFrames) \X (1 .. FrameUnits)
Frame(n) == [i \in 1 .. FrameUnits |-> <<n, i>>]
Idle == [pc |-> "idle", local |-> <<>>, header |-> <<>>]

\* The centre a block was received at: the hardware goes round the range.
CenterOf(n) == 1 + ((n - 1) % Centers)

TypeOK ==
    /\ proc \in {"live", "failed", "done"}
    /\ stop_requested \in BOOLEAN
    /\ blocks \in 0 .. PerTransfer /\ unit \in 1 .. FrameUnits
    /\ frames_written \in 0 .. MaxFrames /\ frames_written + blocks <= MaxFrames
    /\ pipe \in Seq(Unit)
    /\ session \in [status : {"running", "error", "stopped"}, native_buffer : Seq(Unit),
                    point_index : 0 .. MaxFrames, centers_hz : Seq(1 .. Centers),
                    listed : BOOLEAN]
    /\ reader \in [Readers -> [pc : {"idle", "header", "payload", "late"},
                               local : Seq(Unit), header : Seq(Unit)]]
    /\ chunks \in Seq(0 .. MaxFrames)
    /\ stopper \in {"idle", "terminate", "kill", "finally", "done"}

\* IQSweepManager.start: the worker is started and the session listed.
Init ==
    /\ proc = "live" /\ stop_requested = FALSE
    /\ blocks = 0 /\ unit = 1 /\ frames_written = 0 /\ pipe = <<>>
    /\ session = [status |-> "running", native_buffer |-> <<>>, point_index |-> 0,
                  centers_hz |-> <<1>>, listed |-> TRUE]
    /\ reader = [r \in Readers |-> Idle]
    /\ chunks = <<>> /\ stopper = "idle"

-----------------------------------------------------------------------------
(* The worker                                                              *)

\* rx_sweep_callback: the blocks of a transfer up to the first one without
\* the marks of a sweep.
RxSweepCallback ==
    /\ proc = "live" /\ ~stop_requested /\ blocks = 0
    /\ blocks' \in {k \in 1 .. PerTransfer : frames_written + k <= MaxFrames}
    /\ UNCHANGED <<proc, stop_requested, unit, frames_written, pipe, session, clients, stopper>>

\* write_frame blocks while the pipe is full.
WriteFrame ==
    /\ proc = "live" /\ blocks > 0 /\ Len(pipe) < Capacity
    /\ unit = 1 => ~stop_requested
    /\ pipe' = Append(pipe, <<frames_written + 1, unit>>)
    /\ IF unit < FrameUnits
       THEN unit' = unit + 1 /\ UNCHANGED <<blocks, frames_written>>
       ELSE unit' = 1 /\ blocks' = blocks - 1 /\ frames_written' = frames_written + 1
    /\ UNCHANGED <<proc, stop_requested, session, clients, stopper>>

\* A stop request is seen between two frames.
StopSeen ==
    /\ proc = "live" /\ blocks > 0 /\ unit = 1 /\ stop_requested
    /\ blocks' = 0
    /\ UNCHANGED <<proc, stop_requested, unit, frames_written, pipe, session, clients, stopper>>

\* main: the loop ends on a signal, or when the radio streams no more; closing
\* the device waits for the callback.
WorkerEnds ==
    /\ proc = "live" /\ blocks = 0
    /\ proc' = "done"
    /\ UNCHANGED <<stop_requested, blocks, unit, frames_written, pipe, session, clients, stopper>>

\* The frequencies or the device are refused.
WorkerFails ==
    /\ proc = "live" /\ pipe = <<>> /\ frames_written = 0 /\ blocks = 0
    /\ proc' = "failed"
    /\ UNCHANGED <<stop_requested, blocks, unit, frames_written, pipe, session, clients, stopper>>

-----------------------------------------------------------------------------
(* IQSweepManager.stop with HackRFBackend.stop_iq_sweep                    *)

Stop ==
    /\ stopper = "idle"
    /\ stopper' = "terminate"
    /\ session' = [session EXCEPT !.listed = FALSE]
    /\ UNCHANGED <<worker, pipe, clients>>

Terminate ==
    /\ stopper = "terminate"
    /\ stop_requested' = (stop_requested \/ proc = "live")
    /\ stopper' = "kill"
    /\ UNCHANGED <<proc, blocks, unit, frames_written, pipe, session, clients>>

\* wait(timeout=3) and kill().
WaitOrKill ==
    /\ stopper = "kill"
    /\ proc' = IF proc = "live" THEN "failed" ELSE proc
    /\ stopper' = "finally"
    /\ UNCHANGED <<stop_requested, blocks, unit, frames_written, pipe, session, clients>>

Finally ==
    /\ stopper = "finally"
    /\ stopper' = "done"
    /\ session' = [session EXCEPT !.status = "stopped"]
    /\ UNCHANGED <<worker, pipe, clients>>

-----------------------------------------------------------------------------
(* read_chunk: _read_native_chunk and _read_native_exact                   *)

Wanted(r) == IF reader[r].pc = "header" THEN HeaderUnits ELSE PayloadUnits

Enough(r) == Len(reader[r].local) >= Wanted(r)
Found(r) == SubSeq(reader[r].local, 1, Wanted(r))
Rest(r) == SubSeq(reader[r].local, Wanted(r) + 1, Len(reader[r].local))

Read(r) ==
    /\ reader[r].pc = "idle" /\ session.listed
    /\ reader' = [reader EXCEPT ![r] = [Idle EXCEPT !.pc = "header",
                                                    !.local = session.native_buffer]]
    /\ UNCHANGED <<worker, pipe, session, chunks, stopper>>

\* os.read returns some of what the pipe holds.
ReadSome(r) ==
    /\ reader[r].pc \in {"header", "payload"} /\ ~Enough(r) /\ proc = "live"
    /\ \E k \in 1 .. Len(pipe) :
          /\ reader' = [reader EXCEPT ![r].local = @ \o SubSeq(pipe, 1, k)]
          /\ pipe' = SubSeq(pipe, k + 1, Len(pipe))
    /\ UNCHANGED <<worker, session, chunks, stopper>>

\* Error: what was read up to the deadline is dropped.
KeptNothing(r) == session.native_buffer

\* What native_buffer becomes at a deadline.
Kept(r) == reader[r].local

Deadline(r) ==
    /\ reader[r].pc \in {"header", "payload"} /\ ~Enough(r) /\ proc = "live"
    /\ session' = [session EXCEPT !.native_buffer = Kept(r)]
    /\ reader' = [reader EXCEPT ![r] = IF @.pc = "header" THEN Idle
                                       ELSE [@ EXCEPT !.pc = "late", !.local = <<>>]]
    /\ UNCHANGED <<worker, pipe, chunks, stopper>>

\* Error: the header goes behind the part of its payload.
HeaderBehind(r) == session.native_buffer \o reader[r].header

HeaderInFront(r) == reader[r].header \o session.native_buffer

\* The header of a payload that is late is put back.
PutBack(r) ==
    /\ reader[r].pc = "late"
    /\ session' = [session EXCEPT !.native_buffer = HeaderInFront(r)]
    /\ reader' = [reader EXCEPT ![r] = Idle]
    /\ UNCHANGED <<worker, pipe, chunks, stopper>>

\* Error: the exit is noticed only when there is data to read.
ExitWithData(r) ==
    /\ reader[r].pc \in {"header", "payload"} /\ ~Enough(r) /\ proc # "live" /\ pipe # <<>>
    /\ reader' = [reader EXCEPT ![r] = Idle]
    /\ UNCHANGED <<worker, pipe, session, chunks, stopper>>

\* poll() shows the exit, whatever the pipe still holds.
ExitSeen(r) ==
    /\ reader[r].pc \in {"header", "payload"} /\ ~Enough(r) /\ proc # "live"
    /\ session' = [session EXCEPT !.status = IF proc = "failed" THEN "error" ELSE "stopped"]
    /\ reader' = [reader EXCEPT ![r] = Idle]
    /\ UNCHANGED <<worker, pipe, chunks, stopper>>

HeaderRead(r) ==
    /\ reader[r].pc = "header" /\ Enough(r)
    /\ session' = [session EXCEPT !.native_buffer = Rest(r)]
    /\ reader' = [reader EXCEPT ![r] = IF Found(r)[1][2] = 1
                                       THEN [pc |-> "payload", local |-> Rest(r), header |-> Found(r)]
                                       ELSE Idle]
    /\ UNCHANGED <<worker, pipe, chunks, stopper>>

WithCenter(centers, c) == IF Contains(centers, c) THEN centers ELSE Append(centers, c)

PayloadRead(r) ==
    LET n == reader[r].header[2][1] IN
    /\ reader[r].pc = "payload" /\ Enough(r)
    /\ session' = [session EXCEPT !.native_buffer = Rest(r),
                                  !.point_index = n - 1,
                                  !.centers_hz = WithCenter(@, CenterOf(n))]
    /\ chunks' = Append(chunks, IF reader[r].header \o Found(r) = Frame(n) THEN n ELSE 0)
    /\ reader' = [reader EXCEPT ![r] = Idle]
    /\ UNCHANGED <<worker, pipe, stopper>>

-----------------------------------------------------------------------------
ReadStep(r) == ReadSome(r) \/ Deadline(r) \/ PutBack(r) \/ ExitSeen(r) \/ HeaderRead(r) \/ PayloadRead(r)
StopStep == Terminate \/ WaitOrKill \/ Finally
Next ==
    \/ RxSweepCallback \/ WriteFrame \/ StopSeen \/ WorkerEnds \/ WorkerFails
    \/ Stop \/ StopStep
    \/ \E r \in Readers : Read(r) \/ ReadStep(r)

Spec == Init /\ [][Next]_vars

\* A stop and a read that have begun go on, and a pipe that is not full is
\* written to.
FairSpec ==
    /\ Spec
    /\ WF_vars(StopStep) /\ WF_vars(WriteFrame)
    /\ \A r \in Readers : WF_vars(ReadStep(r))

-----------------------------------------------------------------------------
(* Properties                                                              *)

\* A single client gets every frame once, whole and in order, however the pipe
\* cuts the bytes and wherever the deadlines fall: what was read of a frame is
\* kept for the next request, behind its header.
FramesIntact == \A i \in DOMAIN chunks : chunks[i] = i

\* As long as the worker lives, every unit it has written is delivered, held by
\* the request that reads or by the session, or in the pipe.
Busy == {r \in Readers : reader[r].pc # "idle"}
Held ==
    LET r == CHOOSE q \in Busy : TRUE IN
    IF Busy = {} THEN Len(session.native_buffer)
    ELSE Len(reader[r].header) + Len(IF reader[r].pc = "late" THEN session.native_buffer
                                     ELSE reader[r].local)
NothingLost ==
    proc = "live" =>
        Len(chunks) * FrameUnits + Held + Len(pipe) = frames_written * FrameUnits + unit - 1

\* Neither the pipe nor what the session keeps for the next request grows
\* without limit.
Bounded ==
    /\ Len(pipe) <= Capacity
    /\ Len(session.native_buffer) < FrameUnits \/ Len(session.native_buffer) < Capacity

Safe == TypeOK /\ NothingLost /\ Bounded

\* Every read ends, after a stop and after an exit of the worker too.
ReadsEnd == \A r \in Readers : reader[r].pc # "idle" ~> reader[r].pc = "idle"

=============================================================================
