----------------------------- MODULE LiveRetune -----------------------------
(***************************************************************************)
(* One stream worker and its control channel: the gateway writes retune    *)
(* commands to its standard input (src/app/sdr/controlled_process.py), the *)
(* worker applies them to the radio and writes samples to its standard     *)
(* output.  Four workers are modelled, one of them chosen at the start:    *)
(*                                                                         *)
(*   hackrf    native/hackrf_stream.c: a control thread fills one pending  *)
(*             slot, the main loop applies it, and the USB library's       *)
(*             thread calls rx_callback with the samples                   *)
(*   soapy     soapy_worker.py: a control thread fills a queue, which the  *)
(*             loop that reads the radio drains                            *)
(*   libiio    libiio_worker.py and                                        *)
(*   sidekiq   sidekiq_worker.py: no control channel                       *)
(*                                                                         *)
(* A setting is the number of the command that asked for it, in the order  *)
(* the commands are written, with its sample rate; number 0 is the setting *)
(* of the command line.  The sample rate stands for everything whose       *)
(* change makes a worker stop and start its stream.  A worker that cannot  *)
(* set frequency and sample rate ends; that the filter or a gain cannot be *)
(* set it logs or ignores, and a filter of 0 it leaves alone.  A worker    *)
(* that died is replaced by StreamManager, which is another module.        *)
(***************************************************************************)
EXTENDS Integers, Sequences, SequencesExt

CONSTANTS
    Clients,        \* request threads that retune
    Rates,          \* sample rates
    Limits,         \* num_samples a stream may be started with; 0 is none
    Block,          \* samples the radio delivers at a time
    Capacity,       \* blocks that fit in the pipe of standard output
    LogRoom,        \* lines that fit in the pipe of standard error
    MaxRetunes,     \* bound on the commands ever written
    MaxSamples,     \* bound on the samples of a stream without a limit
    None            \* a request thread between two retunes

ASSUME RetuneAssumption ==
    /\ Limits \subseteq Nat /\ Block \in Nat \ {0}
    /\ Capacity \in Nat \ {0} /\ LogRoom \in Nat
    /\ MaxRetunes \in Nat /\ MaxSamples \in Nat
    /\ None \notin [n : 0 .. MaxRetunes, rate : Rates]

VARIABLES
    worker,         \* the kind of worker and how it was started
    config,         \* session.config
    client,         \* request thread -> the setting it has yet to record, or None
    sent,           \* commands written so far
    raced,          \* a command was written before the previous one was recorded
    gateway,        \* "reading", then "terminate" and "kill" in stop_stream
    stdin,          \* lines not yet read by the control thread
    queue,          \* commands the main loop has not taken yet
    main,           \* where the main loop is
    next,           \* the setting it is about to apply
    device,         \* the setting of the radio: its frequency and sample rate
    extras,         \* the command whose filter and gains the radio has; -1 is none
    partial,        \* history: the last setting applied left some of them out
    streaming,      \* the radio delivers samples
    block,          \* samples read and not written out: <<>> or <<their setting>>
    stop_requested,
    written,        \* samples delivered to write()
    out,            \* blocks in the pipe of standard output, by their setting
    got,            \* the setting of the block the gateway read last
    stderr          \* lines in the pipe of standard error, which nobody reads

channel == <<config, client, sent, raced>>
pipes == <<out, got, stderr>>
radio == <<device, extras, partial>>
loop == <<main, next, radio, streaming>>
vars == <<worker, channel, gateway, stdin, queue, loop, block, stop_requested, written, pipes>>

Settings == [n : 0 .. MaxRetunes, rate : Rates]
Kinds == {"hackrf", "soapy", "libiio", "sidekiq"}
Controlled == {"hackrf", "soapy"}
hackrf == worker.kind = "hackrf"
Ended == main = "ended"

TypeOK ==
    /\ worker \in [kind : Kinds, limit : Limits, timed : BOOLEAN]
    /\ config \in Settings /\ next \in Settings /\ device \in Settings
    /\ client \in [Clients -> Settings \cup {None}]
    /\ sent \in 0 .. MaxRetunes
    /\ extras \in -1 .. MaxRetunes /\ partial \in BOOLEAN
    /\ raced \in BOOLEAN /\ streaming \in BOOLEAN /\ stop_requested \in BOOLEAN
    /\ gateway \in {"reading", "terminate", "kill", "gone"}
    /\ stdin \in Seq(Settings) /\ queue \in Seq(Settings)
    /\ hackrf => Len(queue) <= 1
    /\ main \in {"loop", "quiesce", "tune", "warn", "refused", "log", "read", "write", "closing",
                "ended"}
    /\ block \in {<<>>} \cup {<<n>> : n \in 0 .. MaxRetunes}
    /\ written \in Nat
    /\ out \in Seq(0 .. MaxRetunes) /\ Len(out) <= Capacity
    /\ got \in 0 .. MaxRetunes
    /\ stderr \in 0 .. LogRoom

\* Every worker has applied its command line and started the stream; the
\* native one is the only one that is not limited by the clock itself.
Init ==
    /\ worker \in [kind : Kinds, limit : Limits, timed : BOOLEAN]
    /\ hackrf => ~worker.timed
    /\ \E r \in Rates : device = [n |-> 0, rate |-> r]
    /\ config = device /\ next = device
    /\ extras \in {-1, 0} /\ partial = (extras = -1)
    /\ client = [c \in Clients |-> None]
    /\ sent = 0 /\ raced = FALSE /\ gateway = "reading"
    /\ stdin = <<>> /\ queue = <<>>
    /\ main = "loop" /\ streaming = TRUE /\ block = <<>>
    /\ stop_requested = FALSE /\ written = 0
    /\ out = <<>> /\ got = 0 /\ stderr = 0

-----------------------------------------------------------------------------
(* The gateway: StreamManager.retune while the worker lives, the reader    *)
(* thread, and stop_stream                                                 *)

\* Only a continuous stream is retuned in place.
IsContinuous == worker.limit = 0 /\ ~worker.timed

\* ControlledStreamProcess.retune writes a line under _control_lock, while
\* poll() is None; an exit is left to StreamManager, which replaces the process.
Retune(c, r) ==
    LET setting == [n |-> sent + 1, rate |-> r] IN
    /\ client[c] = None /\ IsContinuous /\ worker.kind \in Controlled /\ ~Ended
    /\ sent < MaxRetunes
    /\ sent' = sent + 1
    /\ stdin' = Append(stdin, setting)
    /\ client' = [client EXCEPT ![c] = setting]
    /\ raced' = (raced \/ \E d \in Clients : client[d] # None)
    /\ UNCHANGED <<worker, config, gateway, queue, loop, block, stop_requested, written, pipes>>

\* Back in StreamManager.retune, which holds no lock.
Record(c) ==
    /\ client[c] # None
    /\ config' = client[c]
    /\ client' = [client EXCEPT ![c] = None]
    /\ UNCHANGED <<worker, sent, raced, gateway, stdin, queue, loop, block, stop_requested,
                   written, pipes>>

ReadOut ==
    /\ gateway = "reading" /\ out # <<>>
    /\ got' = Head(out) /\ out' = Tail(out)
    /\ UNCHANGED <<worker, channel, gateway, stdin, queue, loop, block, stop_requested,
                   written, stderr>>

StopReading ==
    /\ gateway = "reading"
    /\ gateway' = "terminate"
    /\ UNCHANGED <<worker, channel, stdin, queue, loop, block, stop_requested, written, pipes>>

\* SIGTERM sets a flag in the native worker and ends a Python one at once.
Terminate ==
    /\ gateway = "terminate"
    /\ gateway' = "kill"
    /\ stop_requested' = hackrf
    /\ main' = IF hackrf THEN main ELSE "ended"
    /\ UNCHANGED <<worker, channel, stdin, queue, next, radio, streaming, block, written, pipes>>

WaitOrKill ==
    /\ gateway = "kill"
    /\ gateway' = "gone"
    /\ main' = "ended"
    /\ UNCHANGED <<worker, channel, stdin, queue, next, radio, streaming, block,
                   stop_requested, written, pipes>>

-----------------------------------------------------------------------------
(* The control thread, and the main loop taking a command                  *)

\* Error: the native control thread keeps what it already has.
QueuedFirst(command) == IF hackrf /\ queue # <<>> THEN queue ELSE Append(queue, command)

\* The native worker has one slot for the newest command.
Queued(command) == IF hackrf THEN <<command>> ELSE Append(queue, command)

ControlThread ==
    /\ stdin # <<>> /\ ~Ended /\ ~stop_requested
    /\ worker.kind \in Controlled
    /\ stdin' = Tail(stdin)
    /\ queue' = Queued(Head(stdin))
    /\ UNCHANGED <<worker, channel, gateway, loop, block, stop_requested, written, pipes>>

\* Error: one command is taken at a time, the newest first.
TakenSingly == <<Last(queue), Front(queue)>>

\* Error: the stream runs on while the sample rate is changed.
NeverRestarts(setting) == FALSE

Taken == <<Last(queue), <<>> >>
Restarts(setting) == setting.rate # device.rate

TakeCommand ==
    /\ main = "loop" /\ queue # <<>> /\ (hackrf => streaming /\ ~stop_requested)
    /\ next' = Taken[1] /\ queue' = Taken[2]
    /\ main' = IF ~hackrf THEN "log" ELSE IF Restarts(next') THEN "quiesce" ELSE "tune"
    /\ UNCHANGED <<worker, channel, gateway, stdin, radio, streaming, block, stop_requested,
                   written, pipes>>

-----------------------------------------------------------------------------
(* apply_config and _apply_rx_config                                       *)

\* hackrf_stop_rx and the wait, which a stop request cuts short; in Python
\* _close_rx_stream.
Quiesce ==
    /\ main = "quiesce"
    /\ streaming' \in IF stop_requested THEN {FALSE, streaming} ELSE {FALSE}
    /\ main' = "tune"
    /\ UNCHANGED <<worker, channel, gateway, stdin, queue, next, radio, block, stop_requested,
                   written, pipes>>

\* Frequency and sample rate are set, and of the filter and the gains what the
\* driver takes: the native worker logs each that it refuses, and before the
\* stream runs again what it has applied; soapy ignores an exception.
Tune ==
    /\ main = "tune"
    /\ device' = next
    /\ \E all \in BOOLEAN :
          /\ extras' = IF all THEN next.n ELSE extras
          /\ partial' = ~all
          /\ main' \in IF ~hackrf THEN {"read"} ELSE IF all THEN {"log"} ELSE {"log", "warn"}
    /\ streaming' = IF hackrf THEN streaming ELSE TRUE
    /\ UNCHANGED <<worker, channel, gateway, stdin, queue, next, block, stop_requested, written,
                   pipes>>

\* The driver refuses the sample rate or the frequency: the native main loop logs
\* it and breaks, Python raises and prints a traceback.
TuneFails ==
    /\ main = "tune"
    /\ main' = "refused"
    /\ device' \in {device, [device EXCEPT !.rate = next.rate]}
    /\ UNCHANGED <<worker, channel, gateway, stdin, queue, next, extras, partial, streaming,
                   block, stop_requested, written, pipes>>

\* A line of standard error; a worker waits for room in the pipe.
Complain ==
    /\ main \in {"warn", "refused"} /\ stderr < LogRoom
    /\ stderr' = stderr + 1
    /\ main' = IF main = "warn" THEN "log" ELSE "closing"
    /\ UNCHANGED <<worker, channel, gateway, stdin, queue, next, radio, streaming, block,
                   stop_requested, written, out, got>>

\* The native worker logs what it has applied and then starts the stream again,
\* which the driver may refuse; soapy logs what it is about to apply.
Log ==
    /\ main = "log" /\ stderr < LogRoom
    /\ stderr' = stderr + 1
    /\ \/ /\ streaming' = IF hackrf THEN streaming \/ ~stop_requested ELSE streaming
          /\ main' = CASE hackrf -> "loop"
                       [] ~hackrf /\ Restarts(next) -> "quiesce"
                       [] OTHER -> "tune"
       \/ /\ hackrf /\ ~streaming /\ ~stop_requested
          /\ main' = "refused" /\ streaming' = streaming
    /\ UNCHANGED <<worker, channel, gateway, stdin, queue, next, radio, block, stop_requested,
                   written, out, got>>

-----------------------------------------------------------------------------
(* Samples                                                                 *)

Wanted == IF worker.limit > 0 THEN worker.limit - written ELSE MaxSamples - written

\* Error: the last buffer is not cut at the limit.
WholeBlock == Block

\* libiio reads whole buffers only.
ReadCount == IF worker.kind # "libiio" /\ worker.limit > 0 /\ Wanted < Block THEN Wanted ELSE Block

\* rx_callback counts the samples and then writes them, holding no lock.
RxCallback ==
    /\ hackrf /\ streaming /\ block = <<>> /\ ~stop_requested
    /\ main \in {"loop", "quiesce", "tune", "warn", "refused", "log"}
    /\ Wanted > 0
    /\ written' = written + ReadCount
    /\ block' = <<device.n>>
    /\ UNCHANGED <<worker, channel, gateway, stdin, queue, loop, stop_requested, pipes>>

CallbackWrites ==
    /\ hackrf /\ block # <<>> /\ ~Ended /\ Len(out) < Capacity
    /\ out' = out \o block /\ block' = <<>>
    /\ stop_requested' = (stop_requested \/ (worker.limit > 0 /\ written >= worker.limit))
    /\ UNCHANGED <<worker, channel, gateway, stdin, queue, loop, written, got, stderr>>

\* The native main loop ends; hackrf_close waits for the library's thread.
LeaveLoop ==
    /\ hackrf /\ main = "loop" /\ (stop_requested \/ ~streaming)
    /\ main' = "closing"
    /\ UNCHANGED <<worker, channel, gateway, stdin, queue, next, radio, streaming, block,
                   stop_requested, written, pipes>>

Close ==
    /\ main = "closing" /\ (hackrf => block = <<>>)
    /\ main' = "ended" /\ streaming' = FALSE
    /\ UNCHANGED <<worker, channel, gateway, stdin, queue, next, radio, block, stop_requested,
                   written, pipes>>

\* No command: a Python loop reads the radio, unless its samples or its
\* seconds are over.
ToRead ==
    /\ ~hackrf /\ main = "loop" /\ queue = <<>>
    /\ main' = "read"
    /\ UNCHANGED <<worker, channel, gateway, stdin, queue, next, radio, streaming, block,
                   stop_requested, written, pipes>>

LimitReached ==
    /\ main = "read"
    /\ worker.timed \/ (worker.limit > 0 /\ written >= worker.limit)
    /\ main' = "closing"
    /\ UNCHANGED <<worker, channel, gateway, stdin, queue, next, radio, streaming, block,
                   stop_requested, written, pipes>>

\* readStream and rx() return samples, or nothing in time.
ReadRadio ==
    /\ main = "read" /\ (worker.limit > 0 => Wanted > 0)
    /\ \/ Wanted > 0 /\ block' = <<device.n>> /\ main' = "write"
       \/ block' = <<>> /\ main' = "loop"
    /\ UNCHANGED <<worker, channel, gateway, stdin, queue, next, radio, streaming,
                   stop_requested, written, pipes>>

WriteOut ==
    /\ main = "write" /\ Len(out) < Capacity
    /\ out' = out \o block /\ block' = <<>>
    /\ written' = written + ReadCount
    /\ main' = "loop"
    /\ UNCHANGED <<worker, channel, gateway, stdin, queue, next, radio, streaming,
                   stop_requested, got, stderr>>

-----------------------------------------------------------------------------
Request(c) == (\E r \in Rates : Retune(c, r)) \/ Record(c)
Stop == StopReading \/ Terminate \/ WaitOrKill
MainLoop ==
    \/ TakeCommand \/ Quiesce \/ Tune \/ TuneFails \/ Complain \/ Log
    \/ LeaveLoop \/ Close \/ ToRead \/ LimitReached \/ ReadRadio \/ WriteOut
Next ==
    \/ \E c \in Clients : Request(c)
    \/ ReadOut \/ Stop \/ ControlThread \/ MainLoop \/ RxCallback \/ CallbackWrites

Spec == Init /\ [][Next]_vars

\* The threads of a worker are scheduled, the gateway reads what there is
\* and finishes a stop it has begun.  Nothing makes the radio deliver.
FairSpec ==
    /\ Spec
    /\ WF_vars(ReadOut) /\ WF_vars(Terminate) /\ WF_vars(WaitOrKill)
    /\ WF_vars(ControlThread) /\ WF_vars(MainLoop) /\ WF_vars(CallbackWrites)

-----------------------------------------------------------------------------
(* Properties                                                              *)

\* What the gateway reads never goes back to an older retune: commands that
\* pile up in standard input, in the pending slot or in the queue are merged
\* towards the newest, by a loop and a callback that do not wait for each other.
SamplesInOrder == [][got' >= got]_got

\* The sample rate of a radio is changed while its stream is stopped, so that
\* no block mixes two rates; only a stop request may cut the wait short.
RateChangesAtRest == [][device'.rate # device.rate => ~streaming \/ stop_requested]_vars

\* A finite stream delivers what was asked for: a worker that ends by itself
\* has delivered the limit, and libiio, which reads whole buffers, less than
\* a buffer more.
FiniteExact ==
    worker.limit > 0 =>
        /\ written < worker.limit + (IF worker.kind = "libiio" THEN Block ELSE 1)
        /\ Ended /\ gateway = "reading" /\ ~worker.timed => written >= worker.limit

Safe == TypeOK /\ FiniteExact

\* The worker waits for room in the pipe of standard error, which nobody reads.
Blocked == main \in {"warn", "refused", "log"} /\ stderr = LogRoom

\* A retune that was accepted, or a newer one, reaches the radio, or the worker
\* ends, or it is stuck for ever on a line it logs: nothing else in the way from
\* standard input to the radio holds a command up.
RetuneReachesDevice == <>[](Ended \/ Blocked \/ device.n = sent)

\* Once everything is quiet the session holds the frequency and the sample rate of
\* the radio, and its filter and gains unless the worker could not set them or left
\* them out: that is what a restart would use.  Two retunes that were recorded out
\* of order are the exception.
QuietAgrees ==
    /\ \A c \in Clients : client[c] = None
    /\ stdin = <<>> /\ queue = <<>> /\ main \in {"loop", "read", "write"}
    /\ ~raced
    => config = device /\ (extras = config.n \/ partial)
=============================================================================
