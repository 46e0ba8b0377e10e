# sdr-gateway: TLA+ models, checks and proofs

sdr-gateway is a FastAPI service in front of SDR hardware. A request starts a
stream, a sweep, an IQ sweep, a transmission or a WiFi capture; each of these is a
*session* that owns one subprocess, kept in the dict of a *manager*; samples reach
clients over WebSockets. This directory holds TLA+ models of the gateway, the TLC
configurations that check them and TLAPS proofs about them.

Source paths below are relative to `src/`; numbers are lines of `app/services.py`
unless another file is named.

## 1. The system

| Part | State | Operations | What is hard | Module |
|---|---|---|---|---|
| `StreamManager`, ring (1034-1257) | per session: `buffer`, `buffer_bytes`, `next_seq`, `cursors` under `condition` | append and evict, flush, create/release_cursor, read_chunk | readers wait on a ring that is evicted, flushed and stopped under them | `StreamBuffer` |
| `StreamManager`, lifecycle (1063-1432) | `_sessions`; process, status, `retuned_at`, `restart_lock`, `stop_reader`, `reader_thread` | start, retune (live or cold), stop, reader loop, automatic restart, probe | request threads, a reader thread per session and the process interleave; only the restart is locked; the reader is joined for at most 1 s | `StreamManager` |
| `ControlledStreamProcess` and the RX workers (C and Python) | pending setting, queue, device, samples on their way | retune over stdin, the worker's loop, the USB callback | a retune races the samples, the next retune and the end | `LiveRetune` |
| `SweepManager` (1435-1538) | sessions, a window of 200 samples | start, stop, collector thread | listed after its process runs, removed after it was killed | `Jobs`, `DeviceGate` |
| `IQSweepManager` (1541-1797) | sessions, hop position, `native_buffer` | start (native, or on a stream of its own), stop, read_chunk | frames are cut out of a pipe with deadlines; readers hop | `NativeSweep`, `Viewers` |
| `hackrf_iq_sweep.c` | frames written, a stop flag | the USB callback writes headers and payloads | signals in the middle of a frame | `NativeSweep`, `FrequencyPlans` |
| `TxManager` (1800-1886) | sessions, return code, burst files | start, stop, `_refresh` | finishes by itself; `_refresh` walks a dict that other threads change | `Jobs`, `DeviceGate` |
| `ApexHunterService` (`app/apex_hunter.py`) | missions | plan, run | starts several sweeps without the gate; some fail | `Jobs`, `FrequencyPlans` |
| `WiFiMonitorManager` (77-1031) | sessions, process, channel, deque of events | start, stop, `_refresh`, collector, hop and active-scan threads; the event each capture makes of a frame | three places start a capture again; two threads tune one interface; four captures are to tell the same of a frame | `WiFiMonitor`, `ScannerFeed`, `WiFiEvents` |
| API (`app/main.py`) | none of its own | the gate, `replace_existing`, the routes and WebSockets | check-then-act over the dicts of four managers; clients that go away at any await | `DeviceGate`, `Viewers`, `ScannerFeed` |
| WiFi scanner (`app/wifi_scanner.py`) | what it has printed, its scan | start or attach, poll, print, stop; or capture by itself | ends in many ways, and must stop only its own scan; hops by other code than the gateway | `ScannerFeed`, `WiFiEvents` |
| Planning arithmetic (several files) | none | ranges, windows, gains | boundaries, 16-bit numbers, windows at the ends of a range | `FrequencyPlans` |
| auth, config, models, observability, CLI, web page, device helpers | none shared | | stateless, or pure I/O | none |

Interaction: the routes call the managers from the web server's thread pool (a
synchronous route is one thread) or, for WebSockets and asynchronous routes, from
the event loop, where `read_chunk` runs in a worker thread (`asyncio.to_thread`).
Managers call a backend, which spawns a process; reader and collector threads read
the process's pipe into the session. A retune goes through the manager to the
process's standard input when it has such a channel, and replaces the process
otherwise. The gate reads the managers' dicts. Managers share no lock.

`PROJECT.json` lists the hazards of this code line by line ("hazards") and the
properties that cover them, and maps every definition to the lines it models.

## 2. Modules

    LossyFeed                abstract: a feed of numbered chunks and its subscribers
      ^ implemented by
    StreamBuffer             the ring of one stream session and its readers
      MCStreamBuffer           instances for TLC
      StreamBuffer_proofs      theorems about StreamBuffer, for all constants
    StreamManager            lifecycle of stream sessions, reader threads, processes
      StreamManager_proofs     theorems about StreamManager, for all constants
    LiveRetune               retunes of a live worker, from the request to the samples
      LiveRetune_proofs        theorems about LiveRetune, for all constants
    Viewers                  who reads a stream or a hopping IQ sweep, and who ends it
    NativeSweep              frames of a native IQ sweep, written and cut out again
      IQSweep_proofs           theorems about Viewers, and NativeSweep with one reader
    DeviceGate               occupancy gate and the sessions of four managers
      DeviceGate_proofs        theorems about DeviceGate, for all constants
    Jobs                     bursts, power sweeps and missions
      MCJobs                   instance for TLC
      Jobs_proofs              theorems about Jobs and FrequencyPlans, for all constants
    WiFiMonitor              WiFi captures on one interface, and who restarts them
      WiFiMonitor_proofs       theorems about WiFiMonitor, for all constants
    ScannerFeed              events and channel of a WiFi scan, and who follows it
    WiFiEvents               frames to events, command lines to channels (no state)
      MCScannerFeed            both, for TLC, with assumptions about WiFiEvents
      ScannerFeed_proofs       theorems about both, for all constants
    FrequencyPlans           requests to frequencies, and the windows of a sweep
      MCFrequencyPlans         instance for TLC, assumptions about the arithmetic

Each module takes what its neighbours do as actions of its environment, so that
each instance stays small enough to be explored completely: `StreamBuffer` has
flushes and stops at any time (who makes them is in `StreamManager`), `Viewers` has
a ring without eviction and a stream whose reader thread restarts or gives up in
one step, `LiveRetune` has a gateway that reads and stops, `Jobs` leaves it to
`DeviceGate` who may open a device. Definitions whose comment begins with "Error:"
are not part of the models; they are plausible bugs, which the properties detect.

### StreamBuffer

`buffer`, `buffer_bytes`, `next_seq` and `cursors` are the fields of the same name
of `StreamSession`. A chunk is its sequence number and the interval
`[at, at + len)` of the device's byte stream; the samples themselves are nowhere
looked at. Each `with session.condition:` block is one action, except the eviction
loop of `_append_stream_chunk`, which is stepped chunk by chunk (`AppendChunk`,
`Evict`, `AppendDone`) so that "the budget is exceeded only while the loop runs"
can be said and proved. `evicting` stands for the lock being held by that loop.

`_read_chunk_blocking` is `Call`, then `Deliver`, `ReturnEmpty` or `Wait`; a
waiting thread may be woken at any time (it wakes every 0.1 s anyway), and
`DeadlinePasses` is its 2 s deadline. `Selected` says which chunks one pass of the
selection loop takes. A cursor may be released while a read through it is in flight,
as happens when a WebSocket goes away: the worker thread is not cancelled.
`from`, `got` and `lost` are history variables: where a cursor started, what it was
given, what eviction and flushes took from it.

`LossyFeed` states the promise without ring, lock or thread. The mapping is
`low <- next_seq - Len(buffer)`, `high <- next_seq`, `position <- cursors`,
`got <- got`. A flush leaves one number unused (`next_seq += 1`), in the code and
in both models.

### StreamManager

Processes are numbered in order of creation and are "live", "eof" (pipe closed, not
reaped) or "dead"; a reader thread is named by the process whose installation
started it. Every blocking call of the code is a point where threads interleave:
`start` is spawn, register, start reader; `stop` is pop and signal, then join and
kill; a cold `retune` is signal, join, kill, spawn, install, start reader; the
reader loop is its head, the blocking read, the decision after an empty read, and
the end; `_restart_stream` is enter (lock and check), spawn or fail, install.
`recent` stands for "less than a second since `retuned_at`". A backend may fail to
start a process (`RetuneFails`, `RestartFails`). `thread.join(timeout=1.0)` (1166)
returns when the thread has ended or after a second, and its caller goes on in either
case, so `StopKill` and `RetuneKill` wait for nothing. Nothing keeps two requests for
one session apart: a retune may begin while its start, another retune or its stop is
under way. Three variables are history, read by properties only: `given_up` holds the
running reader threads a join has given up on, `overlapped` the sessions retuned while
a start or a retune of theirs was unanswered, `restarted` the processes a restart has
replaced. Streams are continuous; `stop_all` is `stop` in a loop.

### LiveRetune

A setting is the number of the command that asked for it, with its sample rate,
which stands for whatever makes a worker stop and start its stream. `Retune` and
`Record` are the two halves of `StreamManager.retune` (the command is written under
`_control_lock`, the session's config assigned later); `ReadOut`, `StopReading`,
`Terminate` and `WaitOrKill` are the gateway's end of the pipes. `hackrf_stream.c`
has a control thread that fills one pending slot, a main loop that takes it, stops
the radio if the rate changes, tunes and writes a log line, and a callback that
counts and writes samples without the lock. `Tune` sets frequency and sample rate
(`device`) and of the filter and the gains what the driver takes: a refused gain or
filter is logged and nothing more, a filter of 0 is left as it was (149-175 of
`hackrf_stream.c`), and soapy ignores an exception. `extras` is the command whose
filter and gains the radio has, `partial` remembers that the last setting was not
applied in full. A refused frequency or rate ends the worker (`TuneFails`). Each line
of log needs room in the pipe (`Complain`, `Log`). `soapy_worker.py` has a queue drained
between two reads; the libiio and sidekiq workers have no control channel. Finite
streams count down their samples. Both pipes are bounded: `Capacity` blocks of
samples, `LogRoom` lines of the log that nobody reads.

### Viewers

Handlers are coroutines on one event loop: a retune or a stop made by a handler
blocks it (`loop`), the stop routes and reads run in threads. A handler is a stream
WebSocket (with or without `keep`), a sweep WebSocket, a request for one chunk of a
sweep, a probe, or a stop. `CallReads` and `Advance` are
`IQSweepManager.read_chunk` with and without a hop; `TuneEnds`, `TuneFails` the hop's
retune, live or cold; `ReadChunk`/`ResumeChunk` the read in its thread and the
handler taken up again after it, where the label is computed. The start of an IQ
sweep chooses between a native worker and a stream as the code does: a class that
inherits from `SDRBackend` has `start_iq_sweep`, whatever it does. A stop takes the
session out of the dict (`Leave`, `StopSweep`) and ends its process in a later step
(`StopEnds`), between which the cold retune of another reader may start a new one;
`stream.crossed` is history and remembers that.

### NativeSweep

A unit of the pipe is `<<n, i>>`, unit `i` of frame `n`, the first two of them the
header. `RxSweepCallback` takes the blocks of one USB transfer (`blocks` left of it),
`WriteFrame` puts the unit `unit` of the current frame into the pipe; signals and
exits come at any moment, and a worker told to stop sees it where it looks
(`StopSeen`). `_read_native_exact` is
`ReadSome` (any number of units), `Enough`, `Deadline`, `ExitSeen`; the header that
is pushed back when its payload is late is `Deadline` followed by `PutBack`.

### DeviceGate

A session has a kind (its manager), a device, and two flags: `listed` in its
manager's dict and `open`, its process has the device. Between the two lies every
race of this part: managers list a session after its process runs;
`StreamManager` and `IQSweepManager` unlist it before the process ends,
`SweepManager` and `TxManager` after. Requests are release (manager by manager, one
victim at a time), check, open, list; `Occupying` is `_device_occupancy` (RX
sessions occupy whatever their status, TX while it runs). `ApexStart` is the start
of a mission, which skips the check. The four dicts are read in one step, and the
fallback IQ sweep that borrows a stream is in `Viewers`. `raced` is history: another
request dealt with the same device between a request's first and last step.

### Jobs

A job is a number; its record holds the session and its process: kind, worker,
`listed`, status, `proc`, the burst file, the rows in the pipe and the window.
Starting is file and process, then the listing; stopping is the lookup, the end of
the process (which also removes the file), then the removal. `Refresh` goes through
the dict of bursts entry by entry and fails if its size changed (`RefreshEnds`).
`Transmit` and `BurstOver` are the workers' loops. `BusyStreamStart` is
`_terminate_child_hackrf_transfers`, called for a stream that finds its HackRF busy.
`Run`, `ActSweep`, `ActSkip`, `ActQueue`, `Conclude` are `ApexHunterService.run`: a sweep
on one of the five drivers of `apex_hunter.py` 328 is started or fails, one on another
target is skipped with a note (345), a call of an API is noted as queued.

### WiFiMonitor

Captures are numbered processes; `process`, `status` and `stopping` (`_stop`) are
fields of a session, `listed` the keys of `_sessions`, `mode` the interface's. The
blocks under `session.lock` are atomic and everything between them interleaves.
Requests start (`Start`, one `Replace` and `Kill` per session replaced,
`PrepareMonitor`, `Register`, `Capture`, `StartThreads`), stop (`Stop`, `Kill`) and
list; `_refresh` (`RefreshLook`, `RefreshPoll`, `Recapture`) is run by every listing
request and by each collector at its end, over the dict as it changes. The collector
is `Collect`, `CollectLine`, then `CollectRestart` or `CollectAgain`; the active scan
is `ScanTakes`, `Scan`, `ScanRestores`, `ScanResumes`. A capture may fail to start
wherever the code starts one.

### ScannerFeed

`session` has the deque of newest events, `event_count` and `current_channel`;
`channel` is what the interface is tuned to. `HopBegins` to `HopEnds` are the hop
thread (it sets the channel under `control_lock` and notes it afterwards),
`ScanBegins` to `ScanEnds` the active scan that restores the channel. `Cli*` are
`_run` of the scanner: start or attach, poll, print event by event what its `seen`
set does not hold, stop its own scan in the `finally`; a signal, a failed poll,
a broken output in the middle of a batch and a lost stop may end it. `polled` and
`lagged` are history: how far the last poll went, and whether two polls were ever
further apart than a window. `Ws*` is `wifi_scan_stream`, which keeps an index into
the newest events.

### WiFiEvents

Operators without state. A command line becomes the channels the radio goes through,
by way of the request (`Payload`, `ChannelsForConfig`: `GatewayRoute`) or in the
scanner itself (`ChannelsForArgs`: `LocalRoute`). A frame, which has a type, a
subtype, addresses and perhaps a name, becomes an event in four ways: `TcpdumpEvent`
(words of a line), `TsharkEvent` (fields), `ScapyEvent` (the gateway's packets) and
`LocalEvent` (the scanner's). `ParseIwScanOutput` folds the lines of `iw scan`, of
which `LinesOf` says what `iw` prints for a network. Wording, signal strengths and
times are left out.

### FrequencyPlans

Pure operators for `POST /sweeps/plan`, `_recommended_sweep`, gains (rounded to steps
where a stream or an IQ sweep is started, sent as they are by a sweep and a live
retune), whole MHz of `hackrf_sweep`, tuning ranges (with `uint16_t`) and block sizes of
`hackrf_iq_sweep.c` and centres of IQ sweeps; and, as a state machine
with one step per turn of its loop, `_window_centers` of `soapy_sweep_worker.py` with
the rows `main()` prints.

## 3. Runs

| Run | Instance | Shows |
|---|---|---|
| `StreamBuffer_c` | cursors `c1`, `_default`, one reader each (2 bytes at a time; a chunk at a time), ring of 2 bytes, chunks of 1 or 2, 3 numbers | `RingInv`, `ExactlyOnce`, `WaitingNeverRevives`, and `ImplementsFeed` (refinement) |
| `StreamBuffer_live` | the `_default` reader, 4 numbers, ring of 3 bytes, chunks of 1 or 2 | `ReadReturns`, `FeedProgress` |
| `StreamManager` | one session, two clients, all requests at any time, joins that give up at any time, 6 processes and requests together | `Safe` (types, at most one reader nobody gave up on), `NeglectOnlyByInstall`, `RestartedOnce`, `FailureNoticed`, `ReadersEnd` |
| `LiveRetune` | each of four workers, two clients, two rates, streams with no limit or 3 samples, blocks of 2, pipes of 1 block and 2 lines, 2 retunes | `Safe` (types, finite streams exact), `QuietAgrees`, `SamplesInOrder`, `RateChangesAtRest`, `RetuneReachesDevice` |
| `Viewers` | two handlers of every pair of roles, both kinds of backends, 2 centres, 2 captures, one chunk held | `ViewersSafe` (types, no cursor left), `NotLeftRunning`, `LabelRight`, `HandlersEnd` |
| `Viewers_stub` | a chunk request or a stop, a backend that inherits the stub | `SweepHasSource` fails (below) |
| `NativeSweep` | one reader, 5 frames of 4 units, 2 per transfer, a pipe of 5 units | `Safe` (types, nothing lost, the buffers bounded), `FramesIntact`, `ReadsEnd` |
| `DeviceGate` | two requests at once, two devices, two sessions, missions | `Safe` (types, replacing is refused only by TX), `ExclusiveUnlessRaced`, `RequestsAnswered` |
| `Jobs` | two clients, two jobs, HackRF and libiio bursts, a mission of two sweeps, one skipped sweep and an API call, a window of 2 rows, 3 rows | `Safe` (types, the mission's status), `NothingLeftBehind`, `WindowIsNewest`, `CollectorsEnd` |
| `WiFiMonitor` | one client, two sessions that replace each other, one with active scans, all requests, 3 captures | `TypeOK`, `OnlyUncheckedStartsHarm`, `ThreadsEnd`, `DeadCaptureNoticed` |
| `ScannerFeed` | 2 channels, active scans, a deque of 2, polls of 2, 3 events; and seven `ASSUME`s about `WiFiEvents`, over frames of every type and subtype, and `iw` outputs of two networks | `Safe` (types, the channel told), `FeedsExact`, `OwnScanStopped`, `WsServed` |
| `FrequencyPlans` | ranges from -3, 0, 1, 7 to 1..24, six rates from 0 to 14, bins of 1, 2, 3, 7; and three `ASSUME`s about gains, tuning ranges and centres | `PlanSafe` (types, the rows cover the range), `PlanEnds` |

Bounds, and why they are enough.

* `MaxSeq`, `MaxSamples`, `MaxFrames`, `MaxEvents`, `MaxRows` bound what a device
  delivers. Each is larger than the buffer it goes through (ring, pipe, window,
  deque), so that every buffer fills, overflows and is emptied again; what happens
  later repeats with larger numbers.
* `MaxWork` of `StreamManager` bounds processes and requests together (a request that
  starts nothing counts, too): with 6, for example, a start, two retunes or a retune and
  a stop, and three processes. That is enough for a join that gives up on a
  restarting reader, for the second reader that a cold retune then starts beside it,
  for both to find the same process dead, and for a stop in between. At the bound a
  restart or retune can only fail. `MaxProcs` of `WiFiMonitor`: with 3 captures two
  sessions can each start one and one be restarted.
* `LogRoom` is 2 lines: two failed setters, or two retunes, fill the pipe of standard
  error of a `LiveRetune` worker, so the run has workers that block on it.
* Two sessions of one manager do not touch each other's state, so one stream
  session suffices; two clients are the least that race, two jobs the least for a
  mission with a sweep that works and one that fails, two devices the least for a
  bystander of a release.
* The windows of `FrequencyPlans` are checked in Hz that are as small as the
  half-widths (0 to 6), which gives ranges narrower than a window, of several
  windows, and windows without width; negative limits only show that the sign plays
  no part. The theorem does without the bounds.

Deadlock checking is off: a system at its bound, or with no request, rightly stops.

Fairness. Each `FairSpec` assumes that threads which can run do run, and only that
of the outside world which its comment names: an exited process is reaped and time
passes (`StreamManager`; the 2 s deadline of reads in `StreamBuffer`), the gateway
reads the pipe of a live worker and finishes a stop it has begun (`LiveRetune`,
`NativeSweep`, `Jobs`), the event loop takes up every coroutine that can go on
(`Viewers`; asyncio's ready queue is first in, first out). The ring's reads are
strongly fair, because the lock is taken and given up again in between. A running
`hackrf` or capture is assumed to deliver samples or lines only where a thread would
otherwise rightly wait for ever (`StreamManager`, `WiFiMonitor`). Client calls are
fair only in `StreamBuffer` and `ScannerFeed`, where the client is the loop of a
WebSocket handler; nobody is ever obliged to make a request.

### What the code does not do

`Viewers_stub` shows a defect: IQ sweeps start natively when the backend has an
attribute `start_iq_sweep` (1577), which every class that inherits from `SDRBackend`
has. For all but HackRF the call returns `None`, and the session is listed with
neither process nor stream; it gives no samples, keeps the device occupied, and its
stop fails. The tests of the fallback use a backend that does not inherit.

Some of the properties say who may break a promise, because the code, under a race,
does break it:

* `NeglectOnlyByInstall`: a retune remembers the process to stop, then joins the
  reader thread (1095). If the reader is in an automatic restart, the restart
  installs its new process, and `retune` stops the old one and overwrites the new
  one, which then runs outside every session. When a join gives up on a restarting
  reader (1166) or retunes overlap, it can be the restart that overwrites the retune's
  process, or puts its own into a session stopped meanwhile. A live retune into a pipe
  just closed sets the status back to "running" while the reader ends (1090).
* `SingleReader` (in `Safe`): a reader a join gave up on sees the new `stop_reader`
  event and goes on beside the one the retune starts. The property says that there is
  no other way to two readers but overlapping retunes; `RestartedOnce` and `ReadersEnd`
  hold with any number of them.
* `RetuneReachesDevice`: a worker blocks for ever on a line of log when the pipe of its
  standard error, which nobody reads, is full (about 64 KiB), and applies no more
  retunes. The property says that nothing else stops one.
* `FailureNoticed` promises no restart: the pipe of a dying process closes before
  `poll()` can see the exit, and in that window the reader gives the stream up (1212).
* `OnlyUncheckedStartsHarm`: `_refresh` (213) and `start` (171) start a capture
  without looking whether the session got another, was stopped, or scans.
* `ExclusiveUnlessRaced`: check and start are not under a lock (`main.py` 232), and
  missions do not ask at all.
* `QuietAgrees`: two retunes may be written in one order and recorded in the other; and
  the radio keeps an older filter or gain when the driver refuses the new one, or when
  the filter asked for is 0.
* `LabelRight`: a second viewer's hop, a hop that failed, and samples in flight at a
  live retune get the wrong centre.
* `NotLeftRunning`, `NoCursorLeft`: a WebSocket whose handshake fails leaves its
  cursor, and the stream, behind (`main.py` 626). A cold retune under way while
  another client stops the stream starts a process for a session that is in no dict
  any more.
* `FeedsExact`, `WsServed`: once the deque is full, `wifi_scan_stream` falls silent
  (`main.py` 511).
* `NothingLeftBehind`: a burst whose process could not be started leaves its file.
* `MissionTold`: a sweep on a target of another driver is skipped and is no failure
  (`apex_hunter.py` 345), so a mission can be "running" with nothing started.

The assumptions of `MCScannerFeed` state exactly what the parsers make of their input,
and with it:

* `Parks`: the help of `--channel` (`wifi_scanner.py` 77) is "Park on one channel
  instead of hopping."; through the gateway `--channels`, if given too, win and it
  hops (198). Without a gateway it parks.
* `OwnLines`: `iw`'s "BSS Load:" is taken for the header of a network called "load:"
  (531), and a frequency with a fraction for none (554).
* `KindFromName`: the kind of a frame is looked for in the whole of tcpdump's line, so
  a network called "beacon" makes beacons of its probe responses (576).
* `CapturesAgree` and the theorem `LocalChannelOfMoment`: the scanner without a gateway
  gives a frame the channel the radio is on when the frame is handled, not the one it
  was received on; tcpdump's pattern reads no frequency from 7000 MHz up (595).

One holds only with the constants given: `NativeSweep` with two readers mixes frames.

## 4. Proofs

### StreamBuffer_proofs

For every ring size, chunk size, set of cursors and threads, every assignment of
cursors and read sizes (`SizesAssumption`, `ReadersAssumption`):

| Theorem | Property |
|---|---|
| `TypeCorrect` | `TypeOK` |
| `RingIsContiguous`, `RingKeepsBudget`, `CursorsStayWithinRing` | the parts of `RingInv` |
| `RingInvariant` | `RingInv` |
| `DeliveredExactlyOnce` | `ExactlyOnce` |
| `WaitingReadsReviveNothing` | `WaitingNeverRevives` |
| `RingImplementsFeed` | `ImplementsFeed` |

The argument. `RingBudget` is not inductive: after popping the oldest chunk the
count is right only if the next chunk begins where the popped one ended, which is
`RingContiguous`. `CursorsWithinRing` needs it too: a cursor moved to `old_seq + 1`
is within the ring only because the new oldest chunk has just that number.
`ExactlyOnce` needs both, and that a delivery starts exactly at the cursor: the
clamp at 1233-1235 is shown never to fire, so nothing is skipped without being
counted as lost. The invariants are therefore proved in that order, each from
`TypeOK` and the ones before it, with one step per action. The refinement takes
each action to a step of the feed or to a stutter (`Evict` to `Expire`,
`AppendChunk` to `Publish`, `Deliver` to `Deliver` or `SubscribeAndDeliver`, ...).
The eviction loop is where the ring may be over its budget: `RingBudget` says so by
exempting exactly the states in which it holds the lock.

### StreamManager_proofs

For every set of sessions and clients and every number of processes and requests,
whatever joins give up and whatever requests overlap (`ConstantsAssumption` is all that
is assumed):

| Theorem | Property |
|---|---|
| `ReadersAlone` | `Safe` (`TypeOK` and `SingleReader`) |
| `RestartsOnce` | `RestartedOnce` |
| `OnlyInstallsNeglect` | `NeglectOnlyByInstall` |

The argument. None of the three is inductive. A new reader thread is alone only if
the old one had ended, or a join gave up on it, several steps earlier. `OneReader`
carries that: a reader still running that nobody gave up on is the `reader_thread` of
its session, a retune joins just that thread, and from its join (and before a first
start) to its new thread the session has none. It rests on `ClientsApart` (one start or
retune of a session is under way at a time, unless it is noted as overlapped) and on
`NamesFresh` (no thread's name is used twice).

A restart is called for a process its reader found dead, and by the time it looks again
under the lock, several readers may have been called for the same one. `RestartsHold`
says that of those one has the lock, `NewApart` and `OldApart` that a process is put
into one session, once, so that it does not come back, and `ReplacedGone` that what has
been replaced is in the session only until the restart that holds the lock installs its
successor; the comparison at 1399 then lets nobody else through. `RestartsMatch` ties a
restart to the session's process as long as no join gave up on it and no retunes
overlapped, and has a stop meanwhile wait for it: such a restart loses nothing.
`OrphanStep` and `UnreadStep` go through the actions once more.

### Jobs_proofs

About `Jobs`, for every set of clients and of workers, plan of a mission, window, pipe
and number of jobs and rows (`JobsAssumption`):

| Theorem | Property |
|---|---|
| `JobsNothingLeftBehind` | `NothingLeftBehind` |
| `JobsWindowIsNewest` | `WindowIsNewest` |
| `JobsSafe` | `Safe` (`TypeOK` and `MissionTold`) |

The argument. `NothingLeftBehind` is about a job that nobody handles any more, and what
its last request did lies steps back. `JobsInv` (theorem `JobsInvHolds`) carries it.
`Knows` says what a request has made sure of by its place: a start has a job that no dict
lists yet, with no process before `Spawn` and with one after it; a stop that has ended a
process finds it ended, with its file gone, when it takes it from the dict, although
others may stop the same job in between. `StartsApart` says that two starts never work
on one job, and `Accounted` that a job which is neither listed nor being started is at
rest. `WindowIsNewest` is inductive with `JobsInv`: a malformed row shortens the pipe
only, a good one is the next number, so it joins the end of the window. For the status of
a mission, `OneMission` says that one request carries it out, and `PlanCounted` counts
its starts, skipped sweeps, failures and the start under way against the sweeps of its
plan.

About `FrequencyPlans`, for every range, rate and bin width (`PlansAssumption`),
`SweepCovers` proves `PlanSafe`: every frequency of a sweep is in a printed row. Coverage
at the end is not inductive. `PlanIInv` adds that the windows so far cover the range up to
the cursor (`Reached`) and that a plan of windows with a width ends only at the end of
the range (`OverAtStop`): a window starts at the cursor or before it and ends where the
next cursor is, and the same window is noted once. `RowHoldsWindow` then carries a
frequency from its window to the row, which is moved outwards to whole bins.

The other theorems are about single operators: `PlanWithinDevice` and
`PlanHoldsFrequencies` (planned sweeps), `RecommendationFits` (Apex),
`GainsAreSteps` (which senders round a HackRF's gains, and how far the gain of a start
is from that of a retune with the same request), `WholeMHzOfSweep` (exactly which sweeps
`hackrf_sweep` is given as an empty range: narrow ones, which the API accepts),
`TuningRangesHold` and
`ChunksAreBlocks` (the native worker, with its 16-bit numbers; the former up to 65
GHz, above which they wrap).

### IQSweep_proofs

About `Viewers`, for every set of handlers, every choice of roles and backends and any
number of centres, captures and chunks (`ViewersAssumption`, which also says that the
cursors of WebSockets, being uuids, are not called "sweep" or "_default"):

| Theorem | Property |
|---|---|
| `ViewersSafeHolds` | `ViewersSafe` (`ViewersTypeOK` and `NoCursorLeft`) |
| `ViewersLeaveNothingRunning` | `NotLeftRunning` |
| `ViewersLabelRight` | `LabelRight` |

The argument. All three follow from the invariant `ViewersInv` (theorem
`ViewersInvHolds`). `Fit` says which places a handler can be at in its role, and `Sees`
what its place tells of the stream and the sweep: both go only forwards (none, listed,
gone), so what a handler has seen stays true while it waits, whatever the others do, and
a stop that finds its session missing finds it gone for good. That is one half of
`NotLeftRunning`; the other half, about the process, is the invariant `Killed`: a stream
that is gone has a dead process, or the handler that took it out is about to end it, or
a cold retune crossed the stop.
A sweep is taken from its dict before its stream is, and in between the stream runs with
a sweep that is gone: `BeingStopped` says that somebody is then at that very step.
`CursorsOwned` gives every cursor its owner: a viewer's own cursor exists only between
its coming in and its `finally`, that of a probe while one is under way, that of the
sweep as long as its stream. Cursors and chunks may be cleared, never brought back by
somebody else. For `LabelRight`, `TunedRight` ties the tuning of the stream to the index
of its sweep, with the exceptions of a hop under way or failed and of a stream that is
gone, and `RingRight` carries it over to the chunks in the ring: a chunk is labelled when
it is sent, and between the read and the sending (`Labelled`) only another reader's
`Advance` can change the index, which marks it as overtaken.

A step is shown to keep `ViewersInv` in three parts (`OneStep`): what it does to stream
and sweep (`WorldGoesOn`), to cursors and chunks (`CursorsGoOn`), and to the one handler
that moves (`HandlerGoesOn`); the others then still see what they saw. Only `Advance`
touches all handlers.

About `NativeSweep`, for every payload, pipe, transfer, number of centres and of frames (`SweepAssumption`)
and a single reader (`OneClient`: with two the theorems are false, see above):
`FramesAreIntact` proves `FramesIntact`, `NothingIsLost` proves `Safe`.

The argument. Units are numbered in the order they are written (`Place`), and every
container holds consecutive ones (`Follows`). `HoldsNext` says that the request holds
the units right behind those delivered and a header taken, and that the session's
buffer begins at the same unit and is no longer: that is why a deadline may forget
the request's copy, and why pushing the header back restores the place. `PipeNext` is
the other half, the pipe goes on where the request stops. An exit breaks both, since a
read may then take a header and give up; what is left has no header in it (`Torn`), so
nothing more is ever found. `LocalBounded` is the bound on what a request holds: less
than a frame, or what one read of the pipe can add.

### DeviceGate_proofs

For every set of devices, request threads and session ids, with missions or without:
`SafeHolds` (`Safe`) and `ExclusiveUnlessRacedHolds` (`ExclusiveUnlessRaced`).

The argument. A request that was let through found the device free one step before it
opens it, and its release may have begun many steps earlier. `AdmittedIsFree` carries
the first over, `Cleared` the second: the receivers left on the device are those of
managers not yet visited, noted as victims, or being stopped. Both hold as long as
nobody else deals with the device (`AloneUnlessRaced`), and a session in no dict is
always in some request's hands (`UnlistedIsHandled`), which therefore counts as one
that deals with the device; `OpenedIsOwn` and `VictimsOfDevice` keep ids from meaning
another session than they did.

### LiveRetune_proofs

For all four workers and every set of clients and rates, limit, block, pipes and
number of retunes: `SafeHolds`, `QuietAgreesHolds`, `SamplesInOrderHolds` and
`RateChangesAtRestHolds` (`Safe`, `QuietAgrees`, `SamplesInOrder`,
`RateChangesAtRest`).

The argument. `CommandsInOrder` says where the newest command is on its way through
standard input, the queue (or pending slot) and the main loop, and that what it
overtakes is dropped, not reordered; `NewestRecorded` that the session has it or a
client is about to record it; `Applied` ties the radio, its filter and its gains to the
setting unless it was applied in part. Together they give agreement at rest.
`SamplesFollowDevice` orders the settings of what was delivered, is in the pipe and in
the worker's hands below the radio's. `RestAtTune` remembers, between the decision to
change the rate and the change, that the stream has stopped. `FiniteRuns` and
`WithinLimit` say that a finite stream is never retuned, so that only its limit ends
it, and how far the last block may go.

### WiFiMonitor_proofs

For every set of sessions, clients and captures: `TypeCorrect` (`TypeOK`) and
`OnlyUncheckedStartsHarmHolds` (`OnlyUncheckedStartsHarm`).

The argument. `OnlyUncheckedStartsHarm` speaks of steps, and a step of a collector is
harmless only because of what other threads cannot have done since it looked.
`CollectsHeld` is that knowledge: whoever gives up a session, or takes its capture for a
scan, takes the capture first, so a collector whose capture is still its session's
finds the session in somebody's hands. `ScansLive` and `RequestsStart` say that threads
work for sessions which are listed or told to stop, `CapturesStarted` and
`LooksAtStarted` that what they poll exists. Each step is first shown to keep the
invariant and to move the world only forwards (a dead capture stays dead, a stopped
session stopped), then to be harmless.

### ScannerFeed_proofs

For every number of channels, `max_events`, `event_limit` and limit of the websocket,
and any number of events: `SafeHolds` (`Safe`), `FeedsExactHolds` (`FeedsExact`) and
`OwnScanStoppedHolds` (`OwnScanStopped`).

The argument. `HoldsNewest` gives the deque's contents, the newest events without a
gap. `PrintedUpto(m)` is what the scanner has printed between two steps of a batch:
nothing beyond `m`, all of the newest window up to `m`, and without a lag everything.
A new batch either overlaps what was printed, or a lag is noted and `m` jumps to its
beginning; within a batch (`BatchEnds`) the next event is one up to `m`, which is in
`seen` because it is within the window, or is `m + 1`. Without the window the former
could be an event the scanner had skipped. `WsExact` adds to the property that the
index is within the deque, so that it is not taken for a restart. `OnChannel` follows
the interface through a hop that has set its channel and not noted it. `Later` is all
the followers need of a step of the session. `OwnScanStopped` is inductive with
`StartedOnce`: nobody can start the session again.

About `WiFiEvents`, for all frames and frequencies: `ChannelsAreKept` (channel to
frequency and back), `ChannelOfFrame` (an event of the gateway has the frequency and the
channel of its frame, whatever channel the session is on) and `LocalChannelOfMoment`.

### Only model-checked

* All liveness, which needs `ENABLED`: `ReadReturns`, `FeedProgress`,
  `FailureNoticed`, `ReadersEnd`, `RetuneReachesDevice`, `ReadsEnd`,
  `RequestsAnswered`, `ThreadsEnd`, `DeadCaptureNoticed`, `WsServed`, `HandlersEnd`,
  `CollectorsEnd`, `PlanEnds`.
* Facts about folds, whose proof is an induction over a sequence: `SameRoute` (removing
  duplicates twice is removing them once), `OwnLines`; and those that compare with an
  enumeration or with a table: `TablesAgree`, `CapturesAgree`, `KindFromName` and the
  assumptions of `MCFrequencyPlans`.

## 5. Not modelled

* Request validation and authentication, log and metric formatting: stateless.
* Device discovery, command lines, kernel modules, USB enumeration, listing of
  interfaces, resource discovery of Apex: pure I/O whose results are inputs.
* The text of lines (tcpdump, tshark, `iw`, CSV of sweeps) and the conversion of
  samples: `WiFiEvents` has frames and fields instead of characters, a row of a sweep is
  well-formed or not, a chunk has a centre, and no more. The sidekiq worker writes
  int16 samples where `README.md` 274 documents int8; no property is about formats.
* The loop of the scapy collector, which has no process (its events are in
  `WiFiEvents`), and the threads of the scanner's local mode (its channels and events
  are).
* `_collect_pyshark_events` with `_event_from_pyshark_packet`, which nothing calls, and
  `_local_hop_loop`, which is never reached.
* The CLI, the example client, the service script and the web page: sequential
  programs that keep no state between requests.
* A crash or restart of the gateway: it keeps nothing that survives one.

Every invariant and every action property of a passing run is stated by a theorem of
section 4. Worth doing next: one model of `StreamManager` together with `DeviceGate` for
exclusiveness across restarts.
