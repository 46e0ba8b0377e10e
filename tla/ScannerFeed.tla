---------------------------- MODULE ScannerFeed ----------------------------
(***************************************************************************)
(* One WiFi scan of the gateway and the programs that follow it: the deque *)
(* of newest events of a WiFiMonitorSession and the threads that hop from  *)
(* channel to channel and scan actively (src/app/services.py), the         *)
(* websocket wifi_scan_stream (src/app/main.py), and the command line      *)
(* scanner, which starts a scan or attaches to one, polls its events,      *)
(* prints the new ones and stops its own scan when it ends                 *)
(* (src/app/wifi_scanner.py, _run).                                        *)
(*                                                                         *)
(* Events are numbered in the order they are appended, and no two have the *)
(* same key.  Each request is one step of the gateway.  Captures and their *)
(* processes are in WiFiMonitor.                                           *)
(***************************************************************************)
EXTENDS Integers, Sequences, SequencesExt

CONSTANTS
    Channels,       \* number of channels of the session, hopped over in order
    MaxHeld,        \* max_events of the session
    Limit,          \* event_limit of the scanner, at most 1000
    WsLimit,        \* the 1000 events wifi_scan_stream asks for
    Scans,          \* active_scan
    MaxEvents       \* bound on the events ever appended

ASSUME ScannerAssumption ==
    /\ Channels \in Nat \ {0}
    /\ MaxHeld \in Nat \ {0} /\ Limit \in Nat \ {0} /\ WsLimit \in Nat \ {0}
    /\ Scans \in BOOLEAN /\ MaxEvents \in Nat

VARIABLES
    session,        \* listed, its events, event_count and current_channel
    channel,        \* the interface is tuned to
    off,            \* history: a tuning failed, or crossed another one, since
                    \* the last hop
    control_lock,   \* "hop", "scan" or "free"
    hop, scan,      \* the two threads
    cli,            \* the scanner with its local variables
    ws              \* wifi_scan_stream, and all it has sent

radio == <<channel, off, control_lock>>
threads == <<hop, scan>>
vars == <<session, radio, threads, cli, ws>>

Tuned == 1 .. Channels
Events == 1 .. MaxEvents

TypeOK ==
    /\ session \in [listed : BOOLEAN, stop : BOOLEAN, events : Seq(Events),
                    event_count : 0 .. MaxEvents, current_channel : Tuned]
    /\ Len(session.events) <= MaxHeld
    /\ channel \in Tuned /\ off \in BOOLEAN
    /\ control_lock \in {"free", "hop", "scan"}
    /\ hop \in [pc : {"off", "wait", "set", "assign", "done"}, index : Tuned]
    /\ scan \in {"off", "wait", "scan", "finally", "done"}
    /\ control_lock = "hop" <=> hop.pc = "set"
    /\ control_lock = "scan" <=> scan \in {"scan", "finally"}
    /\ cli \in [pc : {"start", "early", "get", "print", "stop", "done", "cut"},
               own : BOOLEAN, once : BOOLEAN, stop_requested : BOOLEAN,
               batch : Seq(Events), printed : Seq(Events), polled : 0 .. MaxEvents, lagged : BOOLEAN]
    /\ ws \in [pc : {"off", "poll", "closed"}, sent : 0 .. WsLimit, log : Seq(Events)]

Init ==
    /\ session = [listed |-> FALSE, stop |-> FALSE, events |-> <<>>, event_count |-> 0,
                  current_channel |-> 1]
    /\ channel \in Tuned /\ off = FALSE /\ control_lock = "free"
    /\ hop = [pc |-> "off", index |-> 1] /\ scan = "off"
    /\ \E own, once \in BOOLEAN :
          cli = [pc |-> "start", own |-> own, once |-> once, stop_requested |-> FALSE,
                 batch |-> <<>>, printed |-> <<>>, polled |-> 0, lagged |-> FALSE]
    /\ ws = [pc |-> "off", sent |-> 0, log |-> <<>>]

-----------------------------------------------------------------------------
(* The session                                                             *)

Newest(seq, n) == IF Len(seq) <= n THEN seq ELSE SubSeq(seq, Len(seq) - n + 1, Len(seq))

CanAppend == session.event_count < MaxEvents

\* _append_event: deque(maxlen=max_events)
Appended(s) == [s EXCEPT !.event_count = @ + 1,
                         !.events = Newest(Append(@, s.event_count + 1), MaxHeld)]

\* WiFiMonitorManager.start; when the first channel cannot be set, an event
\* says so.
Started(listed_session, tuned) ==
    /\ session.event_count = 0 /\ ~session.listed /\ ~session.stop
    /\ session' = listed_session /\ channel' = tuned /\ off' = (tuned # 1)
    /\ hop' = [hop EXCEPT !.pc = IF Channels > 1 THEN "wait" ELSE "off"]
    /\ scan' = IF Scans THEN "wait" ELSE "off"
    /\ UNCHANGED <<control_lock, ws>>

Start ==
    LET listed == [session EXCEPT !.listed = TRUE] IN
    Started(listed, 1) \/ (CanAppend /\ Started(Appended(listed), channel))

\* stop, by anybody; a start with replace_existing does the same.
Stopped == [session EXCEPT !.listed = FALSE, !.stop = TRUE]

OtherStarts == ~cli.own /\ Start /\ UNCHANGED cli

OtherStops ==
    /\ session.listed
    /\ session' = Stopped
    /\ UNCHANGED <<radio, threads, cli, ws>>

\* The collector appends an event.
Collect ==
    /\ session.listed /\ CanAppend
    /\ session' = Appended(session)
    /\ UNCHANGED <<radio, threads, cli, ws>>

-----------------------------------------------------------------------------
(* _hop_channels                                                           *)

HopBegins ==
    /\ hop.pc = "wait" /\ ~session.stop /\ control_lock = "free"
    /\ hop' = [pc |-> "set", index |-> 1 + (hop.index % Channels)]
    /\ control_lock' = "hop"
    /\ UNCHANGED <<session, channel, off, scan, cli, ws>>

HopSets ==
    /\ hop.pc = "set"
    /\ channel' = hop.index /\ off' = FALSE
    /\ control_lock' = "free"
    /\ hop' = [hop EXCEPT !.pc = "assign"]
    /\ UNCHANGED <<session, scan, cli, ws>>

HopFails ==
    /\ hop.pc = "set" /\ CanAppend
    /\ session' = Appended(session)
    /\ control_lock' = "free"
    /\ hop' = [hop EXCEPT !.pc = "wait"]
    /\ UNCHANGED <<channel, off, scan, cli, ws>>

\* session.current_channel is written when the lock is released already.
HopAssigns ==
    /\ hop.pc = "assign"
    /\ session' = [session EXCEPT !.current_channel = hop.index]
    /\ hop' = [hop EXCEPT !.pc = "wait"]
    /\ UNCHANGED <<radio, scan, cli, ws>>

HopEnds ==
    /\ hop.pc = "wait" /\ session.stop
    /\ hop' = [hop EXCEPT !.pc = "done"]
    /\ UNCHANGED <<session, radio, scan, cli, ws>>

-----------------------------------------------------------------------------
(* _run_active_scan, as far as the tuning goes                             *)

ScanBegins ==
    /\ scan = "wait" /\ ~session.stop /\ control_lock = "free"
    /\ scan' = "scan" /\ control_lock' = "scan"
    /\ UNCHANGED <<session, channel, off, hop, cli, ws>>

\* The radio goes through the channels; a network found, or the error of a
\* scan that failed, is an event.
Scan ==
    /\ scan = "scan"
    /\ channel' \in Tuned
    /\ UNCHANGED session \/ (CanAppend /\ session' = Appended(session))
    /\ scan' = "finally"
    /\ UNCHANGED <<off, control_lock, hop, cli, ws>>

\* Error: back to the first channel, whatever the session says.
RestoredToFirst == 1

Restored == session.current_channel

\* Back to monitor mode and to the channel; a failure is suppressed.
ScanRestores ==
    /\ scan = "finally" /\ ~session.stop
    /\ \E ok \in BOOLEAN :
          /\ channel' = IF ok THEN Restored ELSE channel
          /\ off' = (~ok \/ hop.pc = "assign")
    /\ scan' = "wait" /\ control_lock' = "free"
    /\ UNCHANGED <<session, hop, cli, ws>>

ScanEnds ==
    /\ scan \in {"wait", "finally"} /\ session.stop
    /\ scan' = "done"
    /\ control_lock' = IF scan = "finally" THEN "free" ELSE control_lock
    /\ UNCHANGED <<session, channel, off, hop, cli, ws>>

-----------------------------------------------------------------------------
(* The command line scanner                                                *)

CliGoto(pc) == cli' = [cli EXCEPT !.pc = pc]

\* _start_scan: the gateway has started the scan, the answer is on its way.
CliStarts == cli.pc = "start" /\ cli.own /\ Start /\ CliGoto("early")

CliAttaches ==
    /\ cli.pc = "start" /\ ~cli.own
    /\ CliGoto("get")
    /\ UNCHANGED <<session, radio, threads, ws>>

\* The answer is there and the signal handlers are installed.
CliReady ==
    /\ cli.pc = "early"
    /\ CliGoto("get")
    /\ UNCHANGED <<session, radio, threads, ws>>

\* The answer is lost, or a signal comes before the handlers are installed.
CliCut ==
    /\ cli.pc = "early"
    /\ CliGoto("cut")
    /\ UNCHANGED <<session, radio, threads, ws>>

Signal ==
    /\ cli.pc \in {"get", "print"} /\ ~cli.stop_requested
    /\ cli' = [cli EXCEPT !.stop_requested = TRUE]
    /\ UNCHANGED <<session, radio, threads, ws>>

Window == IF Limit < MaxHeld THEN Limit ELSE MaxHeld

\* _get_events
CliGets ==
    /\ cli.pc = "get" /\ session.listed /\ ~cli.stop_requested
    /\ cli' = [cli EXCEPT !.pc = "print", !.batch = Newest(session.events, Limit),
                          !.polled = session.event_count,
                          !.lagged = @ \/ session.event_count - cli.polled > Window]
    /\ UNCHANGED <<session, radio, threads, ws>>

\* A 404, a broken connection or a broken output leaves the loop, and so does a
\* signal before the next request.
CliGivesUp ==
    /\ cli.pc \in {"get", "print"}
    /\ CliGoto("stop")
    /\ UNCHANGED <<session, radio, threads, ws>>

\* Error: an event that was printed already is printed again.
FreshOrNot(event) == TRUE

\* _event_key(event) not in seen
Fresh(event) == event \notin Range(cli.printed)

CliPrints ==
    /\ cli.pc = "print" /\ cli.batch # <<>>
    /\ LET event == Head(cli.batch) IN
       cli' = [cli EXCEPT !.batch = Tail(@),
                          !.printed = IF Fresh(event) THEN Append(@, event) ELSE @]
    /\ UNCHANGED <<session, radio, threads, ws>>

CliPrinted ==
    /\ cli.pc = "print" /\ cli.batch = <<>>
    /\ CliGoto(IF cli.once \/ cli.stop_requested THEN "stop" ELSE "get")
    /\ UNCHANGED <<session, radio, threads, ws>>

\* Error: only a signal makes the scanner stop its scan.
StopsWhenAsked == cli.own /\ cli.stop_requested

\* own_scan: a scan the scanner attached to goes on.
StopsScan == cli.own

CliStops ==
    /\ cli.pc = "stop"
    /\ session' = IF StopsScan /\ session.listed THEN Stopped ELSE session
    /\ CliGoto("done")
    /\ UNCHANGED <<radio, threads, ws>>

\* _stop_scan swallows every error.
CliStopLost ==
    /\ cli.pc = "stop" /\ cli.own
    /\ CliGoto("cut")
    /\ UNCHANGED <<session, radio, threads, ws>>

-----------------------------------------------------------------------------
(* wifi_scan_stream                                                        *)

WsConnects ==
    /\ ws.pc = "off" /\ session.listed
    /\ ws' = [ws EXCEPT !.pc = "poll"]
    /\ UNCHANGED <<session, radio, threads, cli>>

\* Error: the first event is taken for sent.
UnsentButFirst(events) == SubSeq(events, ws.sent + 2, Len(events))

\* events[sent:]
Unsent(events) == SubSeq(events, (IF ws.sent > Len(events) THEN 0 ELSE ws.sent) + 1, Len(events))

WsSends ==
    LET events == Newest(session.events, WsLimit) IN
    /\ ws.pc = "poll" /\ session.listed
    /\ ws' = [ws EXCEPT !.log = @ \o Unsent(events), !.sent = Len(events)]
    /\ UNCHANGED <<session, radio, threads, cli>>

\* The peer is gone, or the scan (KeyError).
WsCloses ==
    /\ ws.pc = "poll"
    /\ ws' = [pc |-> "closed", sent |-> 0, log |-> <<>>]
    /\ UNCHANGED <<session, radio, threads, cli>>

WsUnknown == ~session.listed /\ WsCloses

-----------------------------------------------------------------------------
Hop == HopBegins \/ HopSets \/ HopFails \/ HopAssigns \/ HopEnds
ActiveScan == ScanBegins \/ Scan \/ ScanRestores \/ ScanEnds
CliStep == CliReady \/ CliGets \/ CliGivesUp \/ CliPrints \/ CliPrinted \/ CliStops \/ CliStopLost

Next ==
    \/ OtherStarts \/ OtherStops \/ Collect
    \/ Hop \/ ActiveScan
    \/ CliStarts \/ CliAttaches \/ CliCut \/ Signal \/ CliStep
    \/ WsConnects \/ WsSends \/ WsCloses

Spec == Init /\ [][Next]_vars

\* The websocket polls, as long as its peer takes what it sends.
FairSpec == Spec /\ WF_vars(WsSends \/ WsUnknown)

-----------------------------------------------------------------------------
(* Properties                                                              *)

\* While no one is tuning it, the interface is on the channel the session
\* reports, whatever hops and active scans went before, unless a tuning
\* failed, or a hop had set its channel but not yet noted it when an active
\* scan restored the one before.
ChannelTold ==
    (session.listed /\ hop.pc \in {"off", "wait"} /\ scan \in {"off", "wait"} /\ ~off)
        => channel = session.current_channel

Safe == TypeOK /\ ChannelTold

\* recent_events no longer begins with the first event.
Overflowed == session.event_count > MaxHeld \/ session.event_count > WsLimit

\* Nobody is told an event twice or out of order, and nothing is left out by
\* a scanner that polls at least once every min(event_limit, max_events)
\* events, nor by the websocket before the deque overflows.
FeedsExact ==
    LET Upto(n) == [i \in 1 .. n |-> i] IN
    /\ \A i, j \in DOMAIN cli.printed : i < j => cli.printed[i] < cli.printed[j]
    /\ ~cli.lagged /\ cli.batch = <<>> => cli.printed = Upto(cli.polled)
    /\ ~Overflowed => ws.log = Upto(ws.sent)

\* A scanner that ended, for whatever reason, has stopped the scan it started,
\* unless it never learned of its scan or the stop did not get through.
OwnScanStopped == cli.pc = "done" /\ cli.own => ~session.listed

\* A connected websocket catches up with every event, as long as the deque
\* does not overflow: from then on the index it keeps means nothing.
WsServed ==
    ws.pc = "poll" ~> (\/ ws.log = [i \in 1 .. session.event_count |-> i]
                       \/ Overflowed \/ ws.pc = "closed")
=============================================================================
