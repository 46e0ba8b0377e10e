------------------------- MODULE ScannerFeed_proofs -------------------------
(***************************************************************************)
(* Proofs about WiFi scans: the session with its followers (ScannerFeed),  *)
(* for any number of channels and events and any limits, and the events    *)
(* made of frames (WiFiEvents), for all frames and frequencies.            *)
(***************************************************************************)
EXTENDS ScannerFeed, WiFiEvents, SequenceTheorems, TLAPS

-----------------------------------------------------------------------------
(* The invariant                                                           *)

SessionTypes ==
    /\ session \in [listed : BOOLEAN, stop : BOOLEAN, events : Seq(Events),
                    event_count : 0 .. MaxEvents, current_channel : Tuned]
    /\ Len(session.events) <= MaxHeld
    /\ channel \in Tuned /\ off \in BOOLEAN
    /\ control_lock \in {"free", "hop", "scan"}
    /\ hop \in [pc : {"off", "wait", "set", "assign", "done"}, index : Tuned]
    /\ scan \in {"off", "wait", "scan", "finally", "done"}
    /\ control_lock = "hop" <=> hop.pc = "set"
    /\ control_lock = "scan" <=> scan \in {"scan", "finally"}

CliTypes ==
    cli \in [pc : {"start", "early", "get", "print", "stop", "done", "cut"},
            own : BOOLEAN, once : BOOLEAN, stop_requested : BOOLEAN,
            batch : Seq(Events), printed : Seq(Events), polled : 0 .. MaxEvents, lagged : BOOLEAN]

WsTypes == ws \in [pc : {"off", "poll", "closed"}, sent : 0 .. WsLimit, log : Seq(Events)]

\* A session that is not listed was never started, or is told to stop.
Known == session.listed \/ session.stop
StartedOnce ==
    /\ session.listed => ~session.stop
    /\ ~Known =>
          session.event_count = 0 /\ session.current_channel = 1 /\ hop.pc = "off" /\ scan = "off"

\* Where the interface is when nobody tunes it, and where a hop has left it
\* that did not note its channel yet.
OnChannel ==
    scan \in {"off", "wait"} /\ ~off =>
        /\ session.listed /\ hop.pc \in {"off", "wait", "set"} => channel = session.current_channel
        /\ hop.pc = "assign" => channel = hop.index

\* The deque ends with the event appended last.
HoldsNewest ==
    LET events == session.events IN
    /\ Len(events) = IF session.event_count <= MaxHeld THEN session.event_count ELSE MaxHeld
    /\ \A i \in 1 .. Len(events) : events[i] = session.event_count - Len(events) + i

\* What is left of a batch ends with the newest event polled.
BatchEnds ==
    /\ cli.pc \in {"start", "early", "get"} => cli.batch = <<>>
    /\ cli.polled <= session.event_count
    /\ Len(cli.batch) <= cli.polled /\ Len(cli.batch) <= Window
    /\ \A i \in 1 .. Len(cli.batch) : cli.batch[i] = cli.polled - Len(cli.batch) + i

Upto(n) == [i \in 1 .. n |-> i]

\* The scanner has printed up to m: all of the newest window, and without a lag
\* everything.
PrintedUpto(m) ==
    /\ cli.polled - Len(cli.batch) <= m /\ m <= cli.polled
    /\ \A i \in 1 .. Len(cli.printed) : cli.printed[i] <= m
    /\ \A n \in 1 .. m : n > cli.polled - Window => \E i \in 1 .. Len(cli.printed) : cli.printed[i] = n
    /\ ~cli.lagged => cli.printed = Upto(m)
InOrder == \A i, j \in 1 .. Len(cli.printed) : i < j => cli.printed[i] < cli.printed[j]
PrintedSoFar == InOrder /\ \E m \in Nat : PrintedUpto(m)

WsExact == ~Overflowed => ws.sent <= session.event_count /\ ws.log = Upto(ws.sent)

\* The session with its threads, and those who follow it; the scanner's own
\* session was started by it.
SessionInv == SessionTypes /\ StartedOnce /\ OnChannel /\ HoldsNewest
CliInv ==
    /\ CliTypes /\ BatchEnds /\ PrintedSoFar /\ OwnScanStopped
    /\ cli.own /\ cli.pc # "start" => Known
WsInv == WsTypes /\ WsExact
IInv == SessionInv /\ CliInv /\ WsInv

-----------------------------------------------------------------------------
(* Sequences of events                                                     *)

LEMMA NewestOf ==
    ASSUME NEW S, NEW seq \in Seq(S), NEW n \in Nat
    PROVE  /\ Newest(seq, n) \in Seq(S)
           /\ Len(Newest(seq, n)) = IF Len(seq) <= n THEN Len(seq) ELSE n
           /\ \A i \in 1 .. Len(Newest(seq, n)) : Newest(seq, n)[i] = seq[Len(seq) - Len(Newest(seq, n)) + i]
<1>1. CASE Len(seq) <= n
  BY <1>1 DEF Newest
<1>2. CASE ~(Len(seq) <= n)
  <2>1. Newest(seq, n) = SubSeq(seq, Len(seq) - n + 1, Len(seq)) /\ Len(seq) \in Nat /\ Len(seq) > n
    BY <1>2 DEF Newest
  <2>2. Len(seq) - n + 1 \in 1 .. Len(seq) + 1 /\ Len(seq) - (Len(seq) - n + 1) + 1 = n
    BY <2>1
  <2>3. /\ Newest(seq, n) \in Seq(S) /\ Len(Newest(seq, n)) = n
        /\ \A i \in 1 .. n : Newest(seq, n)[i] = seq[Len(seq) - n + 1 + i - 1]
    BY <2>1, <2>2
  <2>4. \A i \in 1 .. n : Len(seq) - n + 1 + i - 1 = Len(seq) - n + i
    BY <2>1
  <2> QED
    BY <1>2, <2>3, <2>4
<1> QED
  BY <1>1, <1>2

LEMMA LeftOf ==
    ASSUME NEW S, NEW seq \in Seq(S), NEW n \in 0 .. Len(seq)
    PROVE  /\ SubSeq(seq, n + 1, Len(seq)) \in Seq(S) /\ Len(SubSeq(seq, n + 1, Len(seq))) = Len(seq) - n
           /\ \A i \in 1 .. Len(seq) - n : SubSeq(seq, n + 1, Len(seq))[i] = seq[n + i]
<1> DEFINE m == n + 1
           last == Len(seq)
           left == SubSeq(seq, m, last)
<1>1. m \in Int /\ last \in Int /\ n \in Nat /\ \A i \in m .. last : seq[i] \in S
  OBVIOUS
<1>2. last - m + 1 = last - n /\ (m <= last <=> n < last) /\ (~(m <= last) => last - n = 0)
  BY <1>1
<1>3. /\ left \in Seq(S) /\ Len(left) = IF m <= last THEN last - m + 1 ELSE 0
      /\ \A i \in 1 .. last - m + 1 : left[i] = seq[m + i - 1]
  <2> HIDE DEF m, last
  <2> QED
    BY <1>1, SubSeqProperties
<1>4. ASSUME NEW i \in 1 .. last - n PROVE left[i] = seq[n + i]
  <2>1. m + i - 1 = n + i
    BY <1>1
  <2> QED
    BY <1>2, <1>3, <2>1
<1> QED
  BY <1>2, <1>3, <1>4

LEMMA TailOf ==
    ASSUME NEW S, NEW seq \in Seq(S), seq # <<>>
    PROVE  /\ Tail(seq) \in Seq(S) /\ Len(Tail(seq)) = Len(seq) - 1 /\ Len(seq) \in Nat \ {0}
           /\ Head(seq) = seq[1] /\ seq[1] \in S
           /\ \A i \in 1 .. Len(seq) - 1 : Tail(seq)[i] = seq[i + 1]
OBVIOUS

LEMMA UptoNext ==
    ASSUME NEW n \in Nat
    PROVE  Upto(n) \in Seq(Nat) /\ Len(Upto(n)) = n /\ Append(Upto(n), n + 1) = Upto(n + 1)
BY DEF Upto

\* An event appended keeps the deque's end.
LEMMA AppendKeeps ==
    ASSUME SessionTypes, HoldsNewest, CanAppend, NEW s, s = Appended(session)
    PROVE  /\ s.events \in Seq(Events) /\ s.event_count = session.event_count + 1
           /\ s.event_count \in 0 .. MaxEvents
           /\ s.listed = session.listed /\ s.stop = session.stop /\ s.current_channel = session.current_channel
           /\ s \in [listed : BOOLEAN, stop : BOOLEAN, events : Seq(Events),
                     event_count : 0 .. MaxEvents, current_channel : Tuned]
           /\ Len(s.events) = IF s.event_count <= MaxHeld THEN s.event_count ELSE MaxHeld
           /\ \A i \in 1 .. Len(s.events) : s.events[i] = s.event_count - Len(s.events) + i
<1> DEFINE count == session.event_count
           more == Append(session.events, count + 1)
<1>1. /\ session.events \in Seq(Events) /\ count \in 0 .. MaxEvents /\ count < MaxEvents
      /\ MaxHeld \in Nat \ {0} /\ MaxEvents \in Nat
  BY ScannerAssumption DEF SessionTypes, CanAppend
<1>2. count + 1 \in Events /\ more \in Seq(Events) /\ Len(more) = Len(session.events) + 1
      /\ \A i \in 1 .. Len(more) : more[i] = count + 1 - Len(more) + i
  <2>1. count + 1 \in Events
    BY <1>1 DEF Events
  <2>2. /\ more \in Seq(Events) /\ Len(more) = Len(session.events) + 1 /\ more[Len(more)] = count + 1
        /\ \A i \in 1 .. Len(session.events) : more[i] = session.events[i]
    BY <1>1, <2>1
  <2>3. ASSUME NEW i \in 1 .. Len(more) PROVE more[i] = count + 1 - Len(more) + i
    <3>1. CASE i = Len(more)
      BY <1>1, <2>2, <3>1
    <3>2. CASE i # Len(more)
      <4>1. i \in 1 .. Len(session.events) /\ Len(session.events) \in Nat
        BY <1>1, <2>2, <3>2
      <4>2. session.events[i] = count - Len(session.events) + i
        BY <4>1 DEF HoldsNewest
      <4> QED
        BY <1>1, <2>2, <4>1, <4>2
    <3> QED
      BY <3>1, <3>2
  <2> QED
    BY <2>1, <2>2, <2>3
<1>3. s = [session EXCEPT !.event_count = count + 1, !.events = Newest(more, MaxHeld)]
  BY DEF Appended, SessionTypes
<1>4. s.events = Newest(more, MaxHeld) /\ s.event_count = count + 1 /\ s.listed = session.listed
      /\ s.stop = session.stop /\ s.current_channel = session.current_channel
  BY <1>3 DEF SessionTypes
<1> HIDE DEF more
<1>5. /\ Newest(more, MaxHeld) \in Seq(Events)
      /\ Len(Newest(more, MaxHeld)) = IF Len(more) <= MaxHeld THEN Len(more) ELSE MaxHeld
      /\ \A i \in 1 .. Len(Newest(more, MaxHeld)) :
            Newest(more, MaxHeld)[i] = more[Len(more) - Len(Newest(more, MaxHeld)) + i]
  BY ZenonT(30), <1>1, <1>2, NewestOf
<1>6. Len(session.events) = IF count <= MaxHeld THEN count ELSE MaxHeld
  BY DEF HoldsNewest
<1>7. Len(s.events) = IF s.event_count <= MaxHeld THEN s.event_count ELSE MaxHeld
  BY <1>1, <1>2, <1>4, <1>5, <1>6
<1>8. ASSUME NEW i \in 1 .. Len(s.events) PROVE s.events[i] = s.event_count - Len(s.events) + i
  <2>1. Len(s.events) \in Nat /\ Len(s.events) <= Len(more) /\ Len(more) \in Nat
    BY <1>1, <1>2, <1>4, <1>5
  <2>2. s.events[i] = more[Len(more) - Len(s.events) + i] /\ Len(more) - Len(s.events) + i \in 1 .. Len(more)
    BY <1>4, <1>5, <2>1
  <2>3. s.events[i] = count + 1 - Len(more) + (Len(more) - Len(s.events) + i)
    BY <1>2, <2>2
  <2> QED
    BY <1>1, <1>4, <2>1, <2>3
<1>9. s \in [listed : BOOLEAN, stop : BOOLEAN, events : Seq(Events),
             event_count : 0 .. MaxEvents, current_channel : Tuned]
  <2>1. count + 1 \in 0 .. MaxEvents
    BY <1>1
  <2> QED
    BY <1>3, <1>5, <2>1 DEF SessionTypes
<1> QED
  BY <1>1, <1>4, <1>5, <1>7, <1>8, <1>9

-----------------------------------------------------------------------------
(* Those who follow the session notice nothing but that it goes on         *)

\* Events are only added, a session is started once and stopped once.
Later ==
    /\ session'.event_count \in Nat /\ session'.event_count >= session.event_count
    /\ Known => Known'
    /\ session'.listed /\ ~session.listed => ~Known

LEMMA CliLeft ==
    ASSUME IInv, Later, cli' = cli
    PROVE  CliInv'
<1>1. CliTypes /\ BatchEnds /\ PrintedSoFar /\ OwnScanStopped /\ (cli.own /\ cli.pc # "start" => Known)
      /\ session.event_count \in Nat /\ cli.polled \in Nat
  BY ScannerAssumption DEF IInv, CliInv, CliTypes, SessionInv, SessionTypes
<1>2. CliTypes' /\ BatchEnds'
  BY <1>1 DEF CliTypes, BatchEnds, Later
<1>3. PrintedSoFar'
  BY <1>1 DEF PrintedSoFar, InOrder, PrintedUpto
<1>4. OwnScanStopped' /\ (cli.own /\ cli.pc # "start" => Known)'
  BY <1>1 DEF OwnScanStopped, Later
<1> QED
  BY <1>2, <1>3, <1>4 DEF CliInv

LEMMA WsLeft ==
    ASSUME IInv, Later, ws' = ws
    PROVE  WsInv'
<1>1. WsTypes /\ WsExact /\ session.event_count \in Nat /\ MaxHeld \in Nat /\ WsLimit \in Nat /\ ws.sent \in Nat
  BY ScannerAssumption DEF IInv, WsInv, WsTypes, SessionInv, SessionTypes
<1>2. ~Overflowed' => ~Overflowed
  BY <1>1 DEF Overflowed, Later
<1>3. WsExact'
  BY <1>1, <1>2 DEF WsExact, Later
<1> QED
  BY <1>1, <1>3 DEF WsInv, WsTypes

-----------------------------------------------------------------------------
(* The session and its threads                                             *)

LEMMA SessionFacts ==
    ASSUME IInv
    PROVE  /\ SessionTypes /\ StartedOnce /\ OnChannel /\ HoldsNewest
           /\ session.event_count \in Nat /\ 1 \in Tuned /\ Channels \in Nat \ {0}
           /\ session.listed \in BOOLEAN /\ session.stop \in BOOLEAN
  BY ScannerAssumption DEF IInv, SessionInv, SessionTypes, Tuned

\* A step that appends an event or none, and changes nothing else of a session.
LEMMA EventsGoOn ==
    ASSUME IInv, session' = session \/ (CanAppend /\ session' = Appended(session))
    PROVE  /\ Later /\ HoldsNewest'
           /\ session' \in [listed : BOOLEAN, stop : BOOLEAN, events : Seq(Events),
                            event_count : 0 .. MaxEvents, current_channel : Tuned]
           /\ Len(session'.events) <= MaxHeld
           /\ session'.listed = session.listed /\ session'.stop = session.stop
           /\ session'.current_channel = session.current_channel
<1>1. CASE session' = session
  BY <1>1, SessionFacts DEF Later, Known, HoldsNewest, SessionTypes
<1>2. CASE CanAppend /\ session' = Appended(session)
  <2>1. /\ session'.event_count = session.event_count + 1
        /\ session'.listed = session.listed /\ session'.stop = session.stop
        /\ session'.current_channel = session.current_channel
        /\ session' \in [listed : BOOLEAN, stop : BOOLEAN, events : Seq(Events),
                         event_count : 0 .. MaxEvents, current_channel : Tuned]
        /\ Len(session'.events) = IF session'.event_count <= MaxHeld THEN session'.event_count ELSE MaxHeld
        /\ \A i \in 1 .. Len(session'.events) :
              session'.events[i] = session'.event_count - Len(session'.events) + i
    BY <1>2, SessionFacts, AppendKeeps
  <2>2. HoldsNewest'
    BY <2>1 DEF HoldsNewest
  <2>3. Len(session'.events) <= MaxHeld
    BY <2>1, SessionFacts, ScannerAssumption
  <2> QED
    BY <2>1, <2>2, <2>3, SessionFacts DEF Later, Known
<1> QED
  BY <1>1, <1>2

LEMMA CollectKeeps ==
    ASSUME IInv, Collect
    PROVE  SessionInv' /\ Later
<1>1. /\ Later /\ HoldsNewest' /\ session'.listed = session.listed /\ session'.stop = session.stop
      /\ session'.current_channel = session.current_channel
      /\ session' \in [listed : BOOLEAN, stop : BOOLEAN, events : Seq(Events),
                       event_count : 0 .. MaxEvents, current_channel : Tuned]
      /\ Len(session'.events) <= MaxHeld
  BY EventsGoOn DEF Collect
<1>2. SessionTypes' /\ StartedOnce' /\ OnChannel'
  BY <1>1, SessionFacts DEF Collect, radio, threads, SessionTypes, StartedOnce, Known, OnChannel
<1> QED
  BY <1>1, <1>2 DEF SessionInv

LEMMA HopKeeps ==
    ASSUME IInv, Hop
    PROVE  SessionInv' /\ Later
<1>1. CASE HopBegins
  <2>1. 1 + (hop.index % Channels) \in Tuned
    BY SessionFacts DEF SessionTypes, Tuned
  <2> QED
    BY <1>1, <2>1, SessionFacts, EventsGoOn
    DEF HopBegins, SessionInv, SessionTypes, StartedOnce, Known, OnChannel
<1>2. CASE HopSets
  BY <1>2, SessionFacts, EventsGoOn DEF HopSets, SessionInv, SessionTypes, StartedOnce, Known, OnChannel
<1>3. CASE HopFails
  BY <1>3, SessionFacts, EventsGoOn DEF HopFails, SessionInv, SessionTypes, StartedOnce, Known, OnChannel
<1>4. CASE HopAssigns
  <2>1. session' = [session EXCEPT !.current_channel = hop.index]
    BY <1>4 DEF HopAssigns
  <2>2. session'.event_count = session.event_count /\ session'.events = session.events
        /\ session'.listed = session.listed /\ session'.stop = session.stop
        /\ session'.current_channel = hop.index
    BY <2>1, SessionFacts DEF SessionTypes
  <2>3. HoldsNewest' /\ Later
    BY <2>2, SessionFacts DEF HoldsNewest, Later, Known
  <2>4. SessionTypes'
    BY <1>4, <2>1, <2>2, SessionFacts DEF HopAssigns, radio, SessionTypes
  <2>5. StartedOnce' /\ OnChannel'
    BY <1>4, <2>2, SessionFacts DEF HopAssigns, radio, SessionTypes, StartedOnce, Known, OnChannel
  <2> QED
    BY <2>3, <2>4, <2>5 DEF SessionInv
<1>5. CASE HopEnds
  BY <1>5, SessionFacts, EventsGoOn DEF HopEnds, radio, SessionInv, SessionTypes, StartedOnce, Known, OnChannel
<1> QED
  BY <1>1, <1>2, <1>3, <1>4, <1>5 DEF Hop

LEMMA ScanKeeps ==
    ASSUME IInv, ActiveScan
    PROVE  SessionInv' /\ Later
<1>1. CASE ScanBegins
  BY <1>1, SessionFacts, EventsGoOn DEF ScanBegins, SessionInv, SessionTypes, StartedOnce, Known, OnChannel
<1>2. CASE Scan
  BY <1>2, SessionFacts, EventsGoOn DEF Scan, SessionInv, SessionTypes, StartedOnce, Known, OnChannel
<1>3. CASE ScanRestores
  BY <1>3, SessionFacts, EventsGoOn
  DEF ScanRestores, Restored, SessionInv, SessionTypes, StartedOnce, Known, OnChannel
<1>4. CASE ScanEnds
  BY <1>4, SessionFacts, EventsGoOn DEF ScanEnds, SessionInv, SessionTypes, StartedOnce, Known, OnChannel
<1> QED
  BY <1>1, <1>2, <1>3, <1>4 DEF ActiveScan

LEMMA StopKeeps ==
    ASSUME IInv, session.listed, session' = Stopped, UNCHANGED <<radio, threads>>
    PROVE  SessionInv' /\ Later
<1>1. session'.event_count = session.event_count /\ session'.events = session.events
      /\ session'.current_channel = session.current_channel
      /\ session'.listed = FALSE /\ session'.stop = TRUE
      /\ session' \in [listed : BOOLEAN, stop : BOOLEAN, events : Seq(Events),
                       event_count : 0 .. MaxEvents, current_channel : Tuned]
  BY SessionFacts DEF Stopped, SessionTypes
<1>2. HoldsNewest' /\ Later
  BY <1>1, SessionFacts DEF HoldsNewest, Later, Known
<1>3. SessionTypes' /\ StartedOnce' /\ OnChannel'
  BY <1>1, SessionFacts DEF radio, threads, SessionTypes, StartedOnce, Known, OnChannel
<1> QED
  BY <1>2, <1>3 DEF SessionInv

LEMMA StartKeeps ==
    ASSUME IInv, Start
    PROVE  SessionInv' /\ Later /\ Known' /\ ws' = ws
<1> DEFINE Sessions == [listed : BOOLEAN, stop : BOOLEAN, events : Seq(Events),
                        event_count : 0 .. MaxEvents, current_channel : Tuned]
           listed == [session EXCEPT !.listed = TRUE]
<1>1. /\ session.event_count = 0 /\ ~session.listed /\ ~session.stop /\ ~Known
      /\ session.current_channel = 1 /\ hop.pc = "off" /\ scan = "off"
      /\ control_lock' = control_lock /\ ws' = ws
      /\ hop' = [hop EXCEPT !.pc = IF Channels > 1 THEN "wait" ELSE "off"]
      /\ scan' = IF Scans THEN "wait" ELSE "off"
  BY SessionFacts DEF Start, Started, Known, StartedOnce
<1>2. channel' \in Tuned /\ off' = (channel' # 1)
  BY SessionFacts DEF Start, Started, SessionTypes
<1>3. /\ session' \in Sessions /\ session'.listed = TRUE /\ session'.stop = FALSE
      /\ session'.current_channel = 1 /\ HoldsNewest' /\ Len(session'.events) <= MaxHeld
      /\ session'.event_count >= session.event_count
  <2>1. CASE session' = listed
    <3>1. session'.event_count = 0 /\ session'.events = session.events /\ session' \in Sessions
          /\ session'.listed = TRUE /\ session'.stop = FALSE /\ session'.current_channel = 1
      BY <1>1, <2>1, SessionFacts DEF SessionTypes
    <3>2. HoldsNewest'
      BY <1>1, <3>1, SessionFacts DEF HoldsNewest
    <3> QED
      BY <1>1, <3>1, <3>2, SessionFacts DEF SessionTypes
  <2>2. CASE CanAppend /\ session' = Appended(listed)
    <3> DEFINE more == Appended(session)
    <3>1. /\ more.event_count = session.event_count + 1 /\ more.listed = session.listed
          /\ more.stop = session.stop /\ more.current_channel = session.current_channel
          /\ more \in Sessions
          /\ Len(more.events) = IF more.event_count <= MaxHeld THEN more.event_count ELSE MaxHeld
          /\ \A i \in 1 .. Len(more.events) : more.events[i] = more.event_count - Len(more.events) + i
      BY <2>2, SessionFacts, AppendKeeps
    <3>2. session' = [more EXCEPT !.listed = TRUE]
      BY <2>2, SessionFacts DEF Appended, SessionTypes
    <3> HIDE DEF more
    <3>3. /\ session' \in Sessions /\ session'.listed = TRUE /\ session'.stop = FALSE
          /\ session'.current_channel = 1 /\ session'.events = more.events
          /\ session'.event_count = more.event_count
      BY <1>1, <3>1, <3>2
    <3>4. HoldsNewest'
      BY <3>1, <3>3 DEF HoldsNewest
    <3>5. Len(session'.events) <= MaxHeld /\ session'.event_count >= session.event_count
      <4>1. Len(more.events) <= MaxHeld
        BY <1>1, <3>1, ScannerAssumption
      <4>2. session'.event_count = 1
        BY <1>1, <3>1, <3>3
      <4> QED
        BY <1>1, <3>3, <4>1, <4>2
    <3> QED
      BY <3>3, <3>4, <3>5
  <2> QED
    BY <2>1, <2>2 DEF Start, Started
<1> HIDE DEF listed
<1>4. Known' /\ Later /\ StartedOnce'
  BY <1>1, <1>3 DEF Known, Later, StartedOnce
<1>5. SessionTypes'
  BY <1>1, <1>2, <1>3, SessionFacts, ScannerAssumption DEF SessionTypes
<1>6. OnChannel'
  BY <1>1, <1>2, <1>3, SessionFacts DEF OnChannel, SessionTypes
<1> QED
  BY <1>1, <1>3, <1>4, <1>5, <1>6 DEF SessionInv

-----------------------------------------------------------------------------
(* The scanner                                                             *)

LEMMA CliFacts ==
    ASSUME IInv
    PROVE  /\ CliTypes /\ BatchEnds /\ PrintedSoFar /\ OwnScanStopped
           /\ (cli.own /\ cli.pc # "start" => Known)
           /\ cli.polled \in Nat /\ Len(cli.batch) \in Nat /\ cli.batch \in Seq(Events) /\ cli.printed \in Seq(Events)
           /\ Limit \in Nat \ {0} /\ MaxHeld \in Nat \ {0} /\ MaxEvents \in Nat /\ Window \in Nat \ {0}
<1>1. CliTypes /\ BatchEnds /\ PrintedSoFar /\ OwnScanStopped /\ (cli.own /\ cli.pc # "start" => Known)
  BY DEF IInv, CliInv
<1>2. Limit \in Nat \ {0} /\ MaxHeld \in Nat \ {0} /\ MaxEvents \in Nat /\ Window \in Nat \ {0}
  BY ScannerAssumption DEF Window
<1> QED
  BY <1>1, <1>2 DEF CliTypes

\* Nothing happens to the session.
LEMMA Quiet ==
    ASSUME IInv, UNCHANGED <<session, radio, threads>>
    PROVE  SessionInv' /\ Later
<1>1. SessionInv'
  BY SessionFacts DEF radio, threads, SessionInv, SessionTypes, StartedOnce, Known, OnChannel, HoldsNewest
<1> QED
  BY <1>1, SessionFacts DEF Later, Known

\* The scanner goes on with what it has, which is nothing when it comes to its
\* next request.
LEMMA CliMoves ==
    ASSUME IInv, Later, NEW pc \in {"early", "get", "print", "stop", "done", "cut"},
           CliGoto(pc) \/ (pc = cli.pc /\ cli' = [cli EXCEPT !.stop_requested = TRUE]),
           pc \in {"early", "get"} => cli.batch = <<>>,
           cli.own => Known', pc = "done" /\ cli.own => ~session'.listed
    PROVE  CliInv'
<1>1. /\ cli'.batch = cli.batch /\ cli'.printed = cli.printed /\ cli'.polled = cli.polled
      /\ cli'.lagged = cli.lagged /\ cli'.own = cli.own /\ cli'.pc = pc
      /\ CliTypes'
  BY CliFacts DEF CliGoto, CliTypes
<1>2. BatchEnds'
  BY <1>1, CliFacts, SessionFacts DEF BatchEnds, Later
<1>3. PrintedSoFar'
  BY <1>1, CliFacts DEF PrintedSoFar, InOrder, PrintedUpto
<1> QED
  BY <1>1, <1>2, <1>3 DEF CliInv, OwnScanStopped

\* A batch is the end of the events there are, and what the scanner had printed
\* before reaches up to it, or it lags.
LEMMA GetsKeeps ==
    ASSUME IInv, CliGets
    PROVE  CliInv'
<1> DEFINE batch == Newest(session.events, Limit)
           count == session.event_count
           polled == cli.polled
<1>1. /\ cli' = [cli EXCEPT !.pc = "print", !.batch = batch, !.polled = count,
                            !.lagged = cli.lagged \/ count - polled > Window]
      /\ cli.pc = "get" /\ session' = session
  BY CliFacts DEF CliGets, CliTypes
<1>2. /\ batch \in Seq(Events) /\ Len(batch) = IF count <= Window THEN count ELSE Window
      /\ \A i \in 1 .. Len(batch) : batch[i] = count - Len(batch) + i
  <2>1. session.events \in Seq(Events) /\ count \in Nat
    BY SessionFacts DEF SessionTypes
  <2>2. /\ Len(session.events) = IF count <= MaxHeld THEN count ELSE MaxHeld
        /\ \A i \in 1 .. Len(session.events) : session.events[i] = count - Len(session.events) + i
    BY SessionFacts DEF HoldsNewest
  <2>3. /\ batch \in Seq(Events)
        /\ Len(batch) = IF Len(session.events) <= Limit THEN Len(session.events) ELSE Limit
        /\ \A i \in 1 .. Len(batch) : batch[i] = session.events[Len(session.events) - Len(batch) + i]
    BY <2>1, CliFacts, NewestOf
  <2> HIDE DEF batch
  <2>4. Len(batch) = IF count <= Window THEN count ELSE Window
    BY <2>1, <2>2, <2>3, CliFacts DEF Window
  <2>5. ASSUME NEW i \in 1 .. Len(batch) PROVE batch[i] = count - Len(batch) + i
    <3>1. Len(session.events) \in Nat /\ Len(batch) \in Nat /\ Len(batch) <= Len(session.events)
      BY <2>1, <2>3, CliFacts
    <3>2. Len(session.events) - Len(batch) + i \in 1 .. Len(session.events)
      BY <3>1
    <3>3. batch[i] = session.events[Len(session.events) - Len(batch) + i]
      BY <2>3
    <3>4. session.events[Len(session.events) - Len(batch) + i]
             = count - Len(session.events) + (Len(session.events) - Len(batch) + i)
      BY <2>2, <3>2
    <3>5. count - Len(session.events) + (Len(session.events) - Len(batch) + i) = count - Len(batch) + i
      BY <2>1, <3>1
    <3> QED
      BY <3>3, <3>4, <3>5
  <2> QED
    BY <2>3, <2>4, <2>5
<1> HIDE DEF batch
<1>3. /\ cli'.batch = batch /\ cli'.polled = count /\ cli'.printed = cli.printed /\ cli'.own = cli.own
      /\ cli'.pc = "print" /\ cli'.lagged = (cli.lagged \/ count - polled > Window) /\ CliTypes'
  BY <1>1, <1>2, CliFacts, SessionFacts DEF CliTypes, SessionTypes
<1>4. BatchEnds'
  BY <1>1, <1>2, <1>3, CliFacts, SessionFacts DEF BatchEnds
<1>5. polled <= count /\ polled \in Nat /\ count \in Nat /\ Window \in Nat \ {0} /\ cli.batch = <<>>
  BY <1>1, CliFacts, SessionFacts DEF BatchEnds
<1>6. PrintedUpto(polled)
  <2>1. PICK m \in Nat : PrintedUpto(m)
    BY CliFacts DEF PrintedSoFar
  <2>2. m = polled
    BY <1>5, <2>1 DEF PrintedUpto
  <2> QED
    BY <2>1, <2>2
<1>7. InOrder'
  BY <1>3, CliFacts DEF PrintedSoFar, InOrder
<1>8. \E m \in Nat : PrintedUpto(m)'
  <2> DEFINE start == count - Len(batch)
  <2>0. PICK m \in Nat : m = IF polled < start THEN start ELSE polled
    BY <1>2, <1>5
  <2>1. start \in Nat /\ start <= m /\ m <= count /\ polled <= m
        /\ (polled < start => Len(batch) = Window)
        /\ (count - polled <= Window => m = polled)
    BY <1>2, <1>5, <2>0
  <2>2. \A i \in 1 .. Len(cli.printed) : cli.printed[i] <= m
    <3>1. ASSUME NEW i \in 1 .. Len(cli.printed) PROVE cli.printed[i] <= m
      <4>1. cli.printed[i] \in Nat /\ cli.printed[i] <= polled
        BY SMTT(20), <1>6, CliFacts DEF PrintedUpto, Events
      <4> QED
        BY <1>5, <2>1, <4>1
    <3> QED
      BY <3>1
  <2>3. ASSUME NEW n \in 1 .. m, n > count - Window
        PROVE  \E i \in 1 .. Len(cli.printed) : cli.printed[i] = n
    <3>1. ~(polled < start)
      BY <1>5, <2>0, <2>1, <2>3
    <3>2. n \in 1 .. polled /\ n > polled - Window
      BY <1>5, <2>0, <2>3, <3>1
    <3> QED
      BY <1>6, <3>2 DEF PrintedUpto
  <2>4. ~cli'.lagged => cli.printed = Upto(m)
    <3>1. SUFFICES ASSUME ~cli'.lagged PROVE cli.printed = Upto(m)
      OBVIOUS
    <3>2. ~cli.lagged /\ ~(count - polled > Window)
      BY <1>3, <3>1
    <3>3. m = polled
      BY <1>5, <2>1, <3>2
    <3> QED
      BY <1>6, <3>2, <3>3 DEF PrintedUpto
  <2>5. PrintedUpto(m)'
    <3>1. (\A n \in 1 .. m : n > cli.polled - Window =>
              \E i \in 1 .. Len(cli.printed) : cli.printed[i] = n)'
      BY <1>3, <2>3
    <3>2. (cli.polled - Len(cli.batch) <= m /\ m <= cli.polled)'
      BY <1>3, <2>1
    <3>3. (\A i \in 1 .. Len(cli.printed) : cli.printed[i] <= m)'
      BY <1>3, <2>2
    <3>4. (~cli.lagged => cli.printed = Upto(m))'
      BY <1>3, <2>4 DEF Upto
    <3> QED
      BY <3>1, <3>2, <3>3, <3>4 DEF PrintedUpto
  <2> QED
    BY <2>5
<1>9. OwnScanStopped' /\ (cli.own /\ cli.pc # "start" => Known)'
  BY <1>1, <1>3, CliFacts DEF OwnScanStopped, Known
<1> QED
  BY <1>3, <1>4, <1>7, <1>8, <1>9 DEF CliInv, PrintedSoFar

\* The next event of the batch is one the scanner has printed, or the next one
\* to print.
LEMMA PrintsKeeps ==
    ASSUME IInv, CliPrints
    PROVE  CliInv'
<1> DEFINE left == Len(cli.batch)
           event == cli.polled - left + 1
           seen == cli.printed
<1>1. /\ cli.batch \in Seq(Events) /\ seen \in Seq(Events) /\ cli.batch # <<>> /\ left \in Nat \ {0}
      /\ left <= cli.polled /\ left <= Window /\ cli.polled \in Nat /\ Window \in Nat
      /\ \A i \in 1 .. left : cli.batch[i] = cli.polled - left + i
      /\ cli.polled <= session.event_count
  BY CliFacts DEF CliPrints, BatchEnds
<1>2. Head(cli.batch) = event /\ event \in Events /\ event \in Nat
  <2>1. Head(cli.batch) = cli.batch[1] /\ 1 \in 1 .. left /\ cli.batch[1] \in Events
    BY <1>1
  <2> QED
    BY <1>1, <2>1 DEF Events
<1>3. /\ session' = session /\ cli.pc = "print"
      /\ cli' = [cli EXCEPT !.batch = Tail(cli.batch),
                            !.printed = IF Fresh(event) THEN Append(seen, event) ELSE seen]
  BY <1>2, CliFacts DEF CliPrints, CliTypes
<1>4. /\ Tail(cli.batch) \in Seq(Events) /\ Len(Tail(cli.batch)) = left - 1
      /\ \A i \in 1 .. left - 1 : Tail(cli.batch)[i] = cli.batch[i + 1]
  BY <1>1, TailOf
<1>5. Append(seen, event) \in Seq(Events)
  BY <1>1, <1>2
<1>6. /\ cli'.batch = Tail(cli.batch) /\ cli'.polled = cli.polled /\ cli'.lagged = cli.lagged
      /\ cli'.own = cli.own /\ cli'.pc = "print"
      /\ cli'.printed = (IF Fresh(event) THEN Append(seen, event) ELSE seen)
      /\ CliTypes'
  BY <1>3, <1>4, <1>5, CliFacts DEF CliTypes
<1>7. BatchEnds'
  <2>1. ASSUME NEW i \in 1 .. left - 1 PROVE Tail(cli.batch)[i] = cli.polled - (left - 1) + i
    <3>1. i + 1 \in 1 .. left /\ Tail(cli.batch)[i] = cli.batch[i + 1]
      BY <1>1, <1>4
    <3>2. cli.batch[i + 1] = cli.polled - left + (i + 1)
      BY <1>1, <3>1
    <3>3. left \in Nat /\ cli.polled \in Nat /\ i \in Nat
      BY <1>1
    <3>4. cli.polled - left + (i + 1) = cli.polled - (left - 1) + i
      BY <3>3
    <3> QED
      BY <3>1, <3>2, <3>4
  <2> QED
    BY <1>1, <1>3, <1>4, <1>6, <2>1 DEF BatchEnds
<1>8. OwnScanStopped' /\ (cli.own /\ cli.pc # "start" => Known)'
  BY <1>3, <1>6, CliFacts DEF OwnScanStopped, Known
<1>9. PICK m \in Nat : PrintedUpto(m)
  BY CliFacts DEF PrintedSoFar
<1>10. /\ cli.polled - left <= m /\ m <= cli.polled
       /\ \A i \in 1 .. Len(seen) : seen[i] \in Nat /\ seen[i] <= m
       /\ \A n \in 1 .. m : n > cli.polled - Window => \E i \in 1 .. Len(seen) : seen[i] = n
       /\ ~cli.lagged => seen = Upto(m)
  <2>1. ASSUME NEW i \in 1 .. Len(seen) PROVE seen[i] \in Nat
    <3>1. seen[i] \in Events
      BY <1>1
    <3> QED
      BY <3>1 DEF Events
  <2> QED
    BY <1>9, <2>1 DEF PrintedUpto
<1>11. InOrder
  BY CliFacts DEF PrintedSoFar
<1>12. CASE ~Fresh(event)
  <2>1. cli'.printed = seen
    BY <1>6, <1>12
  <2>2. event <= m
    <3>1. PICK i \in 1 .. Len(seen) : seen[i] = event
      BY <1>1, <1>12 DEF Fresh, Range
    <3> QED
      BY <1>10, <3>1
  <2>3. PrintedUpto(m)'
    <3>1. (cli.polled - Len(cli.batch) <= m /\ m <= cli.polled)'
      BY <1>1, <1>4, <1>6, <1>10, <2>2
    <3> QED
      BY <1>6, <1>10, <2>1, <3>1 DEF PrintedUpto, Upto
  <2>4. InOrder'
    BY <1>11, <2>1 DEF InOrder
  <2> QED
    BY <1>6, <1>7, <1>8, <2>3, <2>4 DEF CliInv, PrintedSoFar
<1>13. CASE Fresh(event)
  <2>1. \A i \in 1 .. Len(seen) : seen[i] # event
    BY <1>1, <1>13 DEF Fresh, Range
  <2>2. event = m + 1
    <3>1. event > m
      <4>1. SUFFICES ASSUME event <= m PROVE FALSE
        BY <1>2
      <4>2. event \in 1 .. m /\ event > cli.polled - Window
        BY <1>1, <4>1
      <4> QED
        BY <1>10, <2>1, <4>2
    <3> QED
      BY <1>1, <1>10, <3>1
  <2> DEFINE more == Append(seen, event)
  <2>3. /\ cli'.printed = more /\ Len(more) = Len(seen) + 1 /\ Len(seen) \in Nat
        /\ more[Len(seen) + 1] = event /\ \A i \in 1 .. Len(seen) : more[i] = seen[i]
    BY <1>1, <1>6, <1>13
  <2> HIDE DEF more
  <2>4. InOrder'
    <3>1. ASSUME NEW i \in 1 .. Len(more), NEW j \in 1 .. Len(more), i < j PROVE more[i] < more[j]
      <4>1. i \in 1 .. Len(seen) /\ more[i] = seen[i] /\ seen[i] <= m /\ seen[i] \in Nat
        BY <1>10, <2>3, <3>1
      <4>2. CASE j = Len(seen) + 1
        BY <2>2, <2>3, <4>1, <4>2
      <4>3. CASE j # Len(seen) + 1
        <5>1. j \in 1 .. Len(seen) /\ more[j] = seen[j]
          BY <2>3, <4>3
        <5>2. seen[i] < seen[j]
          BY <1>11, <3>1, <4>1, <5>1 DEF InOrder
        <5> QED
          BY <4>1, <5>1, <5>2
      <4> QED
        BY <4>2, <4>3
    <3> QED
      BY <2>3, <3>1 DEF InOrder
  <2>5. \A i \in 1 .. Len(more) : more[i] <= m + 1
    <3>1. ASSUME NEW i \in 1 .. Len(more) PROVE more[i] <= m + 1
      <4>1. CASE i = Len(seen) + 1
        BY <2>2, <2>3, <4>1
      <4>2. CASE i # Len(seen) + 1
        BY <1>10, <2>3, <4>2
      <4> QED
        BY <4>1, <4>2
    <3> QED
      BY <3>1
  <2>6. ASSUME NEW n \in 1 .. m + 1, n > cli.polled - Window
        PROVE  \E i \in 1 .. Len(more) : more[i] = n
    <3>1. CASE n = m + 1
      <4>1. Len(seen) + 1 \in 1 .. Len(more)
        BY <2>3
      <4> QED
        BY <2>2, <2>3, <3>1, <4>1
    <3>2. CASE n # m + 1
      <4>1. PICK i \in 1 .. Len(seen) : seen[i] = n
        BY <1>10, <2>6, <3>2
      <4>2. i \in 1 .. Len(more) /\ more[i] = n
        BY <2>3, <4>1
      <4> QED
        BY <4>2
    <3> QED
      BY <3>1, <3>2
  <2>7. ~cli'.lagged => more = Upto(m + 1)
    BY <1>6, <1>10, <2>2, UptoNext DEF more
  <2>8. PrintedUpto(m + 1)'
    <3>1. (cli.polled - Len(cli.batch) <= m + 1 /\ m + 1 <= cli.polled)'
      BY <1>1, <1>4, <1>6, <2>2
    <3>2. (\A i \in 1 .. Len(cli.printed) : cli.printed[i] <= m + 1)'
      BY <2>3, <2>5
    <3>3. (\A n \in 1 .. m + 1 : n > cli.polled - Window =>
              \E i \in 1 .. Len(cli.printed) : cli.printed[i] = n)'
      BY <1>6, <2>3, <2>6
    <3>4. (~cli.lagged => cli.printed = Upto(m + 1))'
      BY <2>3, <2>7 DEF Upto
    <3> QED
      BY <3>1, <3>2, <3>3, <3>4 DEF PrintedUpto
  <2>9. PrintedSoFar'
    <3>1. m + 1 \in Nat
      OBVIOUS
    <3> QED
      BY <2>4, <2>8, <3>1 DEF PrintedSoFar
  <2> QED
    BY <1>6, <1>7, <1>8, <2>9 DEF CliInv
<1> QED
  BY <1>12, <1>13

LEMMA CliStopsKeeps ==
    ASSUME IInv, CliStops
    PROVE  SessionInv' /\ Later /\ CliInv' /\ ws' = ws
<1>1. /\ CliGoto("done") /\ ws' = ws /\ cli.pc = "stop" /\ UNCHANGED <<radio, threads>>
      /\ session' = IF cli.own /\ session.listed THEN Stopped ELSE session
  BY DEF CliStops, StopsScan
<1>2. SessionInv' /\ Later
  <2>1. CASE cli.own /\ session.listed
    BY <1>1, <2>1, StopKeeps
  <2>2. CASE ~(cli.own /\ session.listed)
    BY <1>1, <2>2, Quiet
  <2> QED
    BY <2>1, <2>2
<1>3. cli.own => ~session'.listed
  BY <1>1, SessionFacts DEF Stopped, SessionTypes
<1>4. cli.own => Known'
  BY <1>1, <1>2, CliFacts DEF Later
<1>5. CliInv'
  BY <1>1, <1>2, <1>3, <1>4, CliMoves
<1> QED
  BY <1>1, <1>2, <1>5

\* The steps of the scanner that leave the session alone.
LEMMA CliAloneKeeps ==
    ASSUME IInv, CliAttaches \/ CliReady \/ CliCut \/ Signal \/ CliGets \/ CliGivesUp \/ CliPrints
                 \/ CliPrinted \/ CliStopLost
    PROVE  SessionInv' /\ Later /\ CliInv' /\ ws' = ws
<1>1. UNCHANGED <<session, radio, threads>> /\ ws' = ws
  BY DEF CliAttaches, CliReady, CliCut, Signal, CliGets, CliGivesUp, CliPrints, CliPrinted, CliStopLost
<1>2. SessionInv' /\ Later /\ (cli.own /\ cli.pc # "start" => Known')
  BY <1>1, CliFacts, Quiet DEF Later
<1>3. cli.pc \in {"start", "early", "get"} => cli.batch = <<>>
  BY CliFacts DEF BatchEnds
<1>4. CASE CliAttaches
  BY <1>1, <1>2, <1>3, <1>4, CliMoves DEF CliAttaches
<1>5. CASE CliReady
  BY <1>1, <1>2, <1>3, <1>5, CliMoves DEF CliReady
<1>6. CASE CliCut
  BY <1>1, <1>2, <1>6, CliMoves DEF CliCut
<1>7. CASE Signal
  BY <1>1, <1>2, <1>3, <1>7, CliMoves DEF Signal
<1>8. CASE CliGets
  BY <1>1, <1>2, <1>8, GetsKeeps
<1>9. CASE CliGivesUp
  BY <1>1, <1>2, <1>9, CliMoves DEF CliGivesUp
<1>10. CASE CliPrints
  BY <1>1, <1>2, <1>10, PrintsKeeps
<1>11. CASE CliPrinted
  BY <1>1, <1>2, <1>11, CliMoves DEF CliPrinted
<1>12. CASE CliStopLost
  BY <1>1, <1>2, <1>12, CliMoves DEF CliStopLost
<1> QED
  BY <1>4, <1>5, <1>6, <1>7, <1>8, <1>9, <1>10, <1>11, <1>12

-----------------------------------------------------------------------------
(* The websocket                                                           *)

LEMMA WsSendsKeeps ==
    ASSUME IInv, WsSends
    PROVE  WsInv'
<1> DEFINE events == Newest(session.events, WsLimit)
           count == session.event_count
           start == IF ws.sent > Len(events) THEN 0 ELSE ws.sent
<1>1. /\ WsTypes /\ WsExact /\ ws.sent \in Nat /\ ws.log \in Seq(Events) /\ count \in Nat
      /\ MaxHeld \in Nat \ {0} /\ WsLimit \in Nat \ {0} /\ session.events \in Seq(Events)
  BY ScannerAssumption, SessionFacts DEF IInv, WsInv, WsTypes, SessionTypes
<1>2. /\ events \in Seq(Events)
      /\ Len(events) = IF Len(session.events) <= WsLimit THEN Len(session.events) ELSE WsLimit
      /\ \A i \in 1 .. Len(events) : events[i] = session.events[Len(session.events) - Len(events) + i]
  BY <1>1, NewestOf
<1>3. /\ session' = session
      /\ ws' = [ws EXCEPT !.log = ws.log \o Unsent(events), !.sent = Len(events)]
  BY <1>1 DEF WsSends, WsTypes
<1> HIDE DEF events
<1>4. Unsent(events) = SubSeq(events, start + 1, Len(events)) /\ start \in 0 .. Len(events)
      /\ Len(events) \in Nat /\ (ws.sent <= Len(events) => start = ws.sent)
  BY <1>1, <1>2 DEF Unsent
<1> HIDE DEF start
<1>5. /\ Unsent(events) \in Seq(Events) /\ Len(Unsent(events)) = Len(events) - start
      /\ \A i \in 1 .. Len(events) - start : Unsent(events)[i] = events[start + i]
  BY <1>2, <1>4, LeftOf
<1>6. WsTypes'
  <2>1. ws.log \o Unsent(events) \in Seq(Events) /\ Len(events) \in 0 .. WsLimit
    BY <1>1, <1>2, <1>5
  <2> QED
    BY <1>1, <1>3, <2>1 DEF WsTypes
<1>7. WsExact'
  <2>1. SUFFICES ASSUME ~Overflowed' PROVE (ws.sent <= session.event_count /\ ws.log = Upto(ws.sent))'
    BY DEF WsExact
  <2>2. ~Overflowed /\ count <= MaxHeld /\ count <= WsLimit
    BY <1>1, <1>3, <2>1 DEF Overflowed
  <2>3. Len(events) = count /\ \A i \in 1 .. count : events[i] = i
    <3>1. /\ Len(session.events) = count
          /\ \A i \in 1 .. count : session.events[i] = count - Len(session.events) + i
      BY <1>1, <2>2, SessionFacts DEF HoldsNewest
    <3>2. Len(events) = count
      BY <1>1, <1>2, <2>2, <3>1
    <3>3. ASSUME NEW i \in 1 .. count PROVE events[i] = i
      <4>1. events[i] = session.events[count - count + i]
        BY <1>2, <3>1, <3>2
      <4>3. count - count + i = i
        BY <1>1
      <4>2. session.events[i] = count - count + i
        BY <3>1
      <4> QED
        BY <4>1, <4>2, <4>3
    <3> QED
      BY <3>2, <3>3
  <2>4. start = ws.sent /\ ws.sent <= count /\ ws.log = Upto(ws.sent) /\ Len(ws.log) = ws.sent
    <3>1. ws.sent <= count /\ ws.log = Upto(ws.sent)
      BY <1>1, <2>2 DEF WsExact
    <3> QED
      BY <1>1, <1>4, <2>3, <3>1, UptoNext
  <2>5. ws.log \o Unsent(events) = Upto(count)
    <3> DEFINE log == ws.log \o Unsent(events)
    <3>1. /\ log \in Seq(Events) /\ Len(log) = ws.sent + (count - ws.sent)
          /\ \A i \in 1 .. Len(log) :
                log[i] = IF i <= ws.sent THEN ws.log[i] ELSE Unsent(events)[i - ws.sent]
      <4>1. ws.log \in Seq(Events) /\ Unsent(events) \in Seq(Events) /\ Len(ws.log) = ws.sent
            /\ Len(Unsent(events)) = count - ws.sent
        BY <1>1, <1>5, <2>3, <2>4
      <4>2. /\ log \in Seq(Events) /\ Len(log) = Len(ws.log) + Len(Unsent(events))
            /\ \A i \in 1 .. Len(ws.log) + Len(Unsent(events)) :
                  log[i] = IF i <= Len(ws.log) THEN ws.log[i] ELSE Unsent(events)[i - Len(ws.log)]
        BY <4>1, ConcatProperties
      <4> QED
        BY <4>1, <4>2
    <3> HIDE DEF log
    <3>2. Len(log) = count
      BY <1>1, <3>1
    <3>3. ASSUME NEW i \in 1 .. count PROVE log[i] = i
      <4>1. CASE i <= ws.sent
        BY <1>1, <2>4, <3>1, <3>2, <4>1 DEF Upto
      <4>2. CASE ~(i <= ws.sent)
        <5>1. log[i] = Unsent(events)[i - ws.sent] /\ i - ws.sent \in 1 .. count - ws.sent
          BY <1>1, <2>4, <3>1, <3>2, <4>2
        <5>2. Unsent(events)[i - ws.sent] = events[ws.sent + (i - ws.sent)] /\ ws.sent + (i - ws.sent) = i
          BY <1>1, <1>5, <2>3, <2>4, <5>1
        <5> QED
          BY <2>3, <5>1, <5>2
      <4> QED
        BY <4>1, <4>2
    <3>4. log = [i \in 1 .. count |-> i]
      BY <3>1, <3>2, <3>3
    <3> QED
      BY <3>4 DEF log, Upto
  <2>6. ws'.log = Upto(count) /\ ws'.sent = count
    BY <1>1, <1>3, <2>3, <2>5 DEF WsTypes
  <2>7. ws'.sent <= session'.event_count
    BY <1>1, <1>3, <2>6
  <2> QED
    BY <2>6, <2>7 DEF Upto
<1> QED
  BY <1>6, <1>7 DEF WsInv

LEMMA WsKeeps ==
    ASSUME IInv, WsConnects \/ WsSends \/ WsCloses
    PROVE  SessionInv' /\ Later /\ CliInv' /\ WsInv'
<1>1. UNCHANGED <<session, radio, threads>> /\ cli' = cli
  BY DEF WsConnects, WsSends, WsCloses
<1>2. SessionInv' /\ Later /\ CliInv'
  BY <1>1, Quiet, CliLeft
<1>3. WsTypes /\ WsExact /\ WsLimit \in Nat /\ session.event_count \in Nat
  BY ScannerAssumption, SessionFacts DEF IInv, WsInv
<1>4. CASE WsConnects
  <2>1. ws' = [ws EXCEPT !.pc = "poll"] /\ session' = session
    BY <1>4 DEF WsConnects
  <2>2. WsTypes' /\ ws'.sent = ws.sent /\ ws'.log = ws.log
    BY <1>3, <2>1 DEF WsTypes
  <2>3. WsExact'
    BY <1>3, <2>1, <2>2 DEF WsExact, Overflowed
  <2> QED
    BY <1>2, <2>2, <2>3 DEF WsInv
<1>5. CASE WsSends
  BY <1>2, <1>5, WsSendsKeeps
<1>6. CASE WsCloses
  <2>1. ws' = [pc |-> "closed", sent |-> 0, log |-> <<>>] /\ session' = session
    BY <1>6 DEF WsCloses
  <2>2. Upto(0) = <<>>
    BY DEF Upto
  <2>3. WsTypes'
    BY <1>3, <2>1 DEF WsTypes
  <2>4. WsExact'
    BY <1>3, <2>1, <2>2 DEF WsExact, Upto
  <2> QED
    BY <1>2, <2>3, <2>4 DEF WsInv
<1> QED
  BY <1>4, <1>5, <1>6

-----------------------------------------------------------------------------
(* The invariant                                                           *)

LEMMA InitHolds ==
    ASSUME Init
    PROVE  IInv
<1>1. SessionInv
  <2>1. session = [listed |-> FALSE, stop |-> FALSE, events |-> <<>>, event_count |-> 0, current_channel |-> 1]
        /\ channel \in Tuned /\ off = FALSE /\ control_lock = "free" /\ hop = [pc |-> "off", index |-> 1]
        /\ scan = "off" /\ 1 \in Tuned /\ MaxEvents \in Nat /\ MaxHeld \in Nat
    BY ScannerAssumption DEF Init, Tuned
  <2>2. SessionTypes /\ StartedOnce /\ OnChannel /\ HoldsNewest
    <3>1. SessionTypes
      <4>1. /\ session \in [listed : BOOLEAN, stop : BOOLEAN, events : Seq(Events),
                            event_count : 0 .. MaxEvents, current_channel : Tuned]
            /\ Len(session.events) <= MaxHeld
        BY <2>1
      <4>2. hop \in [pc : {"off", "wait", "set", "assign", "done"}, index : Tuned]
        BY <2>1
      <4> QED
        BY <2>1, <4>1, <4>2 DEF SessionTypes
    <3> QED
      BY <2>1, <3>1 DEF StartedOnce, Known, OnChannel, HoldsNewest
  <2> QED
    BY <2>2 DEF SessionInv
<1>2. CliInv
  <2>1. PICK own \in BOOLEAN, once \in BOOLEAN :
          cli = [pc |-> "start", own |-> own, once |-> once, stop_requested |-> FALSE,
                 batch |-> <<>>, printed |-> <<>>, polled |-> 0, lagged |-> FALSE]
    BY DEF Init
  <2>2. MaxEvents \in Nat /\ Window \in Nat /\ session.event_count = 0
    BY ScannerAssumption DEF Window, Init
  <2>3. CliTypes /\ BatchEnds /\ InOrder /\ OwnScanStopped /\ (cli.own /\ cli.pc # "start" => Known)
    BY <2>1, <2>2 DEF CliTypes, BatchEnds, InOrder, OwnScanStopped
  <2>4. PrintedUpto(0)
    <3>1. Upto(0) = <<>>
      BY DEF Upto
    <3> QED
      BY <2>1, <2>2, <3>1 DEF PrintedUpto
  <2>5. PrintedSoFar
    <3>1. 0 \in Nat
      OBVIOUS
    <3> QED
      BY <2>3, <2>4, <3>1 DEF PrintedSoFar
  <2> QED
    BY <2>3, <2>5 DEF CliInv
<1>3. WsInv
  <2>1. ws = [pc |-> "off", sent |-> 0, log |-> <<>>] /\ session.event_count = 0 /\ WsLimit \in Nat
    BY ScannerAssumption DEF Init
  <2>2. Upto(0) = <<>>
    BY DEF Upto
  <2> QED
    BY <2>1, <2>2 DEF WsInv, WsTypes, WsExact
<1> QED
  BY <1>1, <1>2, <1>3 DEF IInv

LEMMA NextKeeps ==
    ASSUME IInv, Next
    PROVE  IInv'
<1>1. CASE OtherStarts
  BY <1>1, StartKeeps, CliLeft, WsLeft DEF OtherStarts, IInv
<1>2. CASE OtherStops
  BY <1>2, StopKeeps, CliLeft, WsLeft DEF OtherStops, IInv
<1>3. CASE Collect
  BY <1>3, CollectKeeps, CliLeft, WsLeft DEF Collect, IInv
<1>4. CASE Hop
  <2>1. cli' = cli /\ ws' = ws
    BY <1>4 DEF Hop, HopBegins, HopSets, HopFails, HopAssigns, HopEnds
  <2> QED
    BY <1>4, <2>1, HopKeeps, CliLeft, WsLeft DEF IInv
<1>5. CASE ActiveScan
  <2>1. cli' = cli /\ ws' = ws
    BY <1>5 DEF ActiveScan, ScanBegins, Scan, ScanRestores, ScanEnds
  <2> QED
    BY <1>5, <2>1, ScanKeeps, CliLeft, WsLeft DEF IInv
<1>6. CASE CliStarts
  <2>1. cli.pc = "start" /\ Start /\ CliGoto("early") /\ cli.batch = <<>>
    BY <1>6, CliFacts DEF CliStarts, BatchEnds
  <2>2. SessionInv' /\ Later /\ Known' /\ ws' = ws
    BY <2>1, StartKeeps
  <2>3. CliInv'
    BY <2>1, <2>2, CliMoves
  <2> QED
    BY <2>2, <2>3, WsLeft DEF IInv
<1>7. CASE CliStops
  BY <1>7, CliStopsKeeps, WsLeft DEF IInv
<1>8. CASE CliAttaches \/ CliReady \/ CliCut \/ Signal \/ CliGets \/ CliGivesUp \/ CliPrints
           \/ CliPrinted \/ CliStopLost
  BY <1>8, CliAloneKeeps, WsLeft DEF IInv
<1>9. CASE WsConnects \/ WsSends \/ WsCloses
  BY <1>9, WsKeeps DEF IInv
<1> QED
  BY <1>1, <1>2, <1>3, <1>4, <1>5, <1>6, <1>7, <1>8, <1>9 DEF Next, CliStep

THEOREM Inductive == Spec => []IInv
<1>1. IInv /\ UNCHANGED vars => IInv'
  <2>1. SUFFICES ASSUME IInv, UNCHANGED vars PROVE IInv'
    OBVIOUS
  <2>2. UNCHANGED <<session, radio, threads>> /\ cli' = cli /\ ws' = ws
    BY <2>1 DEF vars
  <2> QED
    BY <2>1, <2>2, Quiet, CliLeft, WsLeft DEF IInv
<1> QED
  BY InitHolds, NextKeeps, <1>1, PTL DEF Spec

\* The interface is on the channel the session reports while nobody tunes it,
\* unless a tuning failed or crossed an active scan (_hop_channels,
\* _run_active_scan), for every number of channels and every deque.
THEOREM SafeHolds == Spec => []Safe
<1>1. IInv => Safe
  BY DEF IInv, SessionInv, SessionTypes, CliInv, CliTypes, WsInv, WsTypes, OnChannel, Safe, TypeOK, ChannelTold
<1> QED
  BY Inductive, <1>1, PTL

\* The scanner (_run) prints no event twice and none out of order, and all of
\* them when it polls often enough for its window; the websocket
\* (wifi_scan_stream) sends each event once before the deque overflows: for
\* every max_events, event_limit and limit of the websocket.
THEOREM FeedsExactHolds == Spec => []FeedsExact
<1>1. ASSUME IInv PROVE FeedsExact
  <2>1. \A i, j \in DOMAIN cli.printed : i < j => cli.printed[i] < cli.printed[j]
    <3>1. DOMAIN cli.printed = 1 .. Len(cli.printed) /\ InOrder
      BY <1>1, CliFacts DEF PrintedSoFar
    <3> QED
      BY <3>1 DEF InOrder
  <2>2. ~cli.lagged /\ cli.batch = <<>> => cli.printed = Upto(cli.polled)
    <3>1. PICK m \in Nat : PrintedUpto(m)
      BY <1>1, CliFacts DEF PrintedSoFar
    <3>2. cli.batch = <<>> => m = cli.polled
      BY <1>1, <3>1, CliFacts DEF PrintedUpto
    <3> QED
      BY <3>1, <3>2 DEF PrintedUpto
  <2>3. ~Overflowed => ws.log = Upto(ws.sent)
    BY <1>1 DEF IInv, WsInv, WsExact
  <2> QED
    BY <2>1, <2>2, <2>3 DEF FeedsExact, Upto
<1> QED
  BY Inductive, <1>1, PTL

\* A scanner that ended has stopped the scan it started, whatever ended it:
\* nobody can have started its session again (_run, the finally clause).
THEOREM OwnScanStoppedHolds == Spec => []OwnScanStopped
<1>1. IInv => OwnScanStopped
  BY DEF IInv, CliInv
<1> QED
  BY Inductive, <1>1, PTL

-----------------------------------------------------------------------------
(* The events of frames                                                    *)

\* The channel of a frequency, of every channel that has one
\* (_frequency_for_channel, _wifi_channel_from_frequency).
THEOREM ChannelsAreKept ==
    ASSUME NEW channel_number \in Int, FrequencyForChannel(channel_number) # None
    PROVE  /\ FrequencyForChannel(channel_number) \in Int
           /\ ChannelFromFrequency(FrequencyForChannel(channel_number)) = channel_number
<1>1. CASE channel_number \in 1 .. 13
  <2> DEFINE mhz == 2407 + channel_number * 5
  <2>1. FrequencyForChannel(channel_number) = mhz
    BY <1>1 DEF FrequencyForChannel
  <2>2. mhz \in 2412 .. 2472 /\ mhz # 2484 /\ mhz \notin 5000 .. 5900 /\ mhz \notin 5955 .. 7115
        /\ (mhz - 2412) \div 5 + 1 = channel_number
    BY <1>1
  <2> HIDE DEF mhz
  <2>3. ChannelFromFrequency(mhz) = (mhz - 2412) \div 5 + 1
    BY <2>2 DEF ChannelFromFrequency
  <2> QED
    BY <2>1, <2>2, <2>3
<1>2. CASE channel_number = 14
  BY <1>2 DEF FrequencyForChannel, ChannelFromFrequency
<1>3. CASE channel_number \in 32 .. 177
  <2> DEFINE mhz == 5000 + channel_number * 5
  <2>1. FrequencyForChannel(channel_number) = mhz
    BY <1>3 DEF FrequencyForChannel
  <2>2. mhz \in 5000 .. 5900 /\ mhz # 2484 /\ mhz \notin 2412 .. 2472 /\ mhz \notin 5955 .. 7115
        /\ (mhz - 5000) \div 5 = channel_number
    BY SMTT(20), <1>3
  <2> HIDE DEF mhz
  <2>3. ChannelFromFrequency(mhz) = (mhz - 5000) \div 5
    BY <2>2 DEF ChannelFromFrequency
  <2> QED
    BY <2>1, <2>2, <2>3
<1>4. CASE ~(channel_number \in 1 .. 13 \/ channel_number = 14 \/ channel_number \in 32 .. 177)
  BY <1>4 DEF FrequencyForChannel
<1> QED
  BY <1>1, <1>2, <1>3, <1>4

\* Whatever channel the session is on when a frame is handled, a capture of the
\* gateway that says on which frequency the frame was received has it counted
\* on the channel of that frequency (_parse_wifi_line,
\* _parse_tshark_fields_line, _event_from_scapy_packet), but for the last ones
\* of the 6 GHz band, which the pattern for tcpdump's lines leaves out.
THEOREM ChannelOfFrame ==
    ASSUME NEW command \in {"tcpdump", "tshark", "scapy"}, NEW frame, NEW current,
           NEW freq \in Int, ChannelFromFrequency(freq) # None, command = "tcpdump" => freq < 7000
    PROVE  /\ EventOf(command, frame, freq, current).channel = ChannelFromFrequency(freq)
           /\ EventOf(command, frame, freq, current).mhz = freq
<1>1. freq # None
  BY NoneAssumption
<1>2. CASE command = "tcpdump"
  <2>1. Printed(freq) = freq
    <3>1. freq \in (2400 .. 2499) \cup (5000 .. 6999)
      BY <1>2 DEF ChannelFromFrequency
    <3> QED
      BY <3>1 DEF Printed
  <2>2. EventOf(command, frame, freq, current) = TcpdumpEvent(frame, freq)
    BY <1>2 DEF EventOf
  <2> QED
    BY <2>1, <2>2 DEF TcpdumpEvent
<1>3. CASE command = "tshark"
  BY <1>3 DEF EventOf, TsharkEvent
<1>4. CASE command = "scapy"
  <2>1. EventOf(command, frame, freq, current) = ScapyEvent(frame, freq, current)
    BY <1>4 DEF EventOf
  <2> QED
    BY <1>1, <2>1 DEF ScapyEvent, ScapyChannel, OrElse
<1> QED
  BY <1>2, <1>3, <1>4

\* Without a gateway the scanner takes the channel of the moment for the
\* channel of a frame, even when the capture knows better (_run_scapy).
THEOREM LocalChannelOfMoment ==
    ASSUME NEW frame, NEW current, NEW freq
    PROVE  EventOf("local", frame, freq, current).channel = current
<1>1. EventOf("local", frame, freq, current) = LocalEvent(frame, freq, current)
  BY DEF EventOf
<1> QED
  BY <1>1 DEF LocalEvent, ScapyEvent
=============================================================================
