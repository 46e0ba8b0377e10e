----------------------------- MODULE WiFiEvents -----------------------------
(***************************************************************************)
(* From a command line to the channels a WiFi scan hops over, and from     *)
(* what is in the air to its events: the pure part of WiFiMonitorManager   *)
(* (src/app/services.py) and of the scanner that can do without a gateway  *)
(* (src/app/wifi_scanner.py, _run_scapy, here "local").  Each of the ways  *)
(* to capture makes an event of its own of a frame: lines of tcpdump,      *)
(* fields of tshark (which also serves command=pyshark), packets of scapy  *)
(* in the gateway or in the scanner.  Networks an active scan finds are    *)
(* read from what iw prints.                                               *)
(*                                                                         *)
(* A field that is missing, None in one capture and "" in another, is      *)
(* None: everything that reads it says "or ''".  The name of a network is  *)
(* a word; a frame carries none (None), a hidden one ("") or one that is   *)
(* told.  Left out are names of zero bytes, frames relayed between access  *)
(* points (four addresses), signal strengths, times, reason codes and the  *)
(* wording of "raw".                                                       *)
(***************************************************************************)
EXTENDS Integers, Sequences, SequencesExt, TLC

CONSTANT None       \* no channel, no frequency, no address

ASSUME NoneAssumption == None \notin Int \cup STRING

-----------------------------------------------------------------------------
(* Channels and the frequencies of their centres, in MHz                   *)

FrequencyForChannel(channel) ==
    CASE channel \in 1 .. 13 -> 2407 + channel * 5
      [] channel = 14 -> 2484
      [] channel \in 32 .. 177 -> 5000 + channel * 5
      [] OTHER -> None

ChannelFromFrequency(mhz) ==
    CASE mhz = 2484 -> 14
      [] mhz \in 2412 .. 2472 -> (mhz - 2412) \div 5 + 1
      [] mhz \in 5000 .. 5900 -> (mhz - 5000) \div 5
      [] mhz \in 5955 .. 7115 -> (mhz - 5955) \div 5 + 1
      [] OTHER -> None

-----------------------------------------------------------------------------
(* The channels to hop over.  A command line has a list of channels, a     *)
(* channel or None, bands, and says whether to tune the radio at all       *)
(* (--set-channel; without a gateway --local-hop).                         *)

Every4th(first, count) == [i \in 1 .. count |-> first + 4 * (i - 1)]
Band24 == <<1, 6, 11>>
Band5 == Every4th(36, 8) \o Every4th(100, 12) \o Every4th(149, 5)

\* list(dict.fromkeys(channels))
Distinct(channels) ==
    FoldLeft(LAMBDA seen, c : IF c \in Range(seen) THEN seen ELSE Append(seen, c), <<>>, channels)

OfBands(bands) == (IF "2.4" \in bands THEN Band24 ELSE <<>>) \o (IF "5" \in bands THEN Band5 ELSE <<>>)
Asked(bands) == IF bands = {} THEN {"2.4"} ELSE bands

ChannelsForArgs(line) ==
    CASE line.channels # <<>> -> Distinct(line.channels)
      [] line.channels = <<>> /\ line.channel # None -> <<line.channel>>
      [] OTHER -> Distinct(OfBands(Asked(line.bands)))

\* The request of _start_scan: what is not sent has its default.
Payload(line) ==
    [channels |-> Distinct(line.channels),
     channel |-> IF line.channels = <<>> THEN line.channel ELSE None,
     bands |-> IF line.channels = <<>> /\ line.channel = None THEN Asked(line.bands) ELSE {"2.4", "5"}]

ChannelsForConfig(config) ==
    CASE config.channels # <<>> -> Distinct(config.channels)
      [] config.channels = <<>> /\ config.channel # None -> <<config.channel>>
      [] OTHER -> LET of == OfBands(config.bands) IN IF of = <<>> THEN Band24 ELSE of

\* The channels the radio is tuned to, in turn; <<>> leaves it where it is.
GatewayRoute(line) == IF line.hops THEN ChannelsForConfig(Payload(line)) ELSE <<>>

LocalRoute(line) ==
    CASE line.channel # None -> <<line.channel>>
      [] line.channel = None /\ line.hops -> ChannelsForArgs(line)
      [] OTHER -> <<ChannelsForArgs(line)[1]>>

-----------------------------------------------------------------------------
(* The kind of a frame                                                     *)

\* subtype_names and type_name, the same in the gateway and in the scanner.
TypeName(type) == <<"mgmt", "ctrl", "data", "ext">>[type + 1]

SubtypeNames(type) ==
    CASE type = 0 ->
           0 :> "association_request" @@ 1 :> "association_response" @@ 2 :> "reassociation_request"
           @@ 3 :> "reassociation_response" @@ 4 :> "probe_request" @@ 5 :> "probe_response"
           @@ 8 :> "beacon" @@ 9 :> "atim" @@ 10 :> "disassociation" @@ 11 :> "authentication"
           @@ 12 :> "deauthentication" @@ 13 :> "action"
      [] type = 1 ->
           8 :> "block_ack_request" @@ 9 :> "block_ack" @@ 10 :> "ps_poll" @@ 11 :> "rts"
           @@ 12 :> "cts" @@ 13 :> "ack" @@ 14 :> "cf_end" @@ 15 :> "cf_end_ack"
      [] type = 2 -> 0 :> "data" @@ 4 :> "null" @@ 8 :> "qos_data" @@ 12 :> "qos_null"
      [] OTHER -> <<>>

Named(frame) == frame.subtype \in DOMAIN SubtypeNames(frame.type)

\* The number in the name of an unnamed subtype is left out.
ScapyKind(frame) ==
    <<TypeName(frame.type), IF Named(frame) THEN SubtypeNames(frame.type)[frame.subtype] ELSE "subtype">>

\* tshark prints wlan.fc.type_subtype as one number.
TypeSubtype(frame) == 16 * frame.type + frame.subtype

MappedKinds ==
    0 :> <<"mgmt", "association_request">> @@ 1 :> <<"mgmt", "association_response">>
    @@ 2 :> <<"mgmt", "reassociation_request">> @@ 3 :> <<"mgmt", "reassociation_response">>
    @@ 4 :> <<"mgmt", "probe_request">> @@ 5 :> <<"mgmt", "probe_response">>
    @@ 8 :> <<"mgmt", "beacon">> @@ 9 :> <<"mgmt", "atim">> @@ 10 :> <<"mgmt", "disassociation">>
    @@ 11 :> <<"mgmt", "authentication">> @@ 12 :> <<"mgmt", "deauthentication">>
    @@ 13 :> <<"mgmt", "action">> @@ 24 :> <<"ctrl", "block_ack_request">>
    @@ 25 :> <<"ctrl", "block_ack">> @@ 26 :> <<"ctrl", "ps_poll">> @@ 27 :> <<"ctrl", "rts">>
    @@ 28 :> <<"ctrl", "cts">> @@ 29 :> <<"ctrl", "ack">> @@ 30 :> <<"ctrl", "cf_end">>
    @@ 31 :> <<"ctrl", "cf_end_ack">> @@ 32 :> <<"data", "data">> @@ 36 :> <<"data", "null">>
    @@ 40 :> <<"data", "qos_data">> @@ 44 :> <<"data", "qos_null">>

TsharkKind(frame) ==
    LET number == TypeSubtype(frame) IN
    IF number \in DOMAIN MappedKinds THEN MappedKinds[number] ELSE <<"wifi", "subtype">>

\* tcpdump's own word for a frame, among those that are looked for.
Word(frame) ==
    CASE frame.type = 0 /\ frame.subtype = 8 -> "beacon"
      [] frame.type = 0 /\ frame.subtype = 4 -> "probe_request"
      [] frame.type = 0 /\ frame.subtype = 5 -> "probe_response"
      [] frame.type = 2 /\ frame.subtype \in {0, 8} -> "data"
      [] OTHER -> "wifi"

\* In this order, in all of the line, the name of the network included.
Keywords == <<"beacon", "probe_request", "probe_response", "data">>

TcpdumpKind(frame) ==
    LET found == SelectSeq(Keywords, LAMBDA word : word \in {Word(frame), frame.ssid})
    IN <<IF found = <<>> THEN "wifi" ELSE found[1]>>

-----------------------------------------------------------------------------
(* The event of a frame.  The capture says on which frequency the frame    *)
(* was received, or not (None); current_channel is the session's when the  *)
(* frame is handled, which may be some hops later.                         *)

OrElse(value, other) == IF value # None THEN value ELSE other

\* The three addresses of a frame in the order they are sent in.
Addr(frame) ==
    CASE frame.type = 1 -> <<frame.ra, frame.ta, None>>
      [] frame.type # 1 /\ frame.ds = "to" -> <<frame.bssid, frame.sa, frame.da>>
      [] frame.type # 1 /\ frame.ds = "from" -> <<frame.da, frame.bssid, frame.sa>>
      [] OTHER -> <<frame.da, frame.sa, frame.bssid>>

Told(ssid) == IF ssid = "" THEN None ELSE ssid

\* The frequency as three or four digits that start with 24, 5 or 6.
Printed(freq) == IF freq \in (2400 .. 2499) \cup (5000 .. 6999) THEN freq ELSE None

TcpdumpEvent(frame, freq) ==
    [kind |-> TcpdumpKind(frame),
     ssid |-> IF Word(frame) \in {"beacon", "probe_request", "probe_response"} THEN Told(frame.ssid) ELSE None,
     source |-> OrElse(frame.sa, frame.ta), destination |-> OrElse(frame.da, frame.ra),
     bssid |-> frame.bssid,
     mhz |-> Printed(freq), channel |-> ChannelFromFrequency(Printed(freq))]

TsharkEvent(frame, freq) ==
    [kind |-> TsharkKind(frame), ssid |-> Told(frame.ssid),
     source |-> frame.sa, destination |-> frame.da, bssid |-> frame.bssid,
     mhz |-> freq, channel |-> ChannelFromFrequency(freq)]

ScapyChannel(freq, current) == OrElse(ChannelFromFrequency(freq), current)

ScapyEvent(frame, freq, current) ==
    LET addr == Addr(frame) IN
    [kind |-> ScapyKind(frame), ssid |-> Told(frame.ssid),
     source |-> addr[2], destination |-> addr[1], bssid |-> addr[3],
     mhz |-> OrElse(freq, FrequencyForChannel(current)), channel |-> ScapyChannel(freq, current)]

LocalEvent(frame, freq, current) == [ScapyEvent(frame, freq, current) EXCEPT !.channel = current]

EventOf(cmd, frame, freq, current) ==
    CASE cmd = "tcpdump" -> TcpdumpEvent(frame, freq)
      [] cmd = "tshark" -> TsharkEvent(frame, freq)
      [] cmd = "scapy" -> ScapyEvent(frame, freq, current)
      [] cmd = "local" -> LocalEvent(frame, freq, current)

\* What wifi_scanner counts events by (_count_key)
CountKey(event) ==
    <<event.kind, event.ssid, event.source, event.destination, event.bssid, event.channel>>
Place(event) == <<event.source, event.destination, event.bssid, event.channel>>

-----------------------------------------------------------------------------
(* _parse_iw_scan_output.  A line is the word it starts with and a value,  *)
(* or for a frequency, its number and whether it is printed with a         *)
(* fraction ("2412.0", as newer versions of iw do).                        *)

\* What iw prints of a network; its load is headed "BSS Load:".
LinesOf(n) ==
    <<[word |-> "BSS", value |-> n.bssid],
      [word |-> "freq:", value |-> n.freq, fraction |-> n.fraction],
      [word |-> "capability:", value |-> "ESS"],
      [word |-> "SSID:", value |-> n.ssid]>>
    \o IF n.load THEN <<[word |-> "BSS", value |-> "load:"], [word |-> "*", value |-> "station count"]>>
                 ELSE <<>>

ActiveAp(bssid) == [bssid |-> bssid, ssid |-> None, mhz |-> None, channel |-> None]

\* The network that is being read goes to the events.
Flushed(read) == IF read.current = None THEN read.events ELSE Append(read.events, read.current)

\* int() of a number with a fraction raises; the error is suppressed.
Frequency(current, line) ==
    IF line.fraction THEN current
    ELSE [current EXCEPT !.mhz = line.value, !.channel = ChannelFromFrequency(line.value)]

ReadLine(read, line) ==
    CASE line.word = "BSS" -> [events |-> Flushed(read), current |-> ActiveAp(line.value)]
      [] line.word = "freq:" /\ read.current # None ->
            [read EXCEPT !.current = Frequency(@, line)]
      [] line.word = "SSID:" /\ read.current # None ->
            [read EXCEPT !.current = [@ EXCEPT !.ssid = line.value]]
      [] OTHER -> read

ParseIwScanOutput(lines) == Flushed(FoldLeft(ReadLine, [events |-> <<>>, current |-> None], lines))
=============================================================================
