--------------------------- MODULE MCScannerFeed ---------------------------
(***************************************************************************)
(* ScannerFeed for TLC, and the pure part of WiFi scans (WiFiEvents)       *)
(* compared with what it is meant to compute: every kind of frame, with    *)
(* and without names and frequencies, command lines of every form, and     *)
(* scans that find up to two networks.                                     *)
(***************************************************************************)
EXTENDS ScannerFeed, WiFiEvents

-----------------------------------------------------------------------------
(* Channels and routes                                                     *)

\* A channel with a frequency is the channel of that frequency.
ASSUME ChannelsRoundTrip ==
    \A c \in 1 .. 200 : FrequencyForChannel(c) # None => ChannelFromFrequency(FrequencyForChannel(c)) = c

CommandLines ==
    [channels : {<<>>, <<6>>, <<6, 1, 6>>, <<11, 36>>}, channel : {None, 6, 44},
     bands : SUBSET {"2.4", "5"}, hops : BOOLEAN]

\* Through the gateway or without it, a command line that hops makes the radio
\* go through the same channels, unless it gives both --channel and --channels.
ASSUME SameRoute ==
    \A line \in CommandLines :
        line.hops /\ (line.channels = <<>> \/ line.channel = None) => GatewayRoute(line) = LocalRoute(line)

\* A scanner without a gateway parks on --channel, as its help says ("Park on
\* one channel instead of hopping."); through the gateway --channels, when they
\* are given too, have it hop.
ASSUME Parks ==
    \A line \in CommandLines : line.channel # None =>
        /\ LocalRoute(line) = <<line.channel>>
        /\ line.hops => GatewayRoute(line) = IF line.channels = <<>> THEN <<line.channel>>
                                              ELSE Distinct(line.channels)

-----------------------------------------------------------------------------
(* Frames                                                                  *)

Words == {"beacon", "probe_request", "probe_response", "data", "home", ""}

\* Control frames have a receiver and, but for acknowledgments, a transmitter;
\* the other end of a frame through an access point is a peer.
Frame(type, subtype, ds, ssid) ==
    [type |-> type, subtype |-> subtype, ds |-> ds, ssid |-> ssid,
     sa |-> IF type = 1 THEN None ELSE IF ds = "from" THEN "peer" ELSE "station",
     da |-> IF type = 1 THEN None ELSE IF ds = "from" THEN "station" ELSE "peer",
     bssid |-> IF type = 1 THEN None ELSE "ap",
     ta |-> IF type = 1 /\ subtype # 13 THEN "station" ELSE None,
     ra |-> IF type = 1 THEN "ap" ELSE None]

Frames ==
    {Frame(type, subtype, "none", None) : type \in 0 .. 3, subtype \in 0 .. 15}
    \cup {Frame(2, subtype, ds, None) : subtype \in 0 .. 15, ds \in {"to", "from"}}
    \cup {Frame(0, subtype, "none", word) : subtype \in {0, 4, 5, 8}, word \in Words}

\* Channels of each band, one between the bands, and none.
Freqs == {2412, 2462, 2484, 5180, 5825, 5935, 5975, 7015, None}

\* Both tables name the same frames, and alike.
ASSUME TablesAgree ==
    \A frame \in Frames :
        /\ Named(frame) <=> TypeSubtype(frame) \in DOMAIN MappedKinds
        /\ Named(frame) => ScapyKind(frame) = TsharkKind(frame)

\* The captures agree: a frame that does not cross a distribution system and is
\* received where frequencies have numbers is counted the same by tshark and
\* scapy when its subtype has a name, and the scanner without a gateway counts
\* it so when it is still on the channel of the frame.  (The second and third
\* address scapy takes for source and access point are the access point and the
\* other end when a frame does cross one.)
ASSUME CapturesAgree ==
    \A frame \in Frames, freq \in Freqs, current \in {1, 36} :
        LET key(command) == CountKey(EventOf(command, frame, freq, current))
        IN frame.type # 1 /\ frame.ds = "none" /\ ChannelFromFrequency(freq) # None /\ Named(frame) =>
             /\ key("scapy") = key("tshark")
             /\ ChannelFromFrequency(freq) = current => key("local") = key("tshark")

\* tcpdump's lines tell the kind of a frame, unless the name of its network is
\* taken for it, which only a word does that is looked for before the frame's
\* own, or in a frame that has none.
ASSUME KindFromName ==
    \A frame \in Frames :
        LET rank(word) == CHOOSE i \in 1 .. 5 : (Keywords \o <<"wifi">>)[i] = word
            told == TcpdumpKind(frame)[1]
        IN told = IF frame.ssid \in Range(Keywords) /\ rank(frame.ssid) < rank(Word(frame))
                  THEN frame.ssid ELSE Word(frame)

-----------------------------------------------------------------------------
(* Active scans                                                            *)

Networks ==
    [bssid : {"a", "b"}, freq : {2437, 5935}, fraction : BOOLEAN, ssid : {"", "home"}, load : BOOLEAN]

\* The event a network deserves, and one of nothing for its load.
EventsFor(n) ==
    LET freq == IF n.fraction THEN None ELSE n.freq
    IN <<[bssid |-> n.bssid, ssid |-> n.ssid, mhz |-> freq, channel |-> ChannelFromFrequency(freq)]>>
       \o IF n.load THEN <<ActiveAp("load:")>> ELSE <<>>

\* A scan makes, in the order of iw's output, one event of each network with
\* the name and the frequency of that network and no other, and besides only
\* this: a network "load:" that nobody operates, after each network that tells
\* its load.
ASSUME OwnLines ==
    /\ ParseIwScanOutput(<<>>) = <<>>
    /\ \A a, b \in Networks :
          ParseIwScanOutput(LinesOf(a) \o LinesOf(b)) = EventsFor(a) \o EventsFor(b)
=============================================================================
