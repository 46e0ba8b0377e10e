-------------------------- MODULE LiveRetune_proofs --------------------------
(***************************************************************************)
(* Proofs about LiveRetune: any clients, sample rates, limits, block size, *)
(* pipes and number of retunes, and every one of the four workers.         *)
(***************************************************************************)
EXTENDS LiveRetune, SequenceTheorems, TLAPS

-----------------------------------------------------------------------------
(* The invariant                                                           *)

\* Standard input holds the newest commands, and behind it comes the newest of
\* the queue, or the one the main loop has taken.
CommandsInOrder ==
    /\ Len(stdin) <= sent
    /\ \A i \in 1 .. Len(stdin) : stdin[i].n = sent - Len(stdin) + i
    /\ queue # <<>> => queue[Len(queue)].n = sent - Len(stdin)
    /\ queue = <<>> => next.n = sent - Len(stdin)
    /\ device.n <= next.n /\ next.n <= sent - Len(stdin)

\* Samples are written out in the order in which the radio was tuned.
SamplesFollowDevice ==
    /\ got <= device.n
    /\ block # <<>> => got <= block[1] /\ block[1] <= device.n
    /\ \A i \in 1 .. Len(out) :
          /\ got <= out[i] /\ out[i] <= device.n
          /\ block # <<>> => out[i] <= block[1]
          /\ \A j \in 1 .. Len(out) : i < j => out[i] <= out[j]

\* Outside of apply_config the radio has the setting taken last, but for what the
\* driver refused of its filter and gains.
Settled == main \in {"loop", "read", "write"} \/ (main \in {"warn", "log"} /\ hackrf)
Applied == Settled => device = next /\ (extras = next.n \/ partial)

\* The newest command, wherever it is.
Newest ==
    IF stdin # <<>> THEN stdin[Len(stdin)]
    ELSE IF queue # <<>> THEN queue[Len(queue)] ELSE next

\* Without a race the newest command is recorded, or is about to be.
NewestRecorded ==
    ~raced =>
        \/ (\A c \in Clients : client[c] = None) /\ config = Newest
        \/ \E c \in Clients :
              client[c] = Newest /\ \A d \in Clients \ {c} : client[d] = None

\* A change of the sample rate has waited for the stream to stop.
RestAtTune == main = "tune" /\ next.rate # device.rate => ~streaming \/ stop_requested

\* A finite stream is never retuned, so that it runs until its limit, and it
\* ends by itself only there.
FiniteRuns ==
    ~IsContinuous =>
        /\ sent = 0 /\ stdin = <<>> /\ queue = <<>>
        /\ main \notin {"quiesce", "tune", "warn", "refused", "log"}
        /\ main \notin {"closing", "ended"} => streaming
        /\ worker.limit > 0 /\ gateway = "reading" =>
              /\ stop_requested => written >= worker.limit
              /\ main \in {"closing", "ended"} /\ ~worker.timed => written >= worker.limit

\* How far a finite stream may be: a block is read only below the limit.
WithinLimit ==
    /\ hackrf => main \notin {"read", "write"} /\ ~worker.timed
    /\ worker.limit > 0 =>
          /\ written < worker.limit + (IF worker.kind = "libiio" THEN Block ELSE 1)
          /\ main = "write" => written < worker.limit

IInv ==
    /\ TypeOK /\ CommandsInOrder /\ SamplesFollowDevice /\ Applied /\ NewestRecorded
    /\ RestAtTune /\ FiniteRuns /\ WithinLimit
-----------------------------------------------------------------------------
(* Types                                                                   *)

LEMMA LastIsLast == ASSUME NEW S, NEW s \in Seq(S) PROVE Last(s) = s[Len(s)]
BY DEF Last

LEMMA HeadAndTail ==
    ASSUME NEW S, NEW s \in Seq(S), s # <<>>
    PROVE  /\ Head(s) \in S /\ Head(s) = s[1] /\ Len(s) \in Nat \ {0}
           /\ Tail(s) \in Seq(S) /\ Len(Tail(s)) = Len(s) - 1
           /\ \A i \in 1 .. Len(s) - 1 : Tail(s)[i] = s[i + 1]
OBVIOUS

LEMMA ReadCountTyped ==
    ASSUME TypeOK
    PROVE  /\ Wanted \in Int /\ Block \in Nat \ {0} /\ worker.limit \in Nat /\ written \in Nat
           /\ Wanted > 0 => ReadCount \in Nat
           /\ worker.limit > 0 => Wanted = worker.limit - written
           /\ worker.kind # "libiio" /\ worker.limit > 0 => ReadCount <= Wanted
           /\ ReadCount <= Block
<1>1. worker.limit \in Nat /\ written \in Nat /\ Block \in Nat \ {0} /\ MaxSamples \in Nat
  BY RetuneAssumption DEF TypeOK
<1> QED  BY <1>1 DEF Wanted, ReadCount

LEMMA InitIInv == Init => IInv
<1> SUFFICES ASSUME Init PROVE IInv
  OBVIOUS
<1>1. PICK r \in Rates : device = [n |-> 0, rate |-> r]  BY DEF Init
<1>2. /\ device \in Settings /\ config = device /\ next = device /\ device.n = 0
      /\ sent = 0 /\ stdin = <<>> /\ queue = <<>> /\ main = "loop" /\ block = <<>> /\ out = <<>>
      /\ got = 0 /\ written = 0 /\ stderr = 0 /\ streaming = TRUE /\ stop_requested = FALSE
      /\ gateway = "reading" /\ raced = FALSE /\ client = [c \in Clients |-> None]
      /\ worker \in [kind : Kinds, limit : Limits, timed : BOOLEAN] /\ (hackrf => ~worker.timed)
      /\ extras \in {-1, 0} /\ partial = (extras = -1)
  BY <1>1, RetuneAssumption DEF Init, Settings
<1>3. TypeOK
  <2>1. /\ sent \in 0 .. MaxRetunes /\ got \in 0 .. MaxRetunes /\ stderr \in 0 .. LogRoom
        /\ written \in Nat /\ extras \in -1 .. MaxRetunes /\ partial \in BOOLEAN
    BY <1>2, RetuneAssumption
  <2>2. /\ stdin \in Seq(Settings) /\ queue \in Seq(Settings) /\ Len(queue) <= 1
        /\ out \in Seq(0 .. MaxRetunes) /\ Len(out) <= Capacity
    BY <1>2, RetuneAssumption
  <2>3. client \in [Clients -> Settings \cup {None}]  BY <1>2
  <2> QED  BY <1>2, <2>1, <2>2, <2>3 DEF TypeOK
<1>4. CommandsInOrder /\ SamplesFollowDevice
  <2>1. Len(stdin) = 0 /\ Len(out) = 0  BY <1>2
  <2>2. CommandsInOrder
    <3>1. 1 .. Len(stdin) = {} /\ sent - Len(stdin) = 0 /\ Len(stdin) <= sent
      <4>1. Len(stdin) = 0 /\ sent = 0  BY <1>2, <2>1
      <4> QED  BY <4>1
    <3>2. next.n = 0 /\ device.n <= next.n  BY <1>2
    <3> QED  BY <1>2, <3>1, <3>2 DEF CommandsInOrder
  <2>3. SamplesFollowDevice
    <3>1. 1 .. Len(out) = {}  BY <2>1
    <3> QED  BY <1>2, <3>1 DEF SamplesFollowDevice
  <2> QED  BY <2>2, <2>3
<1>5. Applied /\ NewestRecorded /\ RestAtTune
  BY <1>2 DEF Applied, NewestRecorded, RestAtTune, Newest
<1>6. FiniteRuns /\ WithinLimit
  <2>1. worker.limit \in Nat /\ Block \in Nat \ {0}  BY <1>2, RetuneAssumption
  <2>2. FiniteRuns  BY <1>2 DEF FiniteRuns
  <2> QED  BY <1>2, <2>1, <2>2 DEF WithinLimit
<1> QED  BY <1>3, <1>4, <1>5, <1>6 DEF IInv

LEMMA TypeStep == IInv /\ [Next]_vars => TypeOK'
<1> SUFFICES ASSUME IInv, [Next]_vars PROVE TypeOK'
  OBVIOUS
<1> USE DEF TypeOK
<1>0. /\ TypeOK /\ worker.limit \in Nat /\ written \in Nat
      /\ CommandsInOrder /\ WithinLimit
  BY ReadCountTyped DEF IInv
<1>1. ASSUME NEW c \in Clients, NEW r \in Rates, Retune(c, r) PROVE TypeOK'
  <2> DEFINE setting == [n |-> sent + 1, rate |-> r]
  <2>1. sent + 1 \in 0 .. MaxRetunes /\ setting \in Settings
    BY <1>0, <1>1, RetuneAssumption DEF Retune, Settings
  <2>2. client' \in [Clients -> Settings \cup {None}] /\ stdin' \in Seq(Settings) /\ raced' \in BOOLEAN
    BY <1>0, <1>1, <2>1 DEF Retune
  <2> QED  BY <1>0, <1>1, <2>1, <2>2 DEF Retune, loop, pipes, hackrf, radio
<1>2. ASSUME NEW c \in Clients, Record(c) PROVE TypeOK'
  BY <1>0, <1>2 DEF Record, loop, pipes, hackrf, radio
<1>3. CASE ReadOut
  <2>1. /\ Head(out) \in 0 .. MaxRetunes /\ Tail(out) \in Seq(0 .. MaxRetunes)
        /\ Len(Tail(out)) = Len(out) - 1
    BY <1>0, <1>3, HeadAndTail DEF ReadOut
  <2>2. Len(Tail(out)) <= Capacity  BY <1>0, <2>1, RetuneAssumption
  <2> QED  BY <1>0, <1>3, <2>1, <2>2 DEF ReadOut, loop, channel, hackrf, radio
<1>4. CASE Stop
  <2>1. CASE StopReading  BY <1>0, <2>1 DEF StopReading, loop, channel, pipes, hackrf, radio
  <2>2. CASE Terminate
    <3>1. stop_requested' \in BOOLEAN /\ main' \in {main, "ended"}
      BY <1>0, <2>2 DEF Terminate, hackrf
    <3> QED  BY <1>0, <2>2, <3>1 DEF Terminate, channel, pipes, hackrf, radio
  <2>3. CASE WaitOrKill  BY <1>0, <2>3 DEF WaitOrKill, channel, pipes, hackrf, radio
  <2> QED  BY <1>4, <2>1, <2>2, <2>3 DEF Stop
<1>5. CASE ControlThread
  <2>1. Head(stdin) \in Settings /\ Tail(stdin) \in Seq(Settings)  BY <1>0, <1>5 DEF ControlThread
  <2>2. queue' \in Seq(Settings) /\ (hackrf => Len(queue') <= 1)
    BY <1>0, <1>5, <2>1 DEF ControlThread, Queued
  <2> QED  BY <1>0, <1>5, <2>1, <2>2 DEF ControlThread, loop, channel, pipes, hackrf, radio
<1>6. CASE TakeCommand
  <2>1. Last(queue) \in Settings /\ queue' = <<>> /\ next' = Last(queue)
    BY <1>0, <1>6, LastIsLast DEF TakeCommand, Taken
  <2> QED  BY <1>0, <1>6, <2>1 DEF TakeCommand, channel, pipes, hackrf, radio
<1>7. CASE Quiesce \/ TuneFails
  <2>1. [device EXCEPT !.rate = next.rate] \in Settings  BY <1>0 DEF Settings
  <2> QED  BY <1>0, <1>7, <2>1 DEF Quiesce, TuneFails, radio, channel, pipes, hackrf
<1>14. CASE Tune
  <2>1. next.n \in -1 .. MaxRetunes  BY <1>0, RetuneAssumption DEF Settings
  <2>2. extras' \in -1 .. MaxRetunes /\ partial' \in BOOLEAN  BY <1>0, <1>14, <2>1 DEF Tune
  <2>3. main' \in {"read", "warn", "log"} /\ device' \in Settings /\ streaming' \in BOOLEAN
    BY <1>0, <1>14 DEF Tune
  <2> QED  BY <1>0, <1>14, <2>2, <2>3 DEF Tune, channel, pipes, hackrf
<1>15. CASE Complain
  <2>1. stderr' \in 0 .. LogRoom  BY <1>0, <1>15, RetuneAssumption DEF Complain
  <2>2. main' \in {"log", "closing"}  BY <1>15 DEF Complain
  <2> QED  BY <1>0, <1>15, <2>1, <2>2 DEF Complain, channel, radio, hackrf
<1>8. CASE Log
  <2>1. stderr' \in 0 .. LogRoom
    <3>1. stderr' = stderr + 1 /\ stderr < LogRoom /\ stderr \in 0 .. LogRoom
      BY <1>0, <1>8 DEF Log
    <3> QED  BY <3>1, RetuneAssumption
  <2>2. main' \in {"loop", "quiesce", "tune", "refused"}  BY <1>8 DEF Log
  <2>3. streaming' \in BOOLEAN  BY <1>0, <1>8 DEF Log
  <2> QED  BY <1>0, <1>8, <2>1, <2>2, <2>3 DEF Log, channel, hackrf, radio
<1>9. CASE LeaveLoop \/ Close \/ ToRead \/ LimitReached
  BY <1>0, <1>9 DEF LeaveLoop, Close, ToRead, LimitReached, channel, pipes, hackrf, radio
<1>10. CASE ReadRadio
  <2>1. device.n \in 0 .. MaxRetunes  BY <1>0 DEF Settings
  <2> QED  BY <1>0, <1>10, <2>1 DEF ReadRadio, channel, pipes, hackrf, radio
<1>11. CASE RxCallback
  <2>1. device.n \in 0 .. MaxRetunes  BY <1>0 DEF Settings
  <2>2. written' \in Nat  BY SMTT(20), <1>0, <1>11, ReadCountTyped DEF RxCallback
  <2> QED  BY <1>0, <1>11, <2>1, <2>2 DEF RxCallback, channel, loop, pipes, hackrf, radio
<1>12. CASE CallbackWrites \/ WriteOut
  <2>1. out' \in Seq(0 .. MaxRetunes) /\ Len(out') <= Capacity
    <3>1. block \in Seq(0 .. MaxRetunes) /\ Len(block) <= 1
      <4>1. CASE block = <<>>  BY <4>1
      <4>2. CASE \E n \in 0 .. MaxRetunes : block = <<n>>  BY <4>2
      <4> QED  BY <1>0, <4>1, <4>2
    <3>2. out' = out \o block /\ Len(out) < Capacity  BY <1>12 DEF CallbackWrites, WriteOut
    <3> QED  BY <1>0, <3>1, <3>2, RetuneAssumption, ConcatProperties
  <2>2. written' \in Nat
    <3>1. CASE CallbackWrites  BY <1>0, <3>1 DEF CallbackWrites
    <3>2. CASE WriteOut
      <4>1. worker.limit > 0 => Wanted > 0
        BY <1>0, <3>2, ReadCountTyped DEF WriteOut, WithinLimit
      <4>2. ReadCount \in Nat
        BY <1>0, <4>1, ReadCountTyped DEF ReadCount
      <4> QED  BY <1>0, <3>2, <4>2 DEF WriteOut
    <3> QED  BY <1>12, <3>1, <3>2
  <2>3. CASE CallbackWrites
    <3>1. stop_requested' \in BOOLEAN /\ block' = <<>>  BY <1>0, <2>3 DEF CallbackWrites
    <3> QED  BY <1>0, <2>3, <2>1, <2>2, <3>1 DEF CallbackWrites, channel, loop, hackrf, radio
  <2>4. CASE WriteOut
    BY <1>0, <2>4, <2>1, <2>2 DEF WriteOut, channel, hackrf, radio
  <2> QED  BY <1>12, <2>3, <2>4
<1>13. CASE UNCHANGED vars
  BY <1>0, <1>13 DEF vars, channel, loop, pipes, hackrf, radio
<1> QED
  BY <1>1, <1>2, <1>3, <1>4, <1>5, <1>6, <1>7, <1>8, <1>9, <1>10, <1>11, <1>12, <1>13,
     <1>14, <1>15
  DEF Next, Request, MainLoop

-----------------------------------------------------------------------------
(* The invariant is kept                                                   *)

\* Only a retune, the control thread and the main loop touch the commands.
LEMMA CommandsStep == IInv /\ TypeOK' /\ [Next]_vars => CommandsInOrder' /\ NewestRecorded'
<1> SUFFICES ASSUME IInv, TypeOK', [Next]_vars PROVE CommandsInOrder' /\ NewestRecorded'
  OBVIOUS
<1>0. /\ CommandsInOrder /\ NewestRecorded
      /\ stdin \in Seq(Settings) /\ queue \in Seq(Settings) /\ sent \in 0 .. MaxRetunes
      /\ next \in Settings /\ device \in Settings /\ config \in Settings
      /\ next.n \in Int /\ device.n \in Int /\ sent \in Nat
      /\ client \in [Clients -> Settings \cup {None}] /\ None \notin Settings
      /\ raced \in BOOLEAN
  BY RetuneAssumption DEF IInv, TypeOK, Settings
<1>1. ASSUME NEW c \in Clients, NEW r \in Rates, Retune(c, r)
      PROVE  CommandsInOrder' /\ NewestRecorded'
  <2> DEFINE setting == [n |-> sent + 1, rate |-> r]
  <2>1. /\ sent' = sent + 1 /\ stdin' = Append(stdin, setting) /\ client[c] = None
        /\ client' = [client EXCEPT ![c] = setting]
        /\ raced' = (raced \/ \E d \in Clients : client[d] # None)
        /\ UNCHANGED <<config, queue, next, device>>
        /\ setting \in Settings
    BY <1>0, <1>1, RetuneAssumption DEF Retune, loop, Settings, radio
  <2> HIDE DEF setting
  <2>2. /\ stdin' # <<>> /\ Len(stdin') = Len(stdin) + 1 /\ stdin'[Len(stdin) + 1] = setting
        /\ \A i \in 1 .. Len(stdin) : stdin'[i] = stdin[i]
        /\ Len(stdin) \in Nat
    BY <1>0, <2>1
  <2>3. setting.n = sent + 1  BY DEF setting
  <2>4. sent' - Len(stdin') = sent - Len(stdin)  BY <1>0, <2>1, <2>2
  <2>5. CommandsInOrder'
    <3>1. ASSUME NEW i \in 1 .. Len(stdin') PROVE stdin'[i].n = sent' - Len(stdin') + i
      <4>1. CASE i = Len(stdin) + 1  BY <1>0, <2>1, <2>2, <2>3, <4>1
      <4>2. CASE i # Len(stdin) + 1
        <5>1. i \in 1 .. Len(stdin)  BY <2>2, <4>2
        <5> QED  BY <1>0, <2>2, <2>4, <5>1 DEF CommandsInOrder
      <4> QED  BY <4>1, <4>2
    <3>2. Len(stdin') <= sent'  BY <1>0, <2>1, <2>2 DEF CommandsInOrder
    <3> QED  BY <1>0, <2>1, <2>4, <3>1, <3>2 DEF CommandsInOrder
  <2>6. NewestRecorded'
    <3>1. Newest' = setting  BY <2>2 DEF Newest
    <3>2. ~raced' => \A d \in Clients : client[d] = None  BY <2>1
    <3>3. client'[c] = setting /\ \A d \in Clients \ {c} : client'[d] = client[d]  BY <1>0, <2>1
    <3> QED  BY <3>1, <3>2, <3>3 DEF NewestRecorded
  <2> QED  BY <2>5, <2>6
<1>2. ASSUME NEW c \in Clients, Record(c) PROVE CommandsInOrder' /\ NewestRecorded'
  <2>1. /\ client[c] # None /\ config' = client[c] /\ client' = [client EXCEPT ![c] = None]
        /\ UNCHANGED <<sent, raced, stdin, queue, next, device>>
    BY <1>2 DEF Record, loop, radio
  <2>2. Newest' = Newest  BY <2>1 DEF Newest
  <2>3. NewestRecorded'
    <3>1. ASSUME ~raced PROVE client[c] = Newest /\ \A d \in Clients \ {c} : client[d] = None
      BY <1>0, <2>1, <3>1 DEF NewestRecorded
    <3> QED  BY <1>0, <2>1, <2>2, <3>1 DEF NewestRecorded
  <2> QED  BY <1>0, <2>1, <2>3 DEF CommandsInOrder
<1>3. CASE ControlThread
  <2>1. /\ stdin # <<>> /\ stdin' = Tail(stdin) /\ queue' = Queued(Head(stdin))
        /\ UNCHANGED <<sent, raced, config, client, next, device>>
    BY <1>3 DEF ControlThread, channel, loop, radio
  <2>2. /\ Head(stdin) \in Settings /\ Head(stdin) = stdin[1] /\ Len(stdin) \in Nat \ {0}
        /\ stdin' \in Seq(Settings) /\ Len(stdin') = Len(stdin) - 1
        /\ \A i \in 1 .. Len(stdin) - 1 : stdin'[i] = stdin[i + 1]
    BY <1>0, <2>1, HeadAndTail
  <2>3. queue' # <<>> /\ queue'[Len(queue')] = stdin[1]
    BY <1>0, <2>1, <2>2 DEF Queued
  <2>4. stdin[1].n = sent - Len(stdin) + 1  BY <1>0, <2>2 DEF CommandsInOrder
  <2>5. sent' - Len(stdin') = sent - Len(stdin) + 1  BY <1>0, <2>1, <2>2
  <2>6. CommandsInOrder'
    <3>1. ASSUME NEW i \in 1 .. Len(stdin') PROVE stdin'[i].n = sent' - Len(stdin') + i
      <4>1. i \in 1 .. Len(stdin) - 1 /\ i + 1 \in 1 .. Len(stdin)  BY <2>2
      <4>2. stdin[i + 1].n = sent - Len(stdin) + (i + 1)  BY <1>0, <4>1 DEF CommandsInOrder
      <4> QED  BY <1>0, <2>2, <2>5, <4>1, <4>2
    <3>2. Len(stdin') <= sent'  BY <1>0, <2>1, <2>2 DEF CommandsInOrder
    <3>3. device'.n <= next'.n /\ next'.n <= sent' - Len(stdin')
      BY <1>0, <2>1, <2>2, <2>5 DEF CommandsInOrder
    <3> QED  BY <2>3, <2>4, <2>5, <3>1, <3>2, <3>3 DEF CommandsInOrder
  <2>7. Newest' = Newest
    <3>1. CASE Len(stdin) = 1
      <4>1. stdin' = <<>>  BY <2>2, <3>1
      <4> QED  BY <2>1, <2>3, <3>1, <4>1 DEF Newest
    <3>2. CASE Len(stdin) # 1
      <4>1. Len(stdin) - 1 \in 1 .. Len(stdin) - 1 /\ Len(stdin') # 0  BY <2>2, <3>2
      <4>2. stdin'[Len(stdin')] = stdin[Len(stdin)] /\ stdin' # <<>>  BY <2>2, <4>1
      <4> QED  BY <2>1, <4>2 DEF Newest
    <3> QED  BY <3>1, <3>2
  <2> QED  BY <1>0, <2>1, <2>6, <2>7 DEF NewestRecorded
<1>4. CASE TakeCommand
  <2>1. /\ queue # <<>> /\ next' = queue[Len(queue)] /\ queue' = <<>>
        /\ UNCHANGED <<sent, raced, config, client, stdin, device>>
    BY <1>0, <1>4, LastIsLast DEF TakeCommand, Taken, channel, radio
  <2>2. Newest' = Newest  BY <2>1 DEF Newest
  <2>3. next'.n = sent - Len(stdin) /\ Len(stdin) \in Nat  BY <1>0, <2>1 DEF CommandsInOrder
  <2>4. device.n <= next'.n  BY <1>0, <2>3 DEF CommandsInOrder
  <2> QED  BY <1>0, <2>1, <2>2, <2>3, <2>4 DEF CommandsInOrder, NewestRecorded
<1>5. CASE Tune
  <2>1. device' = next /\ UNCHANGED <<sent, raced, config, client, stdin, queue, next>>
    BY <1>5 DEF Tune, channel
  <2>2. Newest' = Newest  BY <2>1 DEF Newest
  <2> QED  BY <1>0, <2>1, <2>2 DEF CommandsInOrder, NewestRecorded
<1>7. CASE TuneFails
  <2>1. device'.n = device.n /\ UNCHANGED <<sent, raced, config, client, stdin, queue, next>>
    BY <1>0, <1>7 DEF TuneFails, channel, Settings
  <2>2. Newest' = Newest  BY <2>1 DEF Newest
  <2> QED  BY <1>0, <2>1, <2>2 DEF CommandsInOrder, NewestRecorded
<1>6. CASE \/ ReadOut \/ Stop \/ Quiesce \/ Complain \/ Log \/ LeaveLoop \/ Close \/ ToRead
           \/ LimitReached \/ ReadRadio \/ WriteOut \/ RxCallback \/ CallbackWrites
           \/ UNCHANGED vars
  <2>1. UNCHANGED <<sent, raced, config, client, stdin, queue, next, device>>
    BY <1>6
    DEF ReadOut, Stop, StopReading, Terminate, WaitOrKill, Quiesce, Complain, Log, LeaveLoop,
        Close, ToRead, LimitReached, ReadRadio, WriteOut, RxCallback, CallbackWrites, vars,
        channel, loop, radio
  <2>2. Newest' = Newest  BY <2>1 DEF Newest
  <2> QED  BY <1>0, <2>1, <2>2 DEF CommandsInOrder, NewestRecorded
<1> QED
  BY <1>1, <1>2, <1>3, <1>4, <1>5, <1>6, <1>7 DEF Next, Request, MainLoop

\* Samples move on towards the gateway, and only the newest setting enters.
LEMMA SamplesStep == IInv /\ TypeOK' /\ [Next]_vars => SamplesFollowDevice'
<1> SUFFICES ASSUME IInv, TypeOK', [Next]_vars PROVE SamplesFollowDevice'
  OBVIOUS
<1>0. /\ SamplesFollowDevice
      /\ device.n \in Int /\ next.n \in Int /\ device.n <= next.n
      /\ got \in Int /\ out \in Seq(0 .. MaxRetunes)
      /\ \A i \in 1 .. Len(out) : out[i] \in Int
      /\ block # <<>> => block[1] \in Int /\ block = <<block[1]>> /\ block[1] \in 0 .. MaxRetunes
  <2>1. device \in Settings /\ next \in Settings /\ got \in Int /\ out \in Seq(0 .. MaxRetunes)
    BY DEF IInv, TypeOK
  <2>2. block # <<>> => block[1] \in Int /\ block = <<block[1]>> /\ block[1] \in 0 .. MaxRetunes
    BY SMTT(20) DEF IInv, TypeOK
  <2>3. SamplesFollowDevice /\ device.n <= next.n  BY DEF IInv, CommandsInOrder
  <2>4. ASSUME NEW i \in 1 .. Len(out) PROVE out[i] \in Int
    <3>1. out[i] \in 0 .. MaxRetunes  BY <2>1, ElementOfSeq
    <3> QED  BY <3>1
  <2> QED  BY <2>1, <2>2, <2>3, <2>4 DEF Settings
<1>1. CASE ReadOut
  <2>1. /\ out # <<>> /\ got' = Head(out) /\ out' = Tail(out) /\ UNCHANGED <<block, device>>
    BY <1>1 DEF ReadOut, loop, radio
  <2>2. /\ got' = out[1] /\ Len(out) \in Nat \ {0} /\ Len(out') = Len(out) - 1
        /\ \A i \in 1 .. Len(out) - 1 : out'[i] = out[i + 1]
    BY <1>0, <2>1, HeadAndTail
  <2>3. /\ 1 \in 1 .. Len(out)
        /\ \A i \in 1 .. Len(out') : i \in 1 .. Len(out) - 1 /\ i + 1 \in 1 .. Len(out) /\ 1 < i + 1
    BY <2>2
  <2>4. \A i, j \in 1 .. Len(out') : i < j => i + 1 < j + 1  BY <2>2
  <2>5. got' <= device'.n /\ (block' # <<>> => got' <= block'[1] /\ block'[1] <= device'.n)
    BY <1>0, <2>1, <2>2, <2>3 DEF SamplesFollowDevice
  <2>6. ASSUME NEW i \in 1 .. Len(out')
        PROVE  /\ got' <= out'[i] /\ out'[i] <= device'.n
               /\ block' # <<>> => out'[i] <= block'[1]
               /\ \A j \in 1 .. Len(out') : i < j => out'[i] <= out'[j]
    BY <1>0, <2>1, <2>2, <2>3, <2>4 DEF SamplesFollowDevice
  <2> QED  BY <2>5, <2>6 DEF SamplesFollowDevice
<1>2. CASE Tune
  <2>1. device' = next /\ UNCHANGED <<out, got, block>>  BY <1>2 DEF Tune, pipes
  <2> QED  BY <1>0, <2>1 DEF SamplesFollowDevice
<1>3. CASE RxCallback \/ ReadRadio
  <2>1. UNCHANGED <<out, got, device>>  BY <1>3 DEF RxCallback, ReadRadio, pipes, loop, radio
  <2>2. block' = <<device.n>> \/ block' = <<>>  BY <1>3 DEF RxCallback, ReadRadio
  <2> QED  BY <1>0, <2>1, <2>2 DEF SamplesFollowDevice
<1>4. CASE CallbackWrites \/ WriteOut
  <2>1. out' = out \o block /\ block' = <<>> /\ UNCHANGED <<got, device>>
    BY <1>4 DEF CallbackWrites, WriteOut, loop, radio
  <2>2. CASE block = <<>>
    <3>1. out' = out  BY <1>0, <2>1, <2>2
    <3> QED  BY <1>0, <2>1, <3>1 DEF SamplesFollowDevice
  <2>3. CASE block # <<>>
    <3>1. PICK b \in 0 .. MaxRetunes : block = <<b>> /\ b = block[1]  BY <1>0, <2>3
    <3>2. /\ Len(out) \in Nat /\ Len(out') = Len(out) + 1 /\ out'[Len(out) + 1] = b
          /\ \A i \in 1 .. Len(out) : out'[i] = out[i]
      BY <1>0, <2>1, <3>1
    <3>3. \A i \in 1 .. Len(out') : i \in 1 .. Len(out) \/ i = Len(out) + 1  BY <3>2
    <3>4. /\ b \in Int /\ got <= b /\ b <= device.n
          /\ \A i \in 1 .. Len(out) : out[i] <= b
      BY <1>0, <2>3, <3>1 DEF SamplesFollowDevice
    <3> QED  BY <1>0, <2>1, <3>2, <3>3, <3>4 DEF SamplesFollowDevice
  <2> QED  BY <2>2, <2>3
<1>6. CASE TuneFails
  <2>1. device'.n = device.n /\ UNCHANGED <<out, got, block>>
    <3>1. device \in Settings  BY DEF IInv, TypeOK
    <3> QED  BY <1>6, <3>1 DEF TuneFails, pipes, Settings
  <2> QED  BY <1>0, <2>1 DEF SamplesFollowDevice
<1>5. CASE \/ Stop \/ ControlThread \/ TakeCommand \/ Quiesce \/ Complain \/ Log \/ LeaveLoop
           \/ Close \/ ToRead \/ LimitReached \/ UNCHANGED vars
           \/ \E c \in Clients : Request(c)
  <2>1. UNCHANGED <<out, got, block, device>>
    BY <1>5
    DEF Stop, StopReading, Terminate, WaitOrKill, ControlThread, TakeCommand, Quiesce, Complain,
        Log, LeaveLoop, Close, ToRead, LimitReached, Request, Retune, Record, vars, pipes, loop,
        radio
  <2> QED  BY <1>0, <2>1 DEF SamplesFollowDevice
<1> QED
  BY <1>1, <1>2, <1>3, <1>4, <1>5, <1>6 DEF Next, MainLoop

LEMMA LoopStep == IInv /\ TypeOK' /\ [Next]_vars => Applied' /\ RestAtTune'
<1> SUFFICES ASSUME IInv, TypeOK', [Next]_vars PROVE Applied' /\ RestAtTune'
  OBVIOUS
<1>0. Applied /\ RestAtTune /\ (hackrf => main \notin {"read", "write"})
      /\ stop_requested \in BOOLEAN /\ streaming \in BOOLEAN
  BY DEF IInv, WithinLimit, TypeOK
<1> USE DEF Applied, Settled, RestAtTune, hackrf, radio
<1>1. CASE TakeCommand  BY <1>0, <1>1 DEF TakeCommand, Restarts, hackrf, pipes, channel
<1>2. CASE Quiesce  BY <1>0, <1>2 DEF Quiesce
<1>3. CASE Tune  BY <1>0, <1>3 DEF Tune
<1>4. CASE Log  BY <1>0, <1>4 DEF Log, Restarts
<1>9. CASE Complain  BY <1>0, <1>9 DEF Complain, radio
<1>5. CASE TuneFails \/ LeaveLoop \/ Close \/ ToRead \/ LimitReached \/ ReadRadio \/ WriteOut
  BY <1>0, <1>5 DEF TuneFails, LeaveLoop, Close, ToRead, LimitReached, ReadRadio, WriteOut
<1>6. CASE Stop
  BY <1>0, <1>6 DEF Stop, StopReading, Terminate, WaitOrKill, loop
<1>7. CASE CallbackWrites
  BY <1>0, <1>7 DEF CallbackWrites, loop
<1>8. CASE ReadOut \/ ControlThread \/ RxCallback \/ UNCHANGED vars \/ \E c \in Clients : Request(c)
  <2>1. UNCHANGED <<worker, main, next, device, extras, partial, streaming, stop_requested>>
    BY <1>8 DEF ReadOut, ControlThread, RxCallback, Request, Retune, Record, vars, loop, radio
  <2> QED  BY <1>0, <2>1
<1> QED
  BY <1>1, <1>2, <1>3, <1>4, <1>5, <1>6, <1>7, <1>8, <1>9 DEF Next, MainLoop

LEMMA FiniteStep == IInv /\ TypeOK' /\ [Next]_vars => FiniteRuns' /\ WithinLimit'
<1> SUFFICES ASSUME IInv, TypeOK', [Next]_vars PROVE FiniteRuns' /\ WithinLimit'
  OBVIOUS
<1>0. /\ FiniteRuns /\ WithinLimit
      /\ stop_requested \in BOOLEAN /\ streaming \in BOOLEAN /\ worker.timed \in BOOLEAN
      /\ worker.limit \in Nat /\ written \in Nat /\ Block \in Nat \ {0}
      /\ worker' = worker
  <2>1. worker' = worker
    BY DEF Next, Request, Retune, Record, ReadOut, Stop, StopReading, Terminate, WaitOrKill,
           ControlThread, MainLoop, TakeCommand, Quiesce, Tune, TuneFails, Complain, Log, LeaveLoop,
           Close, ToRead, LimitReached, ReadRadio, WriteOut, RxCallback, CallbackWrites, vars
  <2>2. TypeOK  BY DEF IInv
  <2> QED  BY <2>1, <2>2, ReadCountTyped DEF IInv, TypeOK
<1>1. ASSUME UNCHANGED <<sent, stdin, queue, main, streaming, gateway, stop_requested, written>>
      PROVE  FiniteRuns' /\ WithinLimit'
  BY <1>0, <1>1 DEF FiniteRuns, WithinLimit, IsContinuous, hackrf
<1>2. CASE ReadOut \/ UNCHANGED vars \/ \E c \in Clients : Record(c)
  BY <1>1, <1>2 DEF ReadOut, Record, vars, loop, channel
<1>3. ASSUME NEW c \in Clients, NEW r \in Rates, Retune(c, r) PROVE FiniteRuns' /\ WithinLimit'
  BY <1>0, <1>3 DEF Retune, loop, FiniteRuns, WithinLimit, IsContinuous, hackrf
<1>4. CASE ControlThread
  BY <1>0, <1>4 DEF ControlThread, channel, loop, FiniteRuns, WithinLimit, IsContinuous, hackrf
<1>5. CASE Stop
  <2>1. /\ gateway' # "reading" /\ main' \in {main, "ended"}
        /\ UNCHANGED <<sent, stdin, queue, streaming, written>>
    BY <1>5 DEF Stop, StopReading, Terminate, WaitOrKill, channel, loop
  <2> QED  BY <1>0, <2>1 DEF FiniteRuns, WithinLimit, IsContinuous, hackrf
<1>6. CASE TakeCommand \/ Quiesce \/ Tune \/ TuneFails \/ Complain \/ Log
  <2>1. IsContinuous
    BY <1>0, <1>6 DEF TakeCommand, Quiesce, Tune, TuneFails, Complain, Log, FiniteRuns
  <2>2. written' = written /\ main' # "write" /\ (hackrf => main' # "read")
    BY <1>6 DEF TakeCommand, Quiesce, Tune, TuneFails, Complain, Log
  <2> QED  BY <1>0, <2>1, <2>2 DEF FiniteRuns, WithinLimit, IsContinuous, hackrf
<1>7. CASE LeaveLoop \/ Close \/ ToRead \/ LimitReached
  <2>1. FiniteRuns'
    BY <1>0, <1>7 DEF LeaveLoop, Close, ToRead, LimitReached, channel, FiniteRuns, IsContinuous
  <2>2. WithinLimit'
    BY <1>0, <1>7 DEF LeaveLoop, Close, ToRead, LimitReached, WithinLimit, hackrf
  <2> QED  BY <2>1, <2>2
<1>8. CASE ReadRadio
  <2>1. FiniteRuns'
    BY <1>0, <1>8 DEF ReadRadio, channel, FiniteRuns, IsContinuous
  <2>2. WithinLimit'
    BY <1>0, <1>8 DEF ReadRadio, WithinLimit, hackrf, Wanted
  <2> QED  BY <2>1, <2>2
<1>9. ASSUME written' = written + ReadCount, worker.limit > 0 => Wanted > 0
      PROVE  /\ written' >= written
             /\ worker.limit > 0 =>
                   written' < worker.limit + (IF worker.kind = "libiio" THEN Block ELSE 1)
  <2>1. /\ Wanted \in Int /\ ReadCount \in Nat /\ ReadCount <= Block
        /\ worker.limit > 0 => Wanted = worker.limit - written /\ Wanted > 0
        /\ worker.kind # "libiio" /\ worker.limit > 0 => ReadCount <= Wanted
    BY <1>9, ReadCountTyped DEF IInv, ReadCount
  <2> QED  BY <1>0, <1>9, <2>1
<1>10. CASE RxCallback
  <2>1. /\ written' = written + ReadCount /\ Wanted > 0 /\ hackrf
        /\ UNCHANGED <<sent, stdin, queue, main, streaming, gateway, stop_requested>>
    BY <1>10 DEF RxCallback, channel, loop
  <2>2. /\ written' >= written /\ written' \in Nat
        /\ worker.limit > 0 =>
              written' < worker.limit + (IF worker.kind = "libiio" THEN Block ELSE 1)
    BY <1>9, <2>1 DEF TypeOK
  <2> QED  BY <1>0, <2>1, <2>2 DEF FiniteRuns, WithinLimit, IsContinuous, hackrf
<1>11. CASE WriteOut
  <2>1. /\ written' = written + ReadCount /\ main = "write" /\ main' = "loop"
        /\ UNCHANGED <<sent, stdin, queue, streaming, gateway, stop_requested>>
    BY <1>11 DEF WriteOut, channel
  <2>2. worker.limit > 0 => Wanted > 0
    BY <1>0, <2>1, ReadCountTyped DEF WithinLimit, IInv
  <2>3. /\ written' >= written /\ written' \in Nat
        /\ worker.limit > 0 =>
              written' < worker.limit + (IF worker.kind = "libiio" THEN Block ELSE 1)
    BY <1>9, <2>1, <2>2 DEF TypeOK
  <2> QED  BY <1>0, <2>1, <2>3 DEF FiniteRuns, WithinLimit, IsContinuous, hackrf
<1>12. CASE CallbackWrites
  <2>1. /\ stop_requested' = (stop_requested \/ (worker.limit > 0 /\ written >= worker.limit))
        /\ UNCHANGED <<sent, stdin, queue, main, streaming, gateway, written>>
    BY <1>12 DEF CallbackWrites, channel, loop
  <2> QED  BY <1>0, <2>1 DEF FiniteRuns, WithinLimit, IsContinuous, hackrf
<1> QED
  BY <1>2, <1>3, <1>4, <1>5, <1>6, <1>7, <1>8, <1>10, <1>11, <1>12 DEF Next, Request, MainLoop

LEMMA IInvHolds == Spec => []IInv
<1>1. IInv /\ [Next]_vars => IInv'
  BY TypeStep, CommandsStep, SamplesStep, LoopStep, FiniteStep DEF IInv
<1> QED  BY <1>1, InitIInv, PTL DEF Spec

-----------------------------------------------------------------------------
(* Theorems                                                                *)

\* The variables keep their types, and a finite stream is exact: it never
\* writes more than num_samples (less than a buffer more where libiio reads
\* whole buffers), and a worker ends by itself only after as many.
THEOREM SafeHolds == Spec => []Safe
<1>1. IInv => Safe
  BY DEF IInv, Safe, FiniteExact, FiniteRuns, WithinLimit, IsContinuous, Ended
<1> QED  BY <1>1, IInvHolds, PTL

\* When no command is under way the session holds the frequency and the sample rate
\* of the radio, and its filter and gains unless the driver refused them or the
\* filter was 0; but for two retunes recorded in another order than they were written.
THEOREM QuietAgreesHolds == Spec => []QuietAgrees
<1>1. IInv => QuietAgrees
  <2> SUFFICES ASSUME IInv, \A c \in Clients : client[c] = None, stdin = <<>>, queue = <<>>,
                      main \in {"loop", "read", "write"}, ~raced
               PROVE  config = device /\ (extras = config.n \/ partial)
    BY DEF QuietAgrees
  <2>1. Newest = next /\ device = next /\ (extras = next.n \/ partial)
    BY DEF IInv, Applied, Settled, Newest
  <2>2. next # None  BY RetuneAssumption DEF IInv, TypeOK, Settings
  <2>3. config = next  BY <2>1, <2>2 DEF IInv, NewestRecorded
  <2> QED  BY <2>1, <2>3
<1> QED  BY <1>1, IInvHolds, PTL

\* What the gateway reads never goes back to an older retune.
THEOREM SamplesInOrderHolds == Spec => SamplesInOrder
<1>1. IInv /\ [Next]_vars => [got' >= got]_got
  <2> SUFFICES ASSUME IInv, [Next]_vars, got' # got PROVE got' >= got
    OBVIOUS
  <2>1. ReadOut
    BY DEF Next, Request, Retune, Record, ReadOut, Stop, StopReading, Terminate, WaitOrKill,
           ControlThread, MainLoop, TakeCommand, Quiesce, Tune, TuneFails, Complain, Log, LeaveLoop,
           Close, ToRead, LimitReached, ReadRadio, WriteOut, RxCallback, CallbackWrites, vars, pipes
  <2>2. out \in Seq(0 .. MaxRetunes) /\ out # <<>> /\ got' = Head(out) /\ got \in Int
    BY <2>1 DEF ReadOut, IInv, TypeOK
  <2>3. got' = out[1] /\ 1 \in 1 .. Len(out)  BY <2>2, HeadAndTail
  <2> QED  BY <2>2, <2>3 DEF IInv, SamplesFollowDevice
<1> QED  BY <1>1, IInvHolds, PTL DEF Spec, SamplesInOrder

\* The sample rate of the radio is changed while its stream rests, or when a
\* stop request has cut the wait short.
THEOREM RateChangesAtRestHolds == Spec => RateChangesAtRest
<1>1. IInv /\ [Next]_vars => [device'.rate # device.rate => ~streaming \/ stop_requested]_vars
  <2> SUFFICES ASSUME IInv, [Next]_vars, device'.rate # device.rate
               PROVE  ~streaming \/ stop_requested
    OBVIOUS
  <2>1. Tune \/ TuneFails
    BY DEF Next, Request, Retune, Record, ReadOut, Stop, StopReading, Terminate, WaitOrKill,
           ControlThread, MainLoop, TakeCommand, Quiesce, Tune, TuneFails, Complain, Log, LeaveLoop,
           Close, ToRead, LimitReached, ReadRadio, WriteOut, RxCallback, CallbackWrites, vars, loop,
           radio
  <2>2. device \in Settings  BY DEF IInv, TypeOK
  <2>3. main = "tune" /\ next.rate # device.rate
    <3>1. CASE Tune  BY <3>1 DEF Tune
    <3>2. CASE TuneFails
      <4>1. main = "tune" /\ device' = [device EXCEPT !.rate = next.rate]  BY <3>2 DEF TuneFails
      <4>2. [device EXCEPT !.rate = next.rate].rate = next.rate  BY <2>2 DEF Settings
      <4> QED  BY <4>1, <4>2
    <3> QED  BY <2>1, <3>1, <3>2
  <2> QED  BY <2>3 DEF IInv, RestAtTune
<1> QED  BY <1>1, IInvHolds, PTL DEF Spec, RateChangesAtRest
=============================================================================
