--------------------------- MODULE IQSweep_proofs ---------------------------
(***************************************************************************)
(* Proofs about IQ sweeps: about the frames of a native one (NativeSweep), *)
(* for one client, and any payload, pipe, transfer and number of frames,   *)
(* and about the viewers of streams and sweeps (Viewers), for every set of *)
(* handlers, and any number of centres, captures and chunks.               *)
(***************************************************************************)
EXTENDS NativeSweep, Viewers, SequenceTheorems, TLAPS

-----------------------------------------------------------------------------
(* The invariant                                                           *)

\* Units are numbered in the order in which the worker writes them.
Place(u) == (u[1] - 1) * FrameUnits + u[2]
Written == frames_written * FrameUnits + unit - 1
Delivered == Len(chunks) * FrameUnits

\* x holds the units behind the first k ones of the stream, without a gap.
Follows(x, k) == \A i \in 1 .. Len(x) : Place(x[i]) = k + i

\* What an exit of the worker can leave in the buffer: the rest of a frame
\* whose header was taken, in which no header is found any more.
Torn(x) == proc # "live" /\ \A i \in 1 .. Len(x) : x[i][2] # 1

InHand(r) == IF reader[r].pc \in {"idle", "late"} THEN session.native_buffer ELSE reader[r].local
HeaderTaken(r) ==
    /\ Len(reader[r].header) = HeaderUnits
    /\ \A i \in 1 .. HeaderUnits : reader[r].header[i] = <<Len(chunks) + 1, i>>
Taken(r) == Delivered + Len(reader[r].header)

\* A request holds what follows the units delivered, and the session keeps a
\* part of it that begins at the same unit.
HoldsNext(r) ==
    /\ reader[r].pc \in {"idle", "header"} => reader[r].header = <<>>
    /\ reader[r].pc \in {"payload", "late"} => HeaderTaken(r)
    /\ reader[r].pc = "late" => Len(session.native_buffer) < PayloadUnits
    /\ Len(session.native_buffer) <= Len(InHand(r))
    /\ \/ Follows(InHand(r), Taken(r)) /\ Follows(session.native_buffer, Taken(r))
       \/ reader[r].pc \in {"idle", "header"} /\ Torn(InHand(r)) /\ Torn(session.native_buffer)

\* What the worker has written and nobody has read yet is in the pipe.
PipeNext ==
    proc = "live" => \A r \in Readers :
        /\ Follows(pipe, Taken(r) + Len(InHand(r)))
        /\ Written = Taken(r) + Len(InHand(r)) + Len(pipe)

\* More than it asked for, a request has only what was in the pipe.
LocalBounded ==
    /\ Len(session.native_buffer) < FrameUnits \/ Len(session.native_buffer) < Capacity
    /\ \A r \in Readers : reader[r].pc \in {"header", "payload"} =>
          \/ Len(reader[r].local) < FrameUnits
          \/ Len(reader[r].local) < Capacity + Wanted(r)

IInv ==
    /\ TypeOK /\ Len(pipe) <= Capacity
    /\ (\A r \in Readers : HoldsNext(r)) /\ PipeNext /\ LocalBounded
    /\ FramesIntact

-----------------------------------------------------------------------------
(* Arithmetic and sequences                                                *)

LEMMA Sizes == FrameUnits = PayloadUnits + 2 /\ FrameUnits \in Nat /\ PayloadUnits \in Nat /\ PayloadUnits >= 1
BY SweepAssumption DEF FrameUnits, HeaderUnits

LEMMA OneFrameFurther ==
    ASSUME NEW a \in Nat, NEW b \in Nat, a < b
    PROVE  b * FrameUnits >= a * FrameUnits + FrameUnits
<1>1. PICK c \in Nat : b = a + 1 + c  BY SMT
<1>2. b * FrameUnits = a * FrameUnits + FrameUnits + c * FrameUnits  BY <1>1, Sizes
<1>3. c * FrameUnits >= 0  BY <1>1, Sizes
<1> QED  BY <1>2, <1>3, Sizes

\* The place of a unit tells its frame and its number in it.
LEMMA UnitAtPlace ==
    ASSUME NEW u \in Unit, NEW d \in Nat, NEW j \in 1 .. FrameUnits,
           Place(u) = d * FrameUnits + j
    PROVE  u = <<d + 1, j>>
<1>1. PICK m \in 1 .. MaxFrames, i \in 1 .. FrameUnits : u = <<m, i>>  BY DEF Unit
<1>2. m - 1 \in Nat /\ m \in Int /\ i \in Int /\ FrameUnits \in Nat
  BY SweepAssumption, Sizes
<1>3. (m - 1) * FrameUnits + i = d * FrameUnits + j  BY <1>1 DEF Place
<1>4. ~(m - 1 < d)
  <2> SUFFICES ASSUME m - 1 < d PROVE FALSE
    OBVIOUS
  <2>1. d * FrameUnits >= (m - 1) * FrameUnits + FrameUnits  BY <1>2, OneFrameFurther
  <2>2. (m - 1) * FrameUnits \in Int /\ d * FrameUnits \in Int  BY <1>2
  <2> QED  BY <1>2, <1>3, <2>1, <2>2
<1>5. ~(d < m - 1)
  <2> SUFFICES ASSUME d < m - 1 PROVE FALSE
    OBVIOUS
  <2>1. (m - 1) * FrameUnits >= d * FrameUnits + FrameUnits  BY <1>2, OneFrameFurther
  <2>2. (m - 1) * FrameUnits \in Int /\ d * FrameUnits \in Int  BY <1>2
  <2> QED  BY <1>2, <1>3, <2>1, <2>2
<1>6. m - 1 = d  BY <1>2, <1>4, <1>5
<1> QED  BY <1>1, <1>2, <1>3, <1>6

LEMMA PlaceTyped == \A u \in Unit : Place(u) \in Int
BY Sizes DEF Unit, Place

\* A sequence cut in two.
LEMMA Cut ==
    ASSUME NEW S, NEW x \in Seq(S), NEW n \in 0 .. Len(x)
    PROVE  /\ SubSeq(x, 1, n) \in Seq(S) /\ Len(SubSeq(x, 1, n)) = n
           /\ \A i \in 1 .. n : SubSeq(x, 1, n)[i] = x[i]
           /\ SubSeq(x, n + 1, Len(x)) \in Seq(S)
           /\ Len(SubSeq(x, n + 1, Len(x))) = Len(x) - n
           /\ \A i \in 1 .. Len(x) - n : SubSeq(x, n + 1, Len(x))[i] = x[n + i]
OBVIOUS

\* Follows of what a sequence is cut into, and of what is put together.
LEMMA FollowsPrefix ==
    ASSUME NEW x \in Seq(Unit), NEW k \in Int, NEW n \in 0 .. Len(x), Follows(x, k)
    PROVE  /\ SubSeq(x, 1, n) \in Seq(Unit) /\ Len(SubSeq(x, 1, n)) = n
           /\ Follows(SubSeq(x, 1, n), k)
BY DEF Follows

LEMMA FollowsRest ==
    ASSUME NEW x \in Seq(Unit), NEW k \in Int, NEW n \in 0 .. Len(x), Follows(x, k)
    PROVE  /\ SubSeq(x, n + 1, Len(x)) \in Seq(Unit)
           /\ Len(SubSeq(x, n + 1, Len(x))) = Len(x) - n
           /\ Follows(SubSeq(x, n + 1, Len(x)), k + n)
BY DEF Follows

LEMMA FollowsConcat ==
    ASSUME NEW x \in Seq(Unit), NEW y \in Seq(Unit), NEW k \in Int,
           Follows(x, k), Follows(y, k + Len(x))
    PROVE  /\ x \o y \in Seq(Unit) /\ Len(x \o y) = Len(x) + Len(y)
           /\ Follows(x \o y, k)
BY ConcatProperties DEF Follows

-----------------------------------------------------------------------------
(* Types                                                                   *)

Session == [status : {"running", "error", "stopped"}, native_buffer : Seq(Unit),
            point_index : 0 .. MaxFrames, centers_hz : Seq(1 .. Centers), listed : BOOLEAN]
Request == [pc : {"idle", "header", "payload", "late"}, local : Seq(Unit), header : Seq(Unit)]

LEMMA InitTypeOK == Init => TypeOK
<1> SUFFICES ASSUME Init PROVE TypeOK
  OBVIOUS
<1>1. session \in Session  BY SweepAssumption DEF Init, Session
<1>2. Idle \in Request  BY DEF Idle, Request
<1>3. /\ blocks \in 0 .. PerTransfer /\ unit \in 1 .. FrameUnits
      /\ frames_written \in 0 .. MaxFrames /\ frames_written + blocks <= MaxFrames
  BY SweepAssumption, Sizes DEF Init
<1>4. reader \in [Readers -> Request]  BY <1>2 DEF Init
<1>5. pipe \in Seq(Unit) /\ chunks \in Seq(0 .. MaxFrames)  BY DEF Init
<1> QED  BY <1>1, <1>3, <1>4, <1>5 DEF Init, TypeOK, Session, Request

\* What is left of what a request holds, and what it takes from it.
LEMMA FoundAndRest ==
    ASSUME TypeOK, NEW r \in Readers, Enough(r)
    PROVE  /\ Found(r) \in Seq(Unit) /\ Len(Found(r)) = Wanted(r)
           /\ \A i \in 1 .. Wanted(r) : Found(r)[i] = reader[r].local[i]
           /\ Rest(r) \in Seq(Unit) /\ Len(Rest(r)) = Len(reader[r].local) - Wanted(r)
           /\ \A i \in 1 .. Len(Rest(r)) : Rest(r)[i] = reader[r].local[Wanted(r) + i]
<1>1. reader[r].local \in Seq(Unit)  BY DEF TypeOK
<1>2. Wanted(r) \in 0 .. Len(reader[r].local)
  BY <1>1, SweepAssumption DEF Wanted, Enough, HeaderUnits
<1> DEFINE x == reader[r].local
           n == Wanted(r)
<1>3. x \in Seq(Unit) /\ n \in 0 .. Len(x)  BY <1>1, <1>2
<1>4. Found(r) = SubSeq(x, 1, n) /\ Rest(r) = SubSeq(x, n + 1, Len(x))  BY DEF Found, Rest
<1> HIDE DEF x, n
<1>5. /\ SubSeq(x, 1, n) \in Seq(Unit) /\ Len(SubSeq(x, 1, n)) = n
      /\ \A i \in 1 .. n : SubSeq(x, 1, n)[i] = x[i]
      /\ SubSeq(x, n + 1, Len(x)) \in Seq(Unit)
      /\ Len(SubSeq(x, n + 1, Len(x))) = Len(x) - n
      /\ \A i \in 1 .. Len(x) - n : SubSeq(x, n + 1, Len(x))[i] = x[n + i]
  BY <1>3, Cut
<1> QED  BY <1>4, <1>5 DEF x, n

LEMMA CenterTyped == \A n \in 1 .. MaxFrames : CenterOf(n) \in 1 .. Centers
BY SweepAssumption DEF CenterOf

LEMMA TypeStep ==
    ASSUME TypeOK, \A r \in Readers : reader[r].pc = "payload" => HeaderTaken(r), [Next]_vars
    PROVE  TypeOK'
<1>0. /\ session \in Session /\ reader \in [Readers -> Request] /\ pipe \in Seq(Unit)
      /\ chunks \in Seq(0 .. MaxFrames)
  BY DEF TypeOK, Session, Request
<1> USE DEF TypeOK
<1>1. CASE RxSweepCallback
  BY <1>1, SweepAssumption DEF RxSweepCallback, clients
<1>2. CASE WriteFrame
  <2>1. <<frames_written + 1, unit>> \in Unit
    BY SMTT(20), <1>2, SweepAssumption DEF WriteFrame, Unit
  <2>2. pipe' \in Seq(Unit)  BY <1>0, <1>2, <2>1 DEF WriteFrame
  <2>3. /\ blocks' \in 0 .. PerTransfer /\ unit' \in 1 .. FrameUnits
        /\ frames_written' \in 0 .. MaxFrames /\ frames_written' + blocks' <= MaxFrames
    <3>1. CASE unit < FrameUnits  BY <1>2, <3>1, SweepAssumption, Sizes DEF WriteFrame
    <3>2. CASE ~(unit < FrameUnits)
      <4>1. unit' = 1 /\ blocks' = blocks - 1 /\ frames_written' = frames_written + 1
            /\ blocks > 0
        BY <1>2, <3>2 DEF WriteFrame
      <4> QED  BY <4>1, SweepAssumption, Sizes
    <3> QED  BY <3>1, <3>2
  <2> QED  BY <1>2, <2>2, <2>3 DEF WriteFrame, clients
<1>3. CASE StopSeen \/ WorkerEnds \/ WorkerFails
  BY <1>3, SweepAssumption DEF StopSeen, WorkerEnds, WorkerFails, clients
<1>4. CASE Stop \/ StopStep
  <2>1. session' \in Session
    BY <1>0, <1>4 DEF Stop, StopStep, Terminate, WaitOrKill, Finally, Session
  <2> QED
    BY <1>4, <2>1 DEF Stop, StopStep, Terminate, WaitOrKill, Finally, Session, worker, clients
<1>5. ASSUME NEW r \in Readers, Read(r) \/ ReadStep(r) PROVE TypeOK'
  <2>0. reader[r] \in Request /\ session.native_buffer \in Seq(Unit)  BY <1>0 DEF Session
  <2>1. ASSUME UNCHANGED <<worker, stopper>>, session' \in Session, pipe' \in Seq(Unit),
               chunks' \in Seq(0 .. MaxFrames),
               NEW x \in Request, reader' = [reader EXCEPT ![r] = x]
        PROVE  TypeOK'
    <3>1. reader' \in [Readers -> Request]  BY <1>0, <2>1
    <3> QED  BY <2>1, <3>1 DEF worker, Session, Request
  <2>2. Idle \in Request  BY DEF Idle, Request
  <2>3. ASSUME NEW b \in Seq(Unit) PROVE [session EXCEPT !.native_buffer = b] \in Session
    BY <1>0 DEF Session
  <2>4. CASE Read(r)
    <3>1. [Idle EXCEPT !.pc = "header", !.local = session.native_buffer] \in Request
      BY <2>0, <2>2 DEF Request
    <3> QED  BY <1>0, <2>1, <2>4, <3>1 DEF Read
  <2>5. CASE ReadSome(r)
    <3>1. PICK k \in 1 .. Len(pipe) :
             /\ reader' = [reader EXCEPT ![r].local = @ \o SubSeq(pipe, 1, k)]
             /\ pipe' = SubSeq(pipe, k + 1, Len(pipe))
      BY <2>5 DEF ReadSome
    <3>2. SubSeq(pipe, 1, k) \in Seq(Unit) /\ pipe' \in Seq(Unit)
      <4>1. k \in 0 .. Len(pipe)  BY <1>0, <3>1
      <4> QED  BY <1>0, <3>1, <4>1, Cut
    <3>3. [reader[r] EXCEPT !.local = @ \o SubSeq(pipe, 1, k)] \in Request
      <4>1. reader[r].local \o SubSeq(pipe, 1, k) \in Seq(Unit)
        BY <2>0, <3>2, ConcatProperties DEF Request
      <4> QED  BY <2>0, <4>1 DEF Request
    <3> QED  BY <1>0, <2>1, <2>5, <3>1, <3>2, <3>3 DEF ReadSome
  <2>6. CASE Deadline(r)
    <3>1. session' \in Session  BY <2>0, <2>3, <2>6 DEF Deadline, Kept, Request
    <3>2. [reader[r] EXCEPT !.pc = "late", !.local = <<>>] \in Request
      <4>1. <<>> \in Seq(Unit)  BY EmptySeq
      <4> QED  BY <2>0, <4>1 DEF Request
    <3> QED  BY <1>0, <2>1, <2>2, <2>6, <3>1, <3>2 DEF Deadline
  <2>7. CASE PutBack(r)
    <3>1. session' \in Session
      BY <2>0, <2>3, <2>7, ConcatProperties DEF PutBack, HeaderInFront, Request
    <3> QED  BY <1>0, <2>1, <2>2, <2>7, <3>1 DEF PutBack
  <2>8. CASE ExitSeen(r)
    <3>1. session' \in Session  BY <1>0, <2>8 DEF ExitSeen, Session
    <3> QED  BY <1>0, <2>1, <2>2, <2>8, <3>1 DEF ExitSeen
  <2>9. CASE HeaderRead(r)
    <3>1. Found(r) \in Seq(Unit) /\ Rest(r) \in Seq(Unit)
      BY <2>9, FoundAndRest DEF HeaderRead
    <3>2. [pc |-> "payload", local |-> Rest(r), header |-> Found(r)] \in Request
      BY <3>1 DEF Request
    <3> QED  BY <1>0, <2>1, <2>2, <2>3, <2>9, <3>1, <3>2 DEF HeaderRead
  <2>10. CASE PayloadRead(r)
    <3> DEFINE n == reader[r].header[2][1]
    <3>1. n \in 1 .. MaxFrames
      <4>1. reader[r].header \in Seq(Unit) /\ Len(reader[r].header) = 2
        BY <2>0, <2>10 DEF PayloadRead, HeaderTaken, HeaderUnits, Request
      <4>2. reader[r].header[2] \in Unit  BY <4>1
      <4> QED  BY <4>2 DEF Unit
    <3>2. Rest(r) \in Seq(Unit)  BY <2>10, FoundAndRest DEF PayloadRead
    <3>3. WithCenter(session.centers_hz, CenterOf(n)) \in Seq(1 .. Centers)
      <4>1. session.centers_hz \in Seq(1 .. Centers) /\ CenterOf(n) \in 1 .. Centers
        BY <1>0, <3>1, CenterTyped DEF Session
      <4> QED  BY <4>1, AppendProperties DEF WithCenter
    <3> HIDE DEF n
    <3>4. [session EXCEPT !.native_buffer = Rest(r), !.point_index = n - 1,
                          !.centers_hz = WithCenter(@, CenterOf(n))] \in Session
      <4>1. n - 1 \in 0 .. MaxFrames  BY <3>1, SweepAssumption
      <4>2. PICK w : w = WithCenter(session.centers_hz, CenterOf(n))  OBVIOUS
      <4> QED  BY <1>0, <3>2, <3>3, <4>1, <4>2 DEF Session
    <3>5. \A m \in {n, 0} : Append(chunks, m) \in Seq(0 .. MaxFrames)
      BY <1>0, <3>1, SweepAssumption
    <3> QED  BY <1>0, <2>1, <2>2, <2>10, <3>4, <3>5 DEF PayloadRead, n
  <2> QED
    BY <1>5, <2>4, <2>5, <2>6, <2>7, <2>8, <2>9, <2>10 DEF ReadStep
<1>6. CASE UNCHANGED vars  BY <1>6 DEF vars, worker, clients
<1> QED  BY <1>1, <1>2, <1>3, <1>4, <1>5, <1>6 DEF Next

-----------------------------------------------------------------------------
(* The units a request holds                                               *)

\* Steps of the worker and of stop() add units to the pipe at most, and leave
\* a request what it holds.
Outside == UNCHANGED <<reader, chunks, session.native_buffer>> /\ (proc # "live" => proc' # "live")

LEMMA OutsideKeeps ==
    ASSUME TypeOK, \A r \in Readers : HoldsNext(r), Outside
    PROVE  /\ \A r \in Readers : HoldsNext(r)'
           /\ \A r \in Readers : Taken(r)' = Taken(r) /\ InHand(r)' = InHand(r)
BY DEF Outside, HoldsNext, InHand, HeaderTaken, Taken, Delivered, Follows, Torn, Place

\* A header is found where a frame begins, and only there.
LEMMA HeaderFound ==
    ASSUME TypeOK, NEW r \in Readers, HoldsNext(r), reader[r].pc = "header", Enough(r),
           Found(r)[1][2] = 1
    PROVE  /\ Follows(reader[r].local, Delivered) /\ Follows(session.native_buffer, Delivered)
           /\ \A i \in 1 .. HeaderUnits : Found(r)[i] = <<Len(chunks) + 1, i>>
<1>1. Wanted(r) = 2 /\ HeaderUnits = 2 /\ reader[r].header = <<>> /\ Taken(r) = Delivered
  <2>1. Len(chunks) * FrameUnits \in Int  BY Sizes DEF TypeOK
  <2> QED  BY <2>1 DEF Wanted, HeaderUnits, HoldsNext, Taken, Delivered
<1>2. /\ Found(r)[1] = reader[r].local[1] /\ Found(r)[2] = reader[r].local[2]
      /\ reader[r].local \in Seq(Unit) /\ Len(reader[r].local) >= 2
  <2>1. reader[r].local \in Seq(Unit) /\ Len(reader[r].local) >= 2
    BY <1>1 DEF Enough, TypeOK
  <2> QED  BY <1>1, <2>1, FoundAndRest
<1>3. ~Torn(reader[r].local)  BY <1>2 DEF Torn
<1>4. Follows(reader[r].local, Delivered) /\ Follows(session.native_buffer, Delivered)
  BY <1>1, <1>3 DEF HoldsNext, InHand
<1>5. ASSUME NEW i \in 1 .. 2 PROVE Found(r)[i] = <<Len(chunks) + 1, i>>
  <2>1. reader[r].local[i] \in Unit /\ i \in 1 .. FrameUnits /\ Len(chunks) \in Nat
    <3>1. i \in 1 .. Len(reader[r].local)  BY <1>2
    <3>2. Len(chunks) \in Nat  BY DEF TypeOK
    <3> QED  BY <1>2, <3>1, <3>2, ElementOfSeq, Sizes
  <2>2. Place(reader[r].local[i]) = Len(chunks) * FrameUnits + i
    BY <1>2, <1>4 DEF Follows, Delivered
  <2> QED  BY <1>2, <2>1, <2>2, UnitAtPlace
<1> QED  BY <1>1, <1>4, <1>5

\* A payload found behind its header completes the next frame.
LEMMA PayloadFound ==
    ASSUME TypeOK, NEW r \in Readers, HoldsNext(r), reader[r].pc = "payload", Enough(r)
    PROVE  /\ reader[r].header[2][1] = Len(chunks) + 1
           /\ reader[r].header \o Found(r) = Frame(Len(chunks) + 1)
<1>1. /\ Wanted(r) = PayloadUnits /\ HeaderTaken(r) /\ Len(reader[r].header) = 2
      /\ Taken(r) = Delivered + 2
  BY DEF Wanted, HoldsNext, HeaderTaken, HeaderUnits, Taken
<1>2. /\ Found(r) \in Seq(Unit) /\ Len(Found(r)) = PayloadUnits
      /\ \A i \in 1 .. PayloadUnits : Found(r)[i] = reader[r].local[i]
      /\ reader[r].local \in Seq(Unit) /\ Len(reader[r].local) >= PayloadUnits
      /\ reader[r].header \in Seq(Unit) /\ Len(chunks) \in Nat
  <2>1. reader[r].local \in Seq(Unit) /\ reader[r].header \in Seq(Unit) /\ Len(chunks) \in Nat
    BY DEF TypeOK
  <2>2. Len(reader[r].local) >= PayloadUnits  BY <1>1 DEF Enough
  <2>3. /\ Found(r) \in Seq(Unit) /\ Len(Found(r)) = Wanted(r)
        /\ \A i \in 1 .. Wanted(r) : Found(r)[i] = reader[r].local[i]
    BY FoundAndRest
  <2> QED  BY <1>1, <2>1, <2>2, <2>3
<1>3. Follows(reader[r].local, Delivered + 2)  BY <1>1 DEF HoldsNext, InHand
<1>4. ASSUME NEW i \in 1 .. PayloadUnits PROVE Found(r)[i] = <<Len(chunks) + 1, i + 2>>
  <2>1. reader[r].local[i] \in Unit /\ i + 2 \in 1 .. FrameUnits
    BY <1>2, Sizes
  <2>2. Place(reader[r].local[i]) = Delivered + 2 + i  BY <1>2, <1>3, Sizes DEF Follows
  <2>3. Delivered \in Int  BY <1>2, Sizes DEF Delivered
  <2>4. Place(reader[r].local[i]) = Len(chunks) * FrameUnits + (i + 2)
    BY <2>2, <2>3, Sizes DEF Delivered
  <2> QED  BY <1>2, <2>1, <2>4, UnitAtPlace
<1>5. \A i \in 1 .. 2 : reader[r].header[i] = <<Len(chunks) + 1, i>>
  BY <1>1 DEF HeaderTaken, HeaderUnits
<1>6. /\ Len(reader[r].header \o Found(r)) = FrameUnits
      /\ \A i \in 1 .. FrameUnits : (reader[r].header \o Found(r))[i] = <<Len(chunks) + 1, i>>
  <2> DEFINE h == reader[r].header
             p == Found(r)
  <2>1. /\ Len(h \o p) = Len(h) + Len(p)
        /\ \A i \in 1 .. Len(h) + Len(p) : (h \o p)[i] = IF i <= Len(h) THEN h[i] ELSE p[i - Len(h)]
    BY ZenonT(30), <1>2, ConcatProperties
  <2>2. Len(h) = 2 /\ Len(p) = PayloadUnits  BY <1>1, <1>2
  <2>3. \A i \in 1 .. 2 : h[i] = <<Len(chunks) + 1, i>>  BY <1>5
  <2>4. \A i \in 1 .. PayloadUnits : p[i] = <<Len(chunks) + 1, i + 2>>  BY <1>4
  <2> HIDE DEF h, p
  <2>5. ASSUME NEW i \in 1 .. FrameUnits PROVE (h \o p)[i] = <<Len(chunks) + 1, i>>
    <3>1. CASE i <= 2  BY <2>1, <2>2, <2>3, <3>1, Sizes
    <3>2. CASE i > 2
      <4>1. i - 2 \in 1 .. PayloadUnits /\ i - 2 + 2 = i  BY <3>2, Sizes
      <4>2. (h \o p)[i] = p[i - 2]  BY <2>1, <2>2, <3>2, Sizes
      <4> QED  BY <2>4, <4>1, <4>2
    <3>3. i <= 2 \/ i > 2  BY Sizes
    <3> QED  BY <3>1, <3>2, <3>3
  <2>6. Len(h \o p) = FrameUnits  BY <2>1, <2>2, Sizes
  <2> QED  BY <2>5, <2>6 DEF h, p
<1>7. reader[r].header \o Found(r) \in Seq(Unit)  BY <1>2, ConcatProperties
<1>8. Frame(Len(chunks) + 1) = [i \in 1 .. FrameUnits |-> (reader[r].header \o Found(r))[i]]
  BY <1>6 DEF Frame
<1>9. DOMAIN (reader[r].header \o Found(r)) = 1 .. FrameUnits  BY <1>6, <1>7
<1>10. reader[r].header[2][1] = Len(chunks) + 1  BY <1>5
<1>11. \A x \in Seq(Unit) : x = [i \in DOMAIN x |-> x[i]]  OBVIOUS
<1> QED  BY <1>7, <1>8, <1>9, <1>10, <1>11

-----------------------------------------------------------------------------
(* The invariant is kept                                                   *)

LEMMA InitIInv == Init => IInv
<1> SUFFICES ASSUME Init PROVE IInv
  OBVIOUS
<1>1. TypeOK  BY InitTypeOK
<1>2. /\ session.native_buffer = <<>> /\ pipe = <<>> /\ chunks = <<>>
      /\ \A r \in Readers : reader[r] = Idle
  BY DEF Init
<1>3. /\ Len(pipe) <= Capacity /\ FramesIntact /\ LocalBounded
  BY <1>2, SweepAssumption, Sizes DEF FramesIntact, LocalBounded, Idle
<1>4. \A r \in Readers : HoldsNext(r)
  BY <1>2 DEF HoldsNext, InHand, Follows, Idle
<1>5. Delivered = 0 /\ Written = 0  BY <1>2, Sizes DEF Delivered, Written, Init
<1>6. PipeNext
  <2>1. \A r \in Readers : Taken(r) = 0 /\ InHand(r) = <<>>
    BY <1>2, <1>5 DEF Taken, InHand, Idle
  <2>2. \A k : Follows(<<>>, k)  BY DEF Follows
  <2> QED  BY <1>2, <1>5, <2>1, <2>2 DEF PipeNext
<1> QED  BY <1>1, <1>3, <1>4, <1>6 DEF IInv

\* A step of the worker or of stop().
LEMMA OutsideStep ==
    ASSUME IInv, TypeOK',
           \/ RxSweepCallback \/ WriteFrame \/ StopSeen \/ WorkerEnds \/ WorkerFails
           \/ Stop \/ StopStep
    PROVE  IInv'
<1> USE DEF IInv
<1>1. Outside
  BY DEF Outside, RxSweepCallback, WriteFrame, StopSeen, WorkerEnds, WorkerFails, Stop, StopStep,
         Terminate, WaitOrKill, Finally, worker, clients, TypeOK
<1>2. FramesIntact' /\ LocalBounded'
  BY <1>1 DEF Outside, FramesIntact, LocalBounded, Wanted
<1>3. \A r \in Readers : HoldsNext(r)' /\ Taken(r)' = Taken(r) /\ InHand(r)' = InHand(r)
  BY <1>1, OutsideKeeps
<1>4. Len(pipe)' <= Capacity /\ PipeNext'
  <2>1. CASE WriteFrame
    <3>1. /\ proc = "live" /\ Len(pipe) < Capacity /\ pipe \in Seq(Unit)
          /\ pipe' = Append(pipe, <<frames_written + 1, unit>>)
      BY <2>1 DEF WriteFrame, TypeOK
    <3>2. Written \in Int /\ Written' = Written + 1
      <4> DEFINE w == frames_written * FrameUnits
      <4>1. /\ frames_written \in Nat /\ unit \in 1 .. FrameUnits /\ FrameUnits \in Nat
            /\ w \in Int /\ (frames_written + 1) * FrameUnits = w + FrameUnits
        BY Sizes, SweepAssumption DEF TypeOK
      <4>2. CASE unit < FrameUnits  BY <2>1, <4>1, <4>2 DEF WriteFrame, Written
      <4>3. CASE unit = FrameUnits
        <5>1. unit' = 1 /\ frames_written' = frames_written + 1
          BY <2>1, <4>1, <4>3 DEF WriteFrame
        <5>2. Written' = w + FrameUnits /\ Written = w + FrameUnits - 1
          BY <4>1, <4>3, <5>1 DEF Written
        <5> QED  BY <4>1, <5>2
      <4> QED  BY <4>1, <4>2, <4>3
    <3>3. Place(<<frames_written + 1, unit>>) = Written + 1
      BY Sizes, SweepAssumption DEF Place, Written, TypeOK
    <3>4. /\ Len(pipe') = Len(pipe) + 1
          /\ \A i \in 1 .. Len(pipe) : pipe'[i] = pipe[i]
          /\ pipe'[Len(pipe) + 1] = <<frames_written + 1, unit>>
      BY <3>1
    <3>5. Len(pipe') <= Capacity  BY <3>1, <3>4, SweepAssumption
    <3>6. ASSUME NEW r \in Readers
          PROVE  /\ Follows(pipe', Taken(r) + Len(InHand(r)))
                 /\ Written' = Taken(r) + Len(InHand(r)) + Len(pipe')
      <4> DEFINE k == Taken(r) + Len(InHand(r))
      <4>1. Follows(pipe, k) /\ Written = k + Len(pipe)  BY <3>1 DEF PipeNext
      <4>2. k \in Int
        BY Sizes DEF Taken, Delivered, InHand, TypeOK
      <4> HIDE DEF k
      <4>3. Follows(pipe', k)
        BY <3>1, <3>2, <3>3, <3>4, <4>1, <4>2 DEF Follows
      <4> QED  BY <3>1, <3>2, <3>4, <4>1, <4>2, <4>3 DEF k
    <3> QED  BY <1>3, <3>5, <3>6 DEF PipeNext
  <2>2. CASE ~WriteFrame
    <3>1. UNCHANGED <<pipe, unit, frames_written>> /\ (proc' = "live" => proc = "live")
      BY <2>2
      DEF RxSweepCallback, StopSeen, WorkerEnds, WorkerFails, Stop, StopStep, Terminate,
          WaitOrKill, Finally, worker
    <3> QED  BY <1>3, <3>1 DEF PipeNext, Written, Follows, Place
  <2> QED  BY <2>1, <2>2
<1> QED  BY <1>2, <1>3, <1>4

\* The disjuncts of a read leave alone what stop() and the worker write, and
\* what they are about.
LEMMA OneRequest ==
    ASSUME NEW r \in Readers, \A q \in Readers : q = r,
           TypeOK', Len(pipe') <= Capacity, HoldsNext(r)', FramesIntact',
           proc = "live" =>
              /\ Follows(pipe', Taken(r)' + Len(InHand(r)'))
              /\ Written = Taken(r)' + Len(InHand(r)') + Len(pipe'),
           UNCHANGED worker,
           Len(session.native_buffer') < FrameUnits \/ Len(session.native_buffer') < Capacity,
           reader'[r].pc \in {"header", "payload"} =>
              \/ Len(reader'[r].local) < FrameUnits
              \/ Len(reader'[r].local) < Capacity + Wanted(r)'
    PROVE  IInv'
<1>1. \A q \in Readers : HoldsNext(q)'  OBVIOUS
<1>2. PipeNext'
  BY DEF PipeNext, Written, worker, Follows, Place
<1>3. LocalBounded'  BY DEF LocalBounded
<1> QED  BY <1>1, <1>2, <1>3 DEF IInv

\* A step of the only client.
LEMMA ReadKeeps ==
    ASSUME IInv, TypeOK', NEW r \in Readers, \A q \in Readers : q = r, Read(r) \/ ReadStep(r)
    PROVE  IInv'
<1> DEFINE rd == reader[r]
           nb == session.native_buffer
           D == Delivered
<1>1. /\ rd.local \in Seq(Unit) /\ rd.header \in Seq(Unit) /\ nb \in Seq(Unit) /\ pipe \in Seq(Unit)
      /\ rd.pc \in {"idle", "header", "payload", "late"} /\ Len(chunks) \in Nat
      /\ D \in Int /\ D = Len(chunks) * FrameUnits /\ Capacity \in Nat \ {0}
      /\ reader \in [Readers -> Request] /\ session \in Session
  <2>1. reader \in [Readers -> Request] /\ session \in Session /\ pipe \in Seq(Unit)
    BY DEF IInv, TypeOK, Session, Request
  <2>2. rd \in Request /\ nb \in Seq(Unit)  BY <2>1 DEF Session
  <2>3. Len(chunks) \in Nat  BY DEF IInv, TypeOK
  <2>4. D = Len(chunks) * FrameUnits /\ D \in Int  BY <2>3, Sizes DEF Delivered
  <2> QED  BY <2>1, <2>2, <2>3, <2>4, SweepAssumption DEF Request
<1>2. HoldsNext(r) /\ FramesIntact /\ LocalBounded /\ Len(pipe) <= Capacity  BY DEF IInv
<1>3. proc = "live" =>
         /\ Follows(pipe, Taken(r) + Len(InHand(r)))
         /\ Written = Taken(r) + Len(InHand(r)) + Len(pipe)
  BY DEF IInv, PipeNext
<1>4. Taken(r) = D + Len(rd.header)  BY DEF Taken
<1>5. /\ rd.pc \in {"idle", "header"} => rd.header = <<>> /\ Len(rd.header) = 0
      /\ rd.pc \in {"payload", "late"} => HeaderTaken(r) /\ Len(rd.header) = 2
  BY <1>2 DEF HoldsNext, HeaderTaken, HeaderUnits
<1>6. Idle.pc = "idle" /\ Idle.header = <<>> /\ Idle.local = <<>> /\ Len(Idle.header) = 0
  BY DEF Idle
<1>7. proc = "live" => Follows(InHand(r), Taken(r)) /\ Follows(nb, Taken(r))
  BY <1>2 DEF HoldsNext, Torn
<1>8. CASE Read(r)
  <2>1. /\ rd.pc = "idle" /\ UNCHANGED <<worker, pipe, session, chunks>>
        /\ reader'[r].pc = "header" /\ reader'[r].local = nb /\ reader'[r].header = <<>>
    BY <1>1, <1>8 DEF Read, Idle
  <2>2. InHand(r) = nb /\ InHand(r)' = nb /\ Taken(r)' = Taken(r) /\ session.native_buffer' = nb
    BY <1>4, <1>5, <2>1 DEF InHand, Taken, Delivered
  <2>3. HoldsNext(r)'
    BY <1>2, <2>1, <2>2 DEF HoldsNext, Follows, Torn, worker, Place
  <2>4. Len(nb) < FrameUnits \/ Len(nb) < Capacity  BY <1>2 DEF LocalBounded
  <2>5. Wanted(r)' \in Nat  BY Sizes DEF Wanted, HeaderUnits
  <2>6. Len(nb) < FrameUnits \/ Len(nb) < Capacity + Wanted(r)'
    BY <1>1, <2>4, <2>5
  <2>7. FramesIntact'  BY <1>2, <2>1 DEF FramesIntact
  <2> QED  BY <1>2, <1>3, <2>1, <2>2, <2>3, <2>4, <2>6, <2>7, OneRequest
<1>9. CASE ReadSome(r)
  <2>1. PICK k \in 1 .. Len(pipe) :
           /\ reader' = [reader EXCEPT ![r].local = @ \o SubSeq(pipe, 1, k)]
           /\ pipe' = SubSeq(pipe, k + 1, Len(pipe))
    BY <1>9 DEF ReadSome
  <2>2. /\ proc = "live" /\ rd.pc \in {"header", "payload"} /\ Len(rd.local) < Wanted(r)
        /\ UNCHANGED <<worker, session, chunks>>
    <3>1. Wanted(r) \in Nat /\ Len(rd.local) \in Nat  BY <1>1, Sizes DEF Wanted, HeaderUnits
    <3>2. /\ proc = "live" /\ rd.pc \in {"header", "payload"} /\ ~(Len(rd.local) >= Wanted(r))
          /\ UNCHANGED <<worker, session, chunks>>
      BY <1>9 DEF ReadSome, Enough
    <3> QED  BY <3>1, <3>2
  <2>3. PICK m : m = SubSeq(pipe, 1, k)  OBVIOUS
  <2>4. reader'[r].pc = rd.pc /\ reader'[r].local = rd.local \o m /\ reader'[r].header = rd.header
    BY <1>1, <2>1, <2>3 DEF Request
  <2>5. Taken(r) \in Int /\ InHand(r) = rd.local /\ Taken(r)' = Taken(r)
        /\ InHand(r)' = rd.local \o m /\ Len(rd.local) \in Nat
        /\ session.native_buffer' = nb
    BY SMTT(20), <1>1, <1>4, <2>2, <2>4 DEF InHand, Taken, Delivered
  <2>6. /\ m \in Seq(Unit) /\ Len(m) = k /\ Follows(m, Taken(r) + Len(rd.local))
        /\ Len(pipe') = Len(pipe) - k /\ Follows(pipe', Taken(r) + Len(rd.local) + k)
    <3>1. k \in 0 .. Len(pipe) /\ Taken(r) + Len(rd.local) \in Int  BY <1>1, <2>5
    <3>2. Follows(pipe, Taken(r) + Len(rd.local))  BY <1>3, <2>2, <2>5
    <3> QED  BY <1>1, <2>1, <2>3, <3>1, <3>2, FollowsPrefix, FollowsRest
  <2>7. Follows(rd.local \o m, Taken(r)) /\ Len(rd.local \o m) = Len(rd.local) + k
    <3>1. Follows(rd.local, Taken(r)) /\ rd.local \in Seq(Unit) /\ Taken(r) \in Int
      BY <1>1, <1>7, <2>2, <2>5
    <3>2. PICK x : x = rd.local  OBVIOUS
    <3>3. Follows(x, Taken(r)) /\ x \in Seq(Unit)  BY <3>1, <3>2
    <3>4. Follows(m, Taken(r) + Len(x)) /\ m \in Seq(Unit) /\ Len(m) = k  BY <2>6, <3>2
    <3>5. Follows(x \o m, Taken(r)) /\ Len(x \o m) = Len(x) + Len(m)
      BY <3>1, <3>3, <3>4, FollowsConcat
    <3> QED  BY <3>2, <3>4, <3>5
  <2>8. k \in Nat /\ k >= 1 /\ k <= Len(pipe) /\ Len(pipe) <= Capacity  BY <1>1, <1>2, <2>1
  <2>9. HoldsNext(r)'
    <3>1. Len(nb) <= Len(rd.local \o m)
      BY <1>1, <1>2, <2>5, <2>7, <2>8 DEF HoldsNext
    <3>2. Follows(nb, Taken(r))  BY <1>7, <2>2
    <3>3. HeaderTaken(r)' <=> HeaderTaken(r)  BY <2>2, <2>4 DEF HeaderTaken
    <3>4. Follows(InHand(r), Taken(r))' /\ Follows(session.native_buffer, Taken(r))'
      BY <2>5, <2>7, <3>2 DEF Follows, Place
    <3> QED  BY <1>5, <2>2, <2>4, <2>5, <3>1, <3>3, <3>4 DEF HoldsNext
  <2>10. /\ Follows(pipe', Taken(r)' + Len(InHand(r)'))
         /\ Written = Taken(r)' + Len(InHand(r)') + Len(pipe')
    <3>1. Taken(r)' + Len(InHand(r)') = Taken(r) + Len(rd.local) + k
      BY SMTT(20), <2>5, <2>7, <2>8
    <3>2. Written = Taken(r) + Len(rd.local) + Len(pipe)  BY <1>3, <2>2, <2>5
    <3> QED  BY SMTT(20), <1>1, <2>5, <2>6, <2>8, <3>1, <3>2
  <2>11. Len(reader'[r].local) < Capacity + Wanted(r)'
    <3>1. Wanted(r)' = Wanted(r) /\ Wanted(r) \in Nat  BY <2>4, Sizes DEF Wanted, HeaderUnits
    <3> QED  BY <1>1, <2>2, <2>4, <2>5, <2>7, <2>8, <3>1
  <2>12. Len(pipe') <= Capacity  BY <1>1, <2>6, <2>8
  <2>13. FramesIntact'  BY <1>2, <2>2 DEF FramesIntact
  <2> QED  BY <1>2, <2>2, <2>5, <2>9, <2>10, <2>11, <2>12, <2>13, OneRequest DEF LocalBounded
<1>10. CASE Deadline(r)
  <2>1. /\ proc = "live" /\ rd.pc \in {"header", "payload"} /\ Len(rd.local) < Wanted(r)
        /\ UNCHANGED <<worker, pipe, chunks>>
        /\ session.native_buffer' = rd.local
        /\ reader'[r].pc = IF rd.pc = "header" THEN "idle" ELSE "late"
        /\ reader'[r].header = rd.header
    <3>1. session' = [session EXCEPT !.native_buffer = rd.local]
      BY <1>10 DEF Deadline, Kept
    <3>2. rd.pc = "header" => reader'[r] = Idle  BY <1>1, <1>10 DEF Deadline
    <3>3. rd.pc # "header" => reader'[r] = [rd EXCEPT !.pc = "late", !.local = <<>>]
      BY <1>1, <1>10 DEF Deadline
    <3>4. rd \in Request  BY <1>1
    <3> QED
      BY <1>1, <1>5, <1>6, <1>10, <3>1, <3>2, <3>3, <3>4, SweepAssumption
      DEF Deadline, Enough, Wanted, HeaderUnits, Session, Request
  <2>2. /\ InHand(r) = rd.local /\ InHand(r)' = rd.local /\ Taken(r)' = Taken(r)
        /\ Len(rd.local) \in Nat /\ Wanted(r) <= FrameUnits /\ Len(rd.local) < FrameUnits
        /\ rd.pc = "payload" => Len(rd.local) < PayloadUnits
    BY SMTT(20), <1>1, <1>4, <2>1, Sizes DEF InHand, Taken, Delivered, Wanted, HeaderUnits
  <2>3. Follows(rd.local, Taken(r))  BY <1>7, <2>1, <2>2
  <2>4. HoldsNext(r)'
    <3>1. HeaderTaken(r)' <=> HeaderTaken(r)  BY <2>1 DEF HeaderTaken
    <3>2. Follows(InHand(r), Taken(r))' /\ Follows(session.native_buffer, Taken(r))'
      BY <2>1, <2>2, <2>3 DEF Follows, Place
    <3> QED  BY <1>5, <2>1, <2>2, <3>1, <3>2 DEF HoldsNext
  <2>5. FramesIntact'  BY <1>2, <2>1 DEF FramesIntact
  <2> QED  BY <1>2, <1>3, <2>1, <2>2, <2>4, <2>5, OneRequest
<1>11. CASE PutBack(r)
  <2>1. /\ rd.pc = "late" /\ UNCHANGED <<worker, pipe, chunks>>
        /\ reader'[r] = Idle /\ session.native_buffer' = rd.header \o nb
    BY <1>1, <1>11 DEF PutBack, HeaderInFront, Session
  <2>2. /\ HeaderTaken(r) /\ Len(rd.header) = 2 /\ Len(nb) < PayloadUnits /\ Len(nb) \in Nat
        /\ Follows(nb, D + 2) /\ InHand(r) = nb /\ Taken(r) = D + 2
    <3>1. HeaderTaken(r) /\ Len(rd.header) = 2  BY <1>5, <2>1
    <3>2. InHand(r) = nb  BY <2>1 DEF InHand
    <3>3. Taken(r) = D + 2  BY <1>4, <3>1
    <3>4. Len(nb) < PayloadUnits  BY <1>2, <2>1 DEF HoldsNext
    <3>5. Follows(nb, Taken(r))  BY <1>2, <2>1, <3>2 DEF HoldsNext
    <3> QED  BY <1>1, <3>1, <3>2, <3>3, <3>4, <3>5
  <2>3. Follows(rd.header, D)
    <3>1. \A i \in 1 .. 2 : rd.header[i] = <<Len(chunks) + 1, i>>
      BY <2>2 DEF HeaderTaken, HeaderUnits
    <3>2. \A i \in 1 .. 2 : Place(<<Len(chunks) + 1, i>>) = D + i  BY <1>1, Sizes DEF Place
    <3> QED  BY <2>2, <3>1, <3>2 DEF Follows
  <2>4. Follows(rd.header \o nb, D) /\ Len(rd.header \o nb) = 2 + Len(nb)
    <3>1. PICK x, y : x = rd.header /\ y = nb  OBVIOUS
    <3>2. /\ x \in Seq(Unit) /\ y \in Seq(Unit) /\ Len(x) = 2
          /\ Follows(x, D) /\ Follows(y, D + Len(x)) /\ D \in Int
      BY <1>1, <2>2, <2>3, <3>1
    <3> HIDE DEF D
    <3>3. Follows(x \o y, D) /\ Len(x \o y) = Len(x) + Len(y)  BY <3>2, FollowsConcat
    <3> QED  BY <3>1, <3>2, <3>3
  <2>5. /\ Taken(r)' = D /\ InHand(r)' = rd.header \o nb /\ reader'[r].pc = "idle"
        /\ reader'[r].header = <<>>
    <3>1. reader'[r].pc = "idle" /\ reader'[r].header = <<>> /\ Len(reader'[r].header) = 0
      BY <1>6, <2>1
    <3>2. InHand(r)' = rd.header \o nb  BY <2>1, <3>1 DEF InHand
    <3>3. Taken(r)' = D + 0  BY <2>1, <3>1 DEF Taken, Delivered
    <3> QED  BY <1>1, <3>1, <3>2, <3>3
  <2>6. HoldsNext(r)'
    <3>1. Follows(InHand(r), Taken(r))' /\ Follows(session.native_buffer, Taken(r))'
      BY <2>1, <2>4, <2>5 DEF Follows, Place
    <3>2. Len(session.native_buffer)' <= Len(InHand(r))'
      <4>1. session.native_buffer' = rd.header \o nb /\ InHand(r)' = rd.header \o nb
        BY <2>1, <2>5
      <4>2. Len(rd.header \o nb) \in Int  BY <2>2, <2>4
      <4>3. PICK x : x = rd.header \o nb  OBVIOUS
      <4> QED  BY <4>1, <4>2, <4>3
    <3> QED  BY <2>5, <3>1, <3>2 DEF HoldsNext
  <2>7. Len(session.native_buffer') < FrameUnits  BY <2>1, <2>2, <2>4, Sizes
  <2>8. FramesIntact'  BY <1>2, <2>1 DEF FramesIntact
  <2>9. Taken(r)' + Len(InHand(r)') = Taken(r) + Len(InHand(r))
    <3>1. Len(InHand(r)') = 2 + Len(nb) /\ Len(InHand(r)) = Len(nb)  BY <2>2, <2>4, <2>5
    <3>2. PICK a, b, k : a = Len(InHand(r)') /\ b = Len(InHand(r)) /\ k = Len(nb)  OBVIOUS
    <3>3. a = 2 + k /\ b = k /\ k \in Nat /\ Taken(r)' = D /\ Taken(r) = D + 2 /\ D \in Int
      BY <1>1, <2>2, <2>5, <3>1, <3>2
    <3>4. Taken(r)' + a = Taken(r) + b  BY <3>3
    <3> QED  BY <3>2, <3>4
  <2> QED  BY <1>2, <1>3, <2>1, <2>5, <2>6, <2>7, <2>8, <2>9, OneRequest
<1>12. CASE ExitSeen(r)
  <2>1. /\ rd.pc \in {"header", "payload"} /\ ~Enough(r) /\ proc # "live"
        /\ reader'[r] = Idle /\ session.native_buffer' = nb /\ UNCHANGED <<worker, pipe, chunks>>
    BY <1>1, <1>12 DEF ExitSeen, Session
  <2>2. /\ InHand(r) = rd.local /\ InHand(r)' = nb /\ Taken(r)' = D
        /\ reader'[r].pc = "idle" /\ reader'[r].header = <<>>
    BY <1>1, <1>6, <2>1 DEF InHand, Taken, Delivered
  <2>3. Follows(nb, D) \/ Torn(nb)
    <3>1. CASE rd.pc = "header"
      <4>1. Taken(r) = D  BY <1>1, <1>4, <1>5, <3>1
      <4> QED  BY <1>2, <3>1, <4>1 DEF HoldsNext
    <3>2. CASE rd.pc = "payload"
      <4>1. Follows(nb, D + 2)  BY <1>1, <1>2, <1>4, <1>5, <3>2 DEF HoldsNext
      <4>2. Len(nb) < PayloadUnits
        <5>1. Wanted(r) = PayloadUnits /\ ~(Len(rd.local) >= Wanted(r))
          BY <2>1, <3>2 DEF Enough, Wanted
        <5>2. Len(nb) <= Len(rd.local)  BY <1>2, <2>2 DEF HoldsNext
        <5> QED  BY <1>1, <5>1, <5>2, Sizes
      <4>3. ASSUME NEW i \in 1 .. Len(nb) PROVE nb[i][2] # 1
        <5>1. nb[i] \in Unit /\ i + 2 \in 1 .. FrameUnits  BY <1>1, <4>2, Sizes
        <5>2. Place(nb[i]) = Len(chunks) * FrameUnits + (i + 2)
          BY <1>1, <4>1, <5>1, Sizes DEF Follows
        <5>3. nb[i] = <<Len(chunks) + 1, i + 2>>  BY <1>1, <5>1, <5>2, UnitAtPlace
        <5> QED  BY <1>1, <5>3
      <4> QED  BY <2>1, <4>3 DEF Torn
    <3> QED  BY <2>1, <3>1, <3>2
  <2>4. HoldsNext(r)'
    <3>1. (Follows(nb, D) => Follows(InHand(r), Taken(r))' /\ Follows(session.native_buffer, Taken(r))')
          /\ (Torn(nb) => Torn(InHand(r))' /\ Torn(session.native_buffer)')
      BY <2>1, <2>2 DEF Follows, Place, Torn, worker
    <3> QED  BY <1>1, <2>1, <2>2, <2>3, <3>1 DEF HoldsNext
  <2>5. FramesIntact'  BY <1>2, <2>1 DEF FramesIntact
  <2> QED  BY <1>2, <2>1, <2>2, <2>4, <2>5, OneRequest DEF LocalBounded
<1>13. CASE HeaderRead(r)
  <2>1. /\ rd.pc = "header" /\ Enough(r) /\ UNCHANGED <<worker, pipe, chunks>>
        /\ session.native_buffer' = Rest(r) /\ InHand(r) = rd.local /\ Taken(r) = D
        /\ Wanted(r) = 2
    <3>1. rd.pc = "header" /\ Enough(r)  BY <1>13 DEF HeaderRead
    <3> QED  BY <1>1, <1>4, <1>5, <1>13, <3>1 DEF HeaderRead, InHand, Wanted, HeaderUnits, Session
  <2>2. /\ Found(r) \in Seq(Unit) /\ Len(Found(r)) = 2
        /\ Found(r)[1] = rd.local[1] /\ Found(r)[2] = rd.local[2]
        /\ Rest(r) \in Seq(Unit) /\ Len(Rest(r)) = Len(rd.local) - 2
        /\ \A i \in 1 .. Len(Rest(r)) : Rest(r)[i] = rd.local[2 + i]
        /\ Len(rd.local) >= 2
    <3>1. TypeOK  BY DEF IInv
    <3>2. Len(rd.local) >= 2  BY <2>1 DEF Enough
    <3>3. \A i \in 1 .. Wanted(r) : Found(r)[i] = rd.local[i]
      BY <2>1, <3>1, FoundAndRest
    <3>4. 1 \in 1 .. Wanted(r) /\ 2 \in 1 .. Wanted(r)  BY <2>1
    <3>5. Found(r)[1] = rd.local[1] /\ Found(r)[2] = rd.local[2]  BY <3>3, <3>4
    <3>6. /\ Found(r) \in Seq(Unit) /\ Len(Found(r)) = Wanted(r)
          /\ Rest(r) \in Seq(Unit) /\ Len(Rest(r)) = Len(rd.local) - Wanted(r)
          /\ \A i \in 1 .. Len(Rest(r)) : Rest(r)[i] = rd.local[Wanted(r) + i]
      BY <2>1, <3>1, FoundAndRest
    <3> QED  BY <2>1, <3>2, <3>5, <3>6
  <2>3. FramesIntact'  BY <1>2, <2>1 DEF FramesIntact
  <2>4. Len(Rest(r)) < FrameUnits \/ Len(Rest(r)) < Capacity
    <3>1. Len(rd.local) < FrameUnits \/ Len(rd.local) < Capacity + 2
      BY <1>2, <2>1 DEF LocalBounded
    <3> QED  BY <1>1, <2>2, <3>1, Sizes
  <2>5. CASE Found(r)[1][2] = 1
    <3>1. /\ Follows(rd.local, D) /\ Follows(nb, D)
          /\ \A i \in 1 .. HeaderUnits : Found(r)[i] = <<Len(chunks) + 1, i>>
      BY <1>2, <2>1, <2>5, HeaderFound DEF IInv
    <3>2. /\ reader'[r].pc = "payload" /\ reader'[r].local = Rest(r)
          /\ reader'[r].header = Found(r)
      BY <1>1, <1>13, <2>5 DEF HeaderRead
    <3>3. HeaderTaken(r)'  BY <2>1, <2>2, <3>1, <3>2 DEF HeaderTaken, HeaderUnits
    <3>4. InHand(r)' = Rest(r) /\ Taken(r)' = D + 2
      <4>1. InHand(r)' = Rest(r)  BY <3>2 DEF InHand
      <4>2. Taken(r)' = D + Len(Found(r))  BY <2>1, <3>2 DEF Taken, Delivered
      <4> QED  BY <2>2, <4>1, <4>2
    <3>5. Follows(Rest(r), D + 2)
      <4>1. 2 \in 0 .. Len(rd.local)  BY <1>1, <2>2
      <4>2. Rest(r) = SubSeq(rd.local, 2 + 1, Len(rd.local))  BY <2>1 DEF Rest
      <4> QED  BY <1>1, <3>1, <4>1, <4>2, FollowsRest
    <3>6. HoldsNext(r)'
      <4>1. Follows(InHand(r), Taken(r))' /\ Follows(session.native_buffer, Taken(r))'
        BY <2>1, <3>4, <3>5 DEF Follows, Place
      <4> QED  BY <2>1, <2>2, <3>2, <3>3, <3>4, <4>1 DEF HoldsNext
    <3>7. Taken(r)' + Len(InHand(r)') = Taken(r) + Len(InHand(r))
      BY <1>1, <2>1, <2>2, <3>4
    <3>8. Len(reader'[r].local) < FrameUnits \/ Len(reader'[r].local) < Capacity + Wanted(r)'
      <4>1. Wanted(r)' \in Nat  BY Sizes DEF Wanted, HeaderUnits
      <4>2. PICK k : k = Len(Rest(r))  OBVIOUS
      <4>3. k < FrameUnits \/ k < Capacity + Wanted(r)'
        <5>1. k \in Nat /\ (k < FrameUnits \/ k < Capacity) /\ Capacity \in Nat
          BY <1>1, <2>2, <2>4, <4>2
        <5> QED  BY <4>1, <5>1
      <4> QED  BY <3>2, <4>2, <4>3
    <3> QED  BY <1>2, <1>3, <2>1, <2>3, <2>4, <3>4, <3>6, <3>7, <3>8, OneRequest
  <2>6. CASE Found(r)[1][2] # 1
    <3>1. Torn(rd.local)
      <4>1. ASSUME Follows(rd.local, D) PROVE FALSE
        <5>1. rd.local[1] \in Unit /\ 1 \in 1 .. FrameUnits /\ 1 \in 1 .. Len(rd.local)
          BY <1>1, <2>2, Sizes
        <5>2. Place(rd.local[1]) = Len(chunks) * FrameUnits + 1
          BY <1>1, <4>1, <5>1 DEF Follows
        <5>3. rd.local[1] = <<Len(chunks) + 1, 1>>  BY <1>1, <5>1, <5>2, UnitAtPlace
        <5> QED  BY <2>2, <2>6, <5>3
      <4> QED  BY <1>2, <2>1, <4>1 DEF HoldsNext
    <3>2. Torn(Rest(r))
      <4>1. \A i \in 1 .. Len(Rest(r)) : 2 + i \in 1 .. Len(rd.local)  BY <1>1, <2>2
      <4> QED  BY <2>2, <3>1, <4>1 DEF Torn
    <3>3. reader'[r] = Idle  BY <1>1, <1>13, <2>6 DEF HeaderRead
    <3>4. InHand(r)' = Rest(r)  BY <1>6, <2>1, <3>3 DEF InHand
    <3>5. HoldsNext(r)'
      <4>1. Torn(InHand(r))' /\ Torn(session.native_buffer)'
        BY <2>1, <3>2, <3>4 DEF Torn, worker
      <4> QED  BY <1>1, <1>6, <2>1, <2>2, <3>3, <3>4, <4>1 DEF HoldsNext
    <3>6. proc # "live"  BY <3>1 DEF Torn
    <3> QED  BY <1>2, <1>6, <2>1, <2>3, <2>4, <3>3, <3>5, <3>6, OneRequest
  <2> QED  BY <2>5, <2>6
<1>14. CASE PayloadRead(r)
  <2>1. /\ rd.pc = "payload" /\ Enough(r) /\ UNCHANGED <<worker, pipe>>
        /\ session.native_buffer' = Rest(r) /\ InHand(r) = rd.local /\ Taken(r) = D + 2
        /\ Wanted(r) = PayloadUnits /\ reader'[r] = Idle
    <3>1. rd.pc = "payload" /\ Enough(r)  BY <1>14 DEF PayloadRead
    <3>2. session.native_buffer' = Rest(r)  BY <1>1, <1>14 DEF PayloadRead, Session
    <3> QED  BY <1>1, <1>4, <1>5, <1>14, <3>1, <3>2 DEF PayloadRead, InHand, Wanted
  <2>2. chunks' = Append(chunks, Len(chunks) + 1)
    <3>1. /\ rd.header[2][1] = Len(chunks) + 1
          /\ rd.header \o Found(r) = Frame(Len(chunks) + 1)
      BY <1>2, <2>1, PayloadFound DEF IInv
    <3> QED  BY <1>14, <3>1 DEF PayloadRead
  <2>3. /\ Rest(r) \in Seq(Unit) /\ Len(Rest(r)) = Len(rd.local) - PayloadUnits
        /\ Len(rd.local) >= PayloadUnits
    BY <2>1, FoundAndRest DEF IInv, Enough
  <2>4. chunks \in Seq(0 .. MaxFrames)  BY DEF IInv, TypeOK
  <2>5. FramesIntact'
    <3>1. /\ DOMAIN chunks' = 1 .. Len(chunks) + 1 /\ chunks'[Len(chunks) + 1] = Len(chunks) + 1
          /\ \A i \in 1 .. Len(chunks) : chunks'[i] = chunks[i]
      BY <2>2, <2>4
    <3>2. \A i \in 1 .. Len(chunks) : chunks[i] = i  BY <1>2, <2>4 DEF FramesIntact
    <3> QED  BY SMTT(20), <1>1, <3>1, <3>2 DEF FramesIntact
  <2>6. Taken(r)' = D + FrameUnits
    <3>1. Len(chunks') = Len(chunks) + 1  BY <2>2, <2>4
    <3>2. Taken(r)' = (Len(chunks) + 1) * FrameUnits + 0
      BY <1>6, <2>1, <3>1 DEF Taken, Delivered
    <3>3. (Len(chunks) + 1) * FrameUnits = Len(chunks) * FrameUnits + FrameUnits
      BY <1>1, Sizes
    <3> QED  BY <1>1, <3>2, <3>3, Sizes
  <2>7. InHand(r)' = Rest(r)  BY <1>6, <2>1 DEF InHand
  <2>8. Follows(Rest(r), D + FrameUnits)
    <3>1. Follows(rd.local, D + 2)  BY <1>2, <2>1 DEF HoldsNext
    <3>2. PayloadUnits \in 0 .. Len(rd.local) /\ D + 2 \in Int  BY <1>1, <2>3, Sizes
    <3>3. Rest(r) = SubSeq(rd.local, PayloadUnits + 1, Len(rd.local))  BY <2>1 DEF Rest
    <3>4. Follows(Rest(r), D + 2 + PayloadUnits)  BY SMTT(20), <1>1, <3>1, <3>2, <3>3, FollowsRest
    <3>5. D + 2 + PayloadUnits = D + FrameUnits  BY <1>1, Sizes
    <3> QED  BY <3>4, <3>5
  <2>9. HoldsNext(r)'
    <3>1. Follows(InHand(r), Taken(r))' /\ Follows(session.native_buffer, Taken(r))'
      BY <2>1, <2>6, <2>7, <2>8 DEF Follows, Place
    <3> QED  BY <1>1, <1>6, <2>1, <2>3, <2>7, <3>1 DEF HoldsNext
  <2>10. Len(Rest(r)) < FrameUnits \/ Len(Rest(r)) < Capacity
    <3>1. Len(rd.local) < FrameUnits \/ Len(rd.local) < Capacity + PayloadUnits
      BY <1>2, <2>1 DEF LocalBounded
    <3> QED  BY <1>1, <2>3, <3>1, Sizes
  <2>11. Taken(r)' + Len(InHand(r)') = Taken(r) + Len(InHand(r))
    <3>1. PICK a, b : a = Len(InHand(r)') /\ b = Len(InHand(r))  OBVIOUS
    <3>2. a = b - PayloadUnits /\ b \in Int  BY <1>1, <2>1, <2>3, <2>7, <3>1
    <3>3. D + FrameUnits + a = D + 2 + b  BY <1>1, <3>2, Sizes
    <3> QED  BY <2>1, <2>6, <3>1, <3>3
  <2> QED
    BY <1>2, <1>3, <1>6, <2>1, <2>5, <2>9, <2>10, <2>11, <2>7, OneRequest
<1> QED
  BY <1>8, <1>9, <1>10, <1>11, <1>12, <1>13, <1>14 DEF ReadStep

-----------------------------------------------------------------------------
(* Theorems.  The session has one client: two that read at a time share    *)
(* native_buffer without a lock, and each takes the other one's bytes.     *)

OneClient == \E c : Readers = {c}

LEMMA IInvHolds ==
    ASSUME OneClient
    PROVE  Spec => []IInv
<1>1. Init => IInv  BY InitIInv
<1>2. ASSUME IInv, [Next]_vars PROVE IInv'
  <2>1. TypeOK'
    <3>1. TypeOK /\ \A r \in Readers : reader[r].pc = "payload" => HeaderTaken(r)
      BY <1>2 DEF IInv, HoldsNext
    <3> QED  BY <1>2, <3>1, TypeStep
  <2>2. CASE \/ RxSweepCallback \/ WriteFrame \/ StopSeen \/ WorkerEnds \/ WorkerFails
             \/ Stop \/ StopStep
    BY <1>2, <2>1, <2>2, OutsideStep
  <2>3. ASSUME NEW r \in Readers, Read(r) \/ ReadStep(r) PROVE IInv'
    <3>1. \A q \in Readers : q = r  BY OneClient DEF OneClient
    <3> QED  BY <1>2, <2>1, <2>3, <3>1, ReadKeeps
  <2>4. CASE UNCHANGED vars
    <3>1. Outside /\ UNCHANGED worker /\ UNCHANGED <<pipe, session>>
      BY <2>4 DEF vars, worker, clients, Outside
    <3>2. FramesIntact' /\ LocalBounded' /\ Len(pipe') <= Capacity
      BY <1>2, <3>1 DEF IInv, Outside, FramesIntact, LocalBounded, Wanted
    <3>3. \A r \in Readers : HoldsNext(r)' /\ Taken(r)' = Taken(r) /\ InHand(r)' = InHand(r)
      BY <1>2, <3>1, OutsideKeeps DEF IInv
    <3>4. PipeNext'
      BY <1>2, <3>1, <3>3 DEF IInv, PipeNext, Written, Follows, Place, worker
    <3> QED  BY <2>1, <3>2, <3>3, <3>4 DEF IInv
  <2> QED  BY <1>2, <2>2, <2>3, <2>4 DEF Next
<1> QED  BY <1>1, <1>2, PTL DEF Spec

\* The chunks _read_native_chunk and _read_native_exact cut out of the pipe are
\* the frames of the worker, every one once, whole and in order: wherever a
\* read or a deadline cuts the bytes, whatever becomes of the worker, and
\* whenever stop() comes.
THEOREM FramesAreIntact ==
    ASSUME OneClient
    PROVE  Spec => []FramesIntact
<1>1. IInv => FramesIntact  BY DEF IInv
<1> QED  BY <1>1, IInvHolds, PTL

\* The variables keep their types, a unit the live worker has written is
\* delivered, held or in the pipe, and neither the pipe nor native_buffer grows
\* without limit.
THEOREM NothingIsLost ==
    ASSUME OneClient
    PROVE  Spec => []Safe
<1>1. IInv => Safe
  <2> SUFFICES ASSUME IInv PROVE Safe
    OBVIOUS
  <2>1. Bounded  BY DEF IInv, LocalBounded, Bounded
  <2>2. PICK c : Readers = {c}  BY OneClient DEF OneClient
  <2>3. ASSUME proc = "live"
        PROVE  Len(chunks) * FrameUnits + Held + Len(pipe) = frames_written * FrameUnits + unit - 1
    <3>1. Delivered + Len(reader[c].header) + Len(InHand(c)) + Len(pipe) = Written
      BY <2>2, <2>3 DEF IInv, PipeNext, Taken
    <3>2. Held = Len(reader[c].header) + Len(InHand(c))
      <4>1. CASE reader[c].pc = "idle"
        <5>1. Len(reader[c].header) = 0 /\ InHand(c) = session.native_buffer /\ Busy = {}
          BY <2>2, <4>1 DEF IInv, HoldsNext, InHand, Busy
        <5>2. Held = Len(session.native_buffer)  BY <5>1 DEF Held
        <5>3. session.native_buffer \in Seq(Unit)  BY DEF IInv, TypeOK
        <5> QED  BY <5>1, <5>2, <5>3
      <4>2. CASE reader[c].pc # "idle"
        <5>1. Busy = {c}  BY <2>2, <4>2 DEF Busy
        <5>2. (CHOOSE q \in Busy : TRUE) = c  BY <5>1
        <5>3. InHand(c) = IF reader[c].pc = "late" THEN session.native_buffer ELSE reader[c].local
          BY <4>2 DEF InHand
        <5> QED  BY <5>1, <5>2, <5>3 DEF Held
      <4> QED  BY <4>1, <4>2
    <3>3. /\ Delivered \in Int /\ Len(reader[c].header) \in Int /\ Len(InHand(c)) \in Int
          /\ Len(pipe) \in Int
      <4>1. /\ reader[c].header \in Seq(Unit) /\ reader[c].local \in Seq(Unit)
            /\ session.native_buffer \in Seq(Unit) /\ pipe \in Seq(Unit) /\ Len(chunks) \in Nat
        BY <2>2 DEF IInv, TypeOK
      <4>2. InHand(c) \in Seq(Unit)  BY <4>1 DEF InHand
      <4> QED  BY <4>1, <4>2, Sizes DEF Delivered
    <3> QED  BY <3>1, <3>2, <3>3 DEF Delivered, Written
  <2> QED  BY <2>1, <2>3 DEF IInv, Safe, NothingLost
<1> QED  BY <1>1, IInvHolds, PTL
-----------------------------------------------------------------------------
(* The invariant of viewers                                                *)

\* Where a handler can be, and what it is there.
Fit(x) ==
    /\ x.pc # "idle" => x.role \in Roles
    /\ x.pc \in {"accept", "refused"} => x.role \in {"ws", "sweep_ws"}
    /\ x.pc \in {"call", "tune"} => x.role \in {"sweep_ws", "sweep_get"}
    /\ x.pc \in {"read", "resume"} => x.role \in Async
    /\ x.pc = "stop" => x.role \in {"sweep_ws", "sweep_stop"} /\ ~x.keep
    /\ x.pc = "end" => x.role # "sweep_get"
    /\ x.role = "probe" => ~x.keep
    /\ x.pc = "idle" \/ (x.role = "probe" /\ x.pc \in {"read", "resume"}) => x.left >= 1

Labelled(x) ==
    x.pc = "resume" /\ x.role \in {"sweep_ws", "sweep_get"} /\ x.chunk # None
        => x.chunk.center = sweep.point_index \/ x.chunk.stale \/ x.overtaken

\* What a handler knows of the stream and the sweep: each has begun when it
\* works on it, and is gone for good once it has stopped it or found it stopped.
Sees(x) ==
    /\ x.pc # "idle" /\ x.role \in {"ws", "probe", "stop"} => stream.state # "none"
    /\ x.pc # "idle" /\ x.role \in {"sweep_ws", "sweep_get", "sweep_stop"}
          => sweep.state \in {"listed", "gone"}
    /\ x.pc = "tune" => sweep.hops
    /\ x.pc = "end" => stream.state = "gone"
    /\ x.pc = "done" /\ x.role \in {"ws", "probe", "stop"} /\ ~x.keep => stream.state = "gone"
    /\ x.pc \in {"stop", "end", "done"} /\ x.role \in {"sweep_ws", "sweep_stop"} /\ ~x.keep
          => sweep.state = "gone"
    /\ Labelled(x)

HandlersSee == \A h \in Handlers : Fit(handler[h]) /\ Sees(handler[h])

\* Whom the cursors of a stream belong to.
Probing(x) == x.role = "probe" /\ x.pc \notin {"idle", "done"}
Keeps(x) == x.pc # "idle" /\ x.role = "ws" /\ (Registered => x.pc # "done")
CursorsOwned ==
    /\ stream.state = "none" => DOMAIN cursors = {} /\ ring = <<>>
    /\ \A c \in Handlers : c \in DOMAIN cursors => Keeps(handler[c])
    /\ "sweep" \in DOMAIN cursors => sweep.hops /\ sweep.state \in {"listed", "gone"}
    /\ "_default" \in DOMAIN cursors /\ Registered => \E h \in Handlers : Probing(handler[h])

\* A sweep that hops has a stream, which exists after its stop only until the
\* one that has stopped it goes on.
SourceBegun ==
    /\ sweep.state = "none" => ~sweep.hops
    /\ sweep.state = "starting" => sweep.hops
    /\ sweep.hops => stream.state # "none"

BeingStopped ==
    sweep.hops /\ Registered /\ sweep.state = "gone" => \E h \in Handlers : handler[h].pc = "stop"

\* The stream is tuned to the centre of its sweep, and so are the chunks it
\* holds, except between the two steps of a hop and after a hop that failed.
TunedRight ==
    \/ stream.tuned = sweep.point_index
    \/ sweep.hops /\ (sweep.status = "retuning" \/ stream.state = "gone")

RingRight ==
    sweep.hops /\ Registered => \A k \in 1 .. Len(ring) :
        ring[k].center = sweep.point_index \/ ring[k].stale \/ sweep.status = "retuning"

ViewersInv ==
    /\ ViewersTypeOK /\ HandlersSee /\ CursorsOwned
    /\ SourceBegun /\ BeingStopped /\ TunedRight /\ RingRight

-----------------------------------------------------------------------------
(* A step of the stream or of a handler                                    *)

\* What a step does to the stream and the sweep.
WorldGoesOn ==
    /\ stream.state # "none" => stream'.state # "none"
    /\ stream.state = "gone" => stream'.state = "gone"
    /\ sweep.state \in {"listed", "gone"} => sweep'.state \in {"listed", "gone"}
    /\ sweep.state = "gone" => sweep'.state = "gone"
    /\ sweep.hops => sweep'.hops
    /\ SourceBegun' /\ TunedRight' /\ RingRight'
    /\ sweep'.hops /\ Registered' /\ sweep'.state = "gone" =>
          \/ sweep.hops /\ Registered /\ sweep.state = "gone"
          \/ \E h \in Handlers : handler'[h].pc = "stop"

\* What it does to the chunks and the cursors, and to those of the handlers M.
CursorsGoOn(M) ==
    /\ stream'.state = "none" => DOMAIN cursors' = {} /\ ring' = <<>>
    /\ \A c \in Handlers : c \in DOMAIN cursors' => c \in DOMAIN cursors \cup M
    /\ "sweep" \in DOMAIN cursors' => sweep'.hops /\ sweep'.state \in {"listed", "gone"}
    /\ "_default" \in DOMAIN cursors' =>
          "_default" \in DOMAIN cursors \/ \E h \in Handlers : Probing(handler'[h])

\* What it does to a handler.
HandlerGoesOn(h) ==
    /\ Fit(handler'[h]) /\ Sees(handler[h])'
    /\ handler[h].pc = "stop" => handler'[h].pc = "stop" \/ ~(sweep'.hops /\ Registered')
    /\ Probing(handler[h]) => Probing(handler'[h]) \/ ~Registered'
    /\ h \in DOMAIN cursors' => Keeps(handler[h])'

LEMMA OneStep ==
    ASSUME ViewersInv, ViewersTypeOK', NEW M \in SUBSET Handlers, WorldGoesOn, CursorsGoOn(M),
           M = Handlers \/ sweep'.point_index = sweep.point_index,
           \A g \in Handlers : handler'[g] = handler[g] \/ g \in M,
           \A g \in M : HandlerGoesOn(g)
    PROVE  ViewersInv'
<1>1. /\ stream.state \in {"none", "registered", "gone"}
      /\ Registered' => Registered \/ stream.state = "none"
  BY DEF ViewersInv, ViewersTypeOK, StreamSession, Registered, WorldGoesOn
<1>2. HandlersSee'
  <2> SUFFICES ASSUME NEW g \in Handlers PROVE Fit(handler'[g]) /\ Sees(handler[g])'
    BY DEF HandlersSee
  <2>1. CASE g \in M  BY <2>1 DEF HandlerGoesOn
  <2>2. CASE g \notin M
    <3>1. Fit(handler[g]) /\ Sees(handler[g])  BY DEF ViewersInv, HandlersSee
    <3>2. handler'[g] = handler[g] /\ sweep'.point_index = sweep.point_index  BY <2>2
    <3>3. Labelled(handler[g])'  BY <3>1, <3>2 DEF Sees, Labelled
    <3>4. Sees(handler[g])'  BY <3>1, <3>2, <3>3 DEF Sees, WorldGoesOn
    <3> QED  BY <3>1, <3>2, <3>4
  <2> QED  BY <2>1, <2>2
<1>3. CursorsOwned'
  <2>1. \A c \in Handlers : c \in DOMAIN cursors' => Keeps(handler[c])'
    <3> SUFFICES ASSUME NEW c \in Handlers, c \in DOMAIN cursors' PROVE Keeps(handler[c])'
      OBVIOUS
    <3>1. CASE c \in M  BY <3>1 DEF HandlerGoesOn
    <3>2. CASE c \notin M
      <4>1. c \in DOMAIN cursors /\ handler'[c] = handler[c]  BY <3>2 DEF CursorsGoOn
      <4>2. Keeps(handler[c]) /\ stream.state # "none"
        BY <4>1 DEF ViewersInv, CursorsOwned
      <4> QED  BY <1>1, <4>1, <4>2 DEF Keeps
    <3> QED  BY <3>1, <3>2
  <2>2. ASSUME "_default" \in DOMAIN cursors', Registered'
        PROVE  \E h \in Handlers : Probing(handler'[h])
    <3>1. CASE "_default" \notin DOMAIN cursors  BY <2>2, <3>1 DEF CursorsGoOn
    <3>2. CASE "_default" \in DOMAIN cursors
      <4>1. Registered  BY <1>1, <2>2, <3>2 DEF ViewersInv, CursorsOwned
      <4>2. PICK h \in Handlers : Probing(handler[h])  BY <3>2, <4>1 DEF ViewersInv, CursorsOwned
      <4>3. CASE h \in M  BY <2>2, <4>2, <4>3 DEF HandlerGoesOn
      <4>4. CASE h \notin M  BY <4>2, <4>4
      <4> QED  BY <4>3, <4>4
    <3> QED  BY <3>1, <3>2
  <2>3. /\ stream'.state = "none" => DOMAIN cursors' = {} /\ ring' = <<>>
        /\ "sweep" \in DOMAIN cursors' => sweep'.hops /\ sweep'.state \in {"listed", "gone"}
    BY DEF CursorsGoOn
  <2> QED  BY <2>1, <2>2, <2>3 DEF CursorsOwned, Probing
<1>4. BeingStopped'
  <2> SUFFICES ASSUME sweep'.hops, Registered', sweep'.state = "gone"
               PROVE  \E h \in Handlers : handler'[h].pc = "stop"
    BY DEF BeingStopped
  <2>1. CASE sweep.hops /\ Registered /\ sweep.state = "gone"
    <3>1. PICK h \in Handlers : handler[h].pc = "stop"  BY <2>1 DEF ViewersInv, BeingStopped
    <3>2. CASE h \in M  BY <3>1, <3>2 DEF HandlerGoesOn
    <3>3. CASE h \notin M  BY <3>1, <3>3
    <3> QED  BY <3>2, <3>3
  <2> QED  BY <2>1 DEF WorldGoesOn
<1> QED  BY <1>2, <1>3, <1>4 DEF ViewersInv, WorldGoesOn

\* The stream, its chunks and cursors, and the sweep stay as they are.
LEMMA SameWorld ==
    ASSUME ViewersInv, UNCHANGED <<stream, ring, sweep>>
    PROVE  WorldGoesOn /\ sweep'.point_index = sweep.point_index
<1>1. SourceBegun' /\ TunedRight' /\ RingRight'
  BY DEF ViewersInv, SourceBegun, TunedRight, RingRight, Registered
<1> QED  BY <1>1 DEF WorldGoesOn, Registered

LEMMA WorldStill ==
    ASSUME ViewersInv, UNCHANGED <<stream, ring, cursors, sweep>>
    PROVE  /\ WorldGoesOn /\ \A M : CursorsGoOn(M)
           /\ sweep'.point_index = sweep.point_index
BY SameWorld DEF CursorsGoOn, ViewersInv, CursorsOwned

LEMMA InitViewersInv == ViewersInit => ViewersInv
<1> SUFFICES ASSUME ViewersInit PROVE ViewersInv
  OBVIOUS
<1>1. Points \in Nat \ {0} /\ Captures \in Nat \ {0} /\ MaxHeld \in Nat \ {0} /\ None \notin Handlers
  BY ViewersAssumption
<1>2. /\ ring = <<>> /\ cursors = [c \in {} |-> 0] /\ loop = None
      /\ handler = [h \in Handlers |-> Unused]
      /\ stream = [state |-> "none", alive |-> FALSE, status |-> "running", tuned |-> 0, pipe |-> 0,
                   crossed |-> FALSE]
      /\ sweep = [state |-> "none", hops |-> FALSE, status |-> "running", point_index |-> 0]
  BY DEF ViewersInit
<1>3. 0 \in 0 .. Points - 1 /\ Captures \in 0 .. Captures /\ Captures >= 1  BY <1>1
<1>4. /\ stream \in StreamSession /\ stream.state = "none" /\ stream.tuned = 0
      /\ sweep \in SweepSession /\ sweep.hops = FALSE /\ sweep.state = "none" /\ sweep.point_index = 0
  BY <1>2, <1>3 DEF StreamSession, SweepSession
<1>5. Unused \in Visit /\ Unused.pc = "idle" /\ Unused.keep = FALSE /\ Unused.left >= 1
  BY <1>3 DEF Unused, Visit
<1>6. ViewersTypeOK
  <2>1. ring \in Seq(Chunk) /\ Len(ring) = 0  BY <1>2
  <2>2. Len(ring) <= MaxHeld  BY <1>1, <2>1
  <2>3. \E C \in SUBSET Owner : cursors \in [C -> 0 .. Len(ring)]
    <3>1. cursors \in [{} -> 0 .. Len(ring)] /\ {} \in SUBSET Owner  BY <1>2
    <3> QED  BY <3>1
  <2>4. handler \in [Handlers -> Visit]  BY <1>2, <1>5
  <2> QED  BY <1>1, <1>2, <1>4, <2>1, <2>2, <2>3, <2>4 DEF ViewersTypeOK
<1>7. HandlersSee
  <2>1. Fit(Unused)  BY <1>5 DEF Fit
  <2>2. Sees(Unused)  BY <1>5 DEF Sees, Labelled
  <2> QED  BY <1>2, <2>1, <2>2 DEF HandlersSee
<1>8. CursorsOwned  BY <1>2, <1>4 DEF CursorsOwned
<1>9. SourceBegun /\ BeingStopped /\ TunedRight /\ RingRight
  BY <1>4 DEF SourceBegun, BeingStopped, TunedRight, RingRight
<1> QED  BY <1>6, <1>7, <1>8, <1>9 DEF ViewersInv

-----------------------------------------------------------------------------
(* Types of a step                                                         *)

CursorsTyped == \E C \in SUBSET Owner : cursors \in [C -> 0 .. Len(ring)]
LoopTyped ==
    /\ loop \in Handlers \cup {None}
    /\ loop # None => handler[loop].pc \in {"tune", "stop", "end"}

LEMMA ViewersTyped ==
    ASSUME ViewersTypeOK
    PROVE  /\ stream \in StreamSession /\ sweep \in SweepSession /\ ring \in Seq(Chunk)
           /\ Len(ring) \in Nat /\ Len(ring) <= MaxHeld /\ CursorsTyped /\ LoopTyped
           /\ handler \in [Handlers -> Visit] /\ \A h \in Handlers : handler[h] \in Visit
           /\ DOMAIN cursors \subseteq Owner /\ cursors = [c \in DOMAIN cursors |-> cursors[c]]
           /\ \A c \in DOMAIN cursors : cursors[c] \in 0 .. Len(ring)
           /\ Points \in Nat \ {0} /\ Captures \in Nat \ {0} /\ MaxHeld \in Nat \ {0}
           /\ None \notin Handlers
<1>1. PICK C \in SUBSET Owner : cursors \in [C -> 0 .. Len(ring)]  BY DEF ViewersTypeOK
<1>2. /\ DOMAIN cursors \subseteq Owner /\ cursors = [c \in DOMAIN cursors |-> cursors[c]]
      /\ \A c \in DOMAIN cursors : cursors[c] \in 0 .. Len(ring)
  BY <1>1
<1>3. ring \in Seq(Chunk) /\ Len(ring) <= MaxHeld /\ Len(ring) \in Nat  BY DEF ViewersTypeOK
<1>4. /\ stream \in StreamSession /\ sweep \in SweepSession /\ handler \in [Handlers -> Visit]
      /\ CursorsTyped /\ LoopTyped
  BY DEF ViewersTypeOK, CursorsTyped, LoopTyped
<1> QED  BY <1>2, <1>3, <1>4, ViewersAssumption

LEMMA ViewersTypedAgain ==
    ASSUME stream' \in StreamSession, sweep' \in SweepSession,
           ring' \in Seq(Chunk), Len(ring') <= MaxHeld, CursorsTyped',
           handler' \in [Handlers -> Visit], LoopTyped'
    PROVE  ViewersTypeOK'
BY DEF ViewersTypeOK, CursorsTyped, LoopTyped

\* A cursor is set.
LEMMA WithCursor ==
    ASSUME ViewersTypeOK, ring' = ring, NEW owner \in Owner, NEW position \in 0 .. Len(ring),
           cursors' = With(owner, position)
    PROVE  CursorsTyped' /\ DOMAIN cursors' = DOMAIN cursors \cup {owner}
<1>1. DOMAIN cursors \subseteq Owner /\ \A c \in DOMAIN cursors : cursors[c] \in 0 .. Len(ring)
  BY ViewersTyped
<1>2. cursors' \in [DOMAIN cursors \cup {owner} -> 0 .. Len(ring)]  BY <1>1 DEF With
<1> QED  BY <1>1, <1>2 DEF CursorsTyped

\* A cursor is released, unless the stream is gone.
LEMMA WithoutCursor ==
    ASSUME ViewersTypeOK, ring' = ring, NEW owner, cursors' = Without(owner)
    PROVE  /\ CursorsTyped' /\ DOMAIN cursors' \subseteq DOMAIN cursors
           /\ Registered => DOMAIN cursors' = DOMAIN cursors \ {owner}
<1>1. /\ DOMAIN cursors \subseteq Owner /\ \A c \in DOMAIN cursors : cursors[c] \in 0 .. Len(ring)
      /\ CursorsTyped
  BY ViewersTyped
<1>2. CASE Registered
  <2>1. cursors' \in [DOMAIN cursors \ {owner} -> 0 .. Len(ring)]  BY <1>1, <1>2 DEF Without
  <2> QED  BY <1>1, <2>1 DEF CursorsTyped
<1>3. CASE ~Registered
  <2>1. cursors' = cursors  BY <1>3 DEF Without
  <2> QED  BY <1>1, <1>3, <2>1 DEF CursorsTyped
<1> QED  BY <1>2, <1>3

LEMMA CursorsStill ==
    ASSUME ViewersTypeOK, UNCHANGED <<ring, cursors>>
    PROVE  CursorsTyped' /\ ring' \in Seq(Chunk) /\ Len(ring') <= MaxHeld
BY ViewersTyped DEF CursorsTyped

\* A handler goes to another place.
Places == {"idle", "accept", "refused", "call", "tune", "read", "resume", "leave", "stop", "end",
           "done"}

LEMMA VisitFields ==
    ASSUME NEW x \in Visit
    PROVE  /\ x.role \in Roles \cup {None} /\ x.keep \in BOOLEAN /\ x.pc \in Places
           /\ x.chunk \in Chunk \cup {None} /\ x.left \in 0 .. Captures /\ x.overtaken \in BOOLEAN
           /\ \A p \in Places : [x EXCEPT !.pc = p] \in Visit
           /\ \A p \in Places, r \in Roles, k \in BOOLEAN :
                 [x EXCEPT !.role = r, !.pc = p, !.keep = k] \in Visit
           /\ \A p \in Places, c \in Chunk \cup {None}, b \in BOOLEAN :
                 [x EXCEPT !.pc = p, !.chunk = c, !.overtaken = b] \in Visit
           /\ \A p \in Places, c \in Chunk \cup {None} : [x EXCEPT !.pc = p, !.chunk = c] \in Visit
           /\ \A p \in Places, n \in 0 .. Captures, c \in Chunk \cup {None}, b \in BOOLEAN :
                 [x EXCEPT !.pc = p, !.left = n, !.chunk = c, !.overtaken = b] \in Visit
           /\ \A b \in BOOLEAN : [x EXCEPT !.overtaken = b] \in Visit
<1>1. /\ x.role \in Roles \cup {None} /\ x.keep \in BOOLEAN /\ x.pc \in Places
      /\ x.chunk \in Chunk \cup {None} /\ x.left \in 0 .. Captures /\ x.overtaken \in BOOLEAN
  BY DEF Visit, Places
<1>2. \A p \in Places : [x EXCEPT !.pc = p] \in Visit
  BY DEF Visit, Places
<1>3. \A p \in Places, r \in Roles, k \in BOOLEAN :
         [x EXCEPT !.role = r, !.pc = p, !.keep = k] \in Visit
  BY DEF Visit, Places
<1>4. \A p \in Places, c \in Chunk \cup {None}, b \in BOOLEAN :
         [x EXCEPT !.pc = p, !.chunk = c, !.overtaken = b] \in Visit
  BY DEF Visit, Places
<1>5. \A p \in Places, c \in Chunk \cup {None} : [x EXCEPT !.pc = p, !.chunk = c] \in Visit
  BY DEF Visit, Places
<1>6. \A p \in Places, n \in 0 .. Captures, c \in Chunk \cup {None}, b \in BOOLEAN :
         [x EXCEPT !.pc = p, !.left = n, !.chunk = c, !.overtaken = b] \in Visit
  BY DEF Visit, Places
<1>7. \A b \in BOOLEAN : [x EXCEPT !.overtaken = b] \in Visit
  BY DEF Visit, Places
<1> QED  BY <1>1, <1>2, <1>3, <1>4, <1>5, <1>6, <1>7

LEMMA Visited ==
    ASSUME ViewersTypeOK, NEW h \in Handlers, NEW new \in Visit, handler' = [handler EXCEPT ![h] = new]
    PROVE  /\ handler' \in [Handlers -> Visit] /\ handler'[h] = new
           /\ \A g \in Handlers : handler'[g] = handler[g] \/ g \in {h}
           /\ \A g \in Handlers : g # h => handler'[g] = handler[g]
BY DEF ViewersTypeOK

LEMMA Went ==
    ASSUME ViewersTypeOK, NEW h \in Handlers, NEW p \in Places, Goto(h, p)
    PROVE  LET new == handler'[h] IN
           /\ new \in Visit /\ handler' = [handler EXCEPT ![h] = new]
           /\ new.pc = p /\ new.role = handler[h].role /\ new.keep = handler[h].keep
           /\ new.chunk = handler[h].chunk /\ new.left = handler[h].left
           /\ new.overtaken = handler[h].overtaken
<1>1. handler \in [Handlers -> Visit] /\ handler[h] \in Visit  BY ViewersTyped
<1>2. PICK new : new = [handler[h] EXCEPT !.pc = p]  OBVIOUS
<1>3. new \in Visit  BY <1>1, <1>2, VisitFields
<1>4. /\ new.pc = p /\ new.role = handler[h].role /\ new.keep = handler[h].keep
      /\ new.chunk = handler[h].chunk /\ new.left = handler[h].left
      /\ new.overtaken = handler[h].overtaken
  BY <1>1, <1>2 DEF Visit
<1>5. handler' = [handler EXCEPT ![h] = new]  BY <1>1, <1>2 DEF Goto
<1>6. handler'[h] = new  BY <1>1, <1>5
<1> QED  BY <1>3, <1>4, <1>5, <1>6

\* The loop, when a handler comes to a blocking call and when it leaves it.
LEMMA LoopBlocks ==
    ASSUME ViewersTypeOK, NEW h \in Handlers, BlockLoop(h), handler[h].pc \notin {"tune", "stop", "end"},
           handler'[h].pc \in {"tune", "stop", "end"},
           \A g \in Handlers : g # h => handler'[g].pc = handler[g].pc
    PROVE  LoopTyped'
BY ViewersTyped DEF LoopTyped, BlockLoop

LEMMA LoopFreed ==
    ASSUME ViewersTypeOK, NEW h \in Handlers, FreeLoop(h),
           \A g \in Handlers : g # h => handler'[g].pc = handler[g].pc
    PROVE  LoopTyped'
BY ViewersTyped DEF LoopTyped, FreeLoop

LEMMA LoopStill ==
    ASSUME ViewersTypeOK, NEW h \in Handlers, loop' = loop,
           handler[h].pc \notin {"tune", "stop", "end"} \/ handler'[h].pc \in {"tune", "stop", "end"},
           \A g \in Handlers : g # h => handler'[g].pc = handler[g].pc
    PROVE  LoopTyped'
BY ViewersTyped DEF LoopTyped

\* A handler goes on by itself.
LEMMA HandlerStep ==
    ASSUME ViewersInv, NEW h \in Handlers, NEW new \in Visit, handler' = [handler EXCEPT ![h] = new],
           UNCHANGED <<stream, ring, cursors, sweep, loop>>,
           handler[h].pc \notin {"tune", "stop", "end"}, Fit(new), Sees(new),
           Probing(handler[h]) => Probing(new),
           h \in DOMAIN cursors => Keeps(new)
    PROVE  ViewersInv'
<1>1. ViewersTypeOK  BY DEF ViewersInv
<1>2. /\ handler' \in [Handlers -> Visit] /\ handler'[h] = new
      /\ \A g \in Handlers : handler'[g] = handler[g] \/ g \in {h}
      /\ \A g \in Handlers : g # h => handler'[g] = handler[g]
  BY <1>1, Visited
<1>3. LoopTyped'  BY <1>1, <1>2, LoopStill
<1>4. ViewersTypeOK'  BY <1>1, <1>2, <1>3, CursorsStill, ViewersTyped, ViewersTypedAgain
<1>5. WorldGoesOn /\ CursorsGoOn({h}) /\ sweep'.point_index = sweep.point_index  BY WorldStill
<1>6. HandlerGoesOn(h)
  <2>1. Labelled(new)'  BY DEF Sees, Labelled
  <2>2. Sees(new)'  BY <2>1 DEF Sees
  <2>3. Sees(handler[h])'  BY <1>2, <2>2 DEF Sees, Labelled
  <2>4. h \in DOMAIN cursors' => Keeps(handler[h])'  BY <1>2 DEF Keeps, Registered
  <2> QED  BY <1>2, <2>3, <2>4 DEF HandlerGoesOn
<1> QED  BY <1>2, <1>4, <1>5, <1>6, OneStep

-----------------------------------------------------------------------------
(* Coming in, and the turns of a handler                                   *)

LEMMA HandlerSees ==
    ASSUME ViewersInv, NEW h \in Handlers
    PROVE  /\ Fit(handler[h]) /\ Sees(handler[h]) /\ handler[h] \in Visit /\ ViewersTypeOK
           /\ h \in DOMAIN cursors => Keeps(handler[h])
BY ViewersTyped DEF ViewersInv, HandlersSee, CursorsOwned

LEMMA GotoInv ==
    ASSUME ViewersInv, NEW h \in Handlers, NEW p \in {"refused", "call", "read", "leave"}, Goto(h, p),
           UNCHANGED <<stream, ring, cursors, sweep, loop>>,
           handler[h].pc \notin {"idle", "tune", "stop", "end", "done"},
           p = "refused" => handler[h].role \in {"ws", "sweep_ws"},
           p = "call" => handler[h].role \in {"sweep_ws", "sweep_get"},
           p = "read" => handler[h].role \in {"ws", "sweep_ws", "sweep_get"}
    PROVE  ViewersInv'
<1>1. Fit(handler[h]) /\ Sees(handler[h]) /\ (h \in DOMAIN cursors => Keeps(handler[h]))
      /\ ViewersTypeOK
  BY HandlerSees
<1>2. PICK new : /\ new \in Visit /\ handler' = [handler EXCEPT ![h] = new]
                 /\ new.pc = p /\ new.role = handler[h].role /\ new.keep = handler[h].keep
                 /\ new.left = handler[h].left
  <2>1. p \in Places  BY DEF Places
  <2> QED  BY <1>1, <2>1, Went
<1>3. Fit(new)  BY <1>1, <1>2 DEF Fit, Async
<1>4. Sees(new)  BY <1>1, <1>2 DEF Sees, Labelled
<1>5. Probing(handler[h]) => Probing(new)  BY <1>2 DEF Probing
<1>6. h \in DOMAIN cursors => Keeps(new)  BY <1>1, <1>2 DEF Keeps
<1> QED  BY <1>2, <1>3, <1>4, <1>5, <1>6, HandlerStep

LEMMA TurnInv ==
    ASSUME ViewersInv, NEW h \in Handlers,
           Accept(h) \/ AcceptFails(h) \/ CallMissed(h) \/ CallReads(h) \/ ResumeEmpty(h)
    PROVE  ViewersInv'
<1>1. Fit(handler[h])  BY HandlerSees
<1>2. CASE Accept(h)
  <2>1. handler[h].role \in {"ws", "sweep_ws"}  BY <1>1, <1>2 DEF Accept, Runs, Fit
  <2>2. PICK p \in {"read", "call"} : Goto(h, p) /\ (p = "call" => handler[h].role # "ws")
    BY <1>2 DEF Accept
  <2> QED  BY <1>2, <2>1, <2>2, GotoInv DEF Accept, Runs
<1>3. CASE AcceptFails(h)
  BY <1>1, <1>3, GotoInv DEF AcceptFails, Runs, Fit
<1>4. CASE CallMissed(h)
  BY <1>4, GotoInv DEF CallMissed, Runs
<1>5. CASE CallReads(h)
  <2>1. handler[h].role \in {"ws", "sweep_ws", "sweep_get"}  BY <1>1, <1>5 DEF CallReads, Runs, Fit
  <2> QED  BY <1>5, <2>1, GotoInv DEF CallReads, Runs
<1>6. CASE ResumeEmpty(h)
  <2>1. PICK p \in {"read", "leave"} : Goto(h, p) /\ (p = "read" => handler[h].role = "ws")
    BY <1>6 DEF ResumeEmpty
  <2> QED  BY <1>6, <2>1, GotoInv DEF ResumeEmpty, Runs
<1> QED  BY <1>2, <1>3, <1>4, <1>5, <1>6

\* A new handler, of a stream that exists or of a sweep that is listed.
ComesInAt(role, p, keep) ==
    /\ p \in {"accept", "call", "leave", "read"} /\ keep \in BOOLEAN
    /\ p = "accept" => role \in {"ws", "sweep_ws"}
    /\ p = "call" => role = "sweep_get"
    /\ p = "read" => role = "probe"
    /\ role = "probe" => ~keep

Newcomer(h, role, p, new) ==
    /\ handler[h].pc = "idle" /\ h \notin DOMAIN cursors
    /\ new \in Visit /\ handler' = [handler EXCEPT ![h] = new]
    /\ new.pc = p /\ new.role = role /\ Fit(new)

LEMMA Entered ==
    ASSUME ViewersInv, NEW h \in Handlers, NEW role, NEW p, NEW keep, Enter(h, role, p, keep),
           ComesInAt(role, p, keep)
    PROVE  \E new : Newcomer(h, role, p, new)
<1>1. /\ Fit(handler[h]) /\ handler[h] \in Visit /\ ViewersTypeOK
      /\ (h \in DOMAIN cursors => Keeps(handler[h]))
  BY HandlerSees
<1>2. /\ handler[h].pc = "idle" /\ role \in Roles /\ p \in Places
      /\ handler' = [handler EXCEPT ![h].role = role, ![h].pc = p, ![h].keep = keep]
  BY DEF Enter, Places, ComesInAt
<1>3. h \notin DOMAIN cursors  BY <1>1, <1>2 DEF Keeps
<1>4. PICK new : new = [handler[h] EXCEPT !.role = role, !.pc = p, !.keep = keep]  OBVIOUS
<1>5. new \in Visit
  <2>1. keep \in BOOLEAN  BY DEF ComesInAt
  <2> QED  BY <1>1, <1>2, <1>4, <2>1, VisitFields
<1>6. new.pc = p /\ new.role = role /\ new.keep = keep /\ new.left = handler[h].left
  BY <1>1, <1>2, <1>4 DEF Visit
<1>7. handler \in [Handlers -> Visit]  BY <1>1, ViewersTyped
<1>8. handler' = [handler EXCEPT ![h] = new]  BY <1>2, <1>4, <1>7
<1>9. Fit(new)  BY <1>1, <1>2, <1>6 DEF Fit, Async, ComesInAt
<1> QED  BY <1>2, <1>3, <1>5, <1>6, <1>8, <1>9 DEF Newcomer

LEMMA EnterInv ==
    ASSUME ViewersInv, NEW h \in Handlers, SendRequest(h) \/ \E keep \in BOOLEAN : ConnectSweep(h, keep)
    PROVE  ViewersInv'
<1> DEFINE Comes(role, p, keep) ==
          /\ Enter(h, role, p, keep) /\ ComesInAt(role, p, keep)
          /\ role \in {"sweep_get", "sweep_stop", "stop", "sweep_ws"}
          /\ role = "stop" => Registered
          /\ role # "stop" => sweep.state = "listed"
          /\ p \in {"accept", "call", "leave"}
<1>1. PICK role, p, keep : Comes(role, p, keep)
  <2>1. ASSUME NEW keep \in BOOLEAN, ConnectSweep(h, keep)
        PROVE  Comes("sweep_ws", "accept", keep)
    BY <2>1 DEF ConnectSweep, ComesInAt
  <2>2. SendRequest(h) => \/ Comes("sweep_get", "call", FALSE)
                          \/ Comes("sweep_stop", "leave", FALSE)
                          \/ Comes("stop", "leave", FALSE)
    BY DEF SendRequest, ComesInAt
  <2> HIDE DEF Comes
  <2> QED  BY <2>1, <2>2
<1>2. PICK new : Newcomer(h, role, p, new)  BY <1>1, Entered
<1>3. Sees(new)  BY <1>1, <1>2 DEF Newcomer, Sees, Labelled, Registered
<1>4. Probing(handler[h]) => Probing(new)  BY <1>2 DEF Newcomer, Probing
<1>5. UNCHANGED <<stream, ring, cursors, sweep, loop>>  BY DEF SendRequest, ConnectSweep
<1> QED  BY <1>2, <1>3, <1>4, <1>5, HandlerStep DEF Newcomer

\* A chunk is sent, or cannot be.
LEMMA SentInv ==
    ASSUME ViewersInv, NEW h \in Handlers, ResumeChunk(h) \/ SendFails(h)
    PROVE  ViewersInv'
<1>1. /\ Fit(handler[h]) /\ Sees(handler[h]) /\ handler[h] \in Visit /\ ViewersTypeOK
      /\ (h \in DOMAIN cursors => Keeps(handler[h]))
  BY HandlerSees
<1>2. handler[h].pc = "resume" /\ UNCHANGED <<stream, ring, cursors, sweep, loop>>
  BY DEF ResumeChunk, SendFails, Runs
<1>3. /\ handler[h].left \in 0 .. Captures /\ Captures \in Nat /\ handler[h].role \in Async
      /\ handler[h].role = "probe" => handler[h].left >= 1
      /\ handler \in [Handlers -> Visit]
  BY <1>1, <1>2, VisitFields, ViewersTyped DEF Fit
<1>4. PICK p \in {"read", "call", "leave"}, n \in 0 .. Captures :
         /\ handler' = [handler EXCEPT ![h] = [handler[h] EXCEPT !.pc = p, !.left = n, !.chunk = None,
                                                                 !.overtaken = FALSE]]
         /\ p = "call" => handler[h].role = "sweep_ws"
         /\ p = "read" /\ handler[h].role = "probe" => n >= 1
  <2>1. CASE ResumeChunk(h)
    <3>1. PICK p, n :
             /\ p = CASE handler[h].role = "ws" -> "read"
                      [] handler[h].role = "sweep_ws" -> "call"
                      [] handler[h].role = "probe" /\ handler[h].left > 1 -> "read"
                      [] OTHER -> "leave"
             /\ n = IF handler[h].role = "probe" THEN handler[h].left - 1 ELSE handler[h].left
             /\ handler' = [handler EXCEPT ![h].pc = p, ![h].left = n, ![h].chunk = None,
                                           ![h].overtaken = FALSE]
      BY <2>1 DEF ResumeChunk
    <3>2. n \in 0 .. Captures /\ (handler[h].role = "probe" /\ handler[h].left > 1 => n >= 1)
      BY <1>3, <3>1
    <3>3. /\ p \in {"read", "call", "leave"}
          /\ p = "call" => handler[h].role = "sweep_ws"
          /\ p = "read" /\ handler[h].role = "probe" => handler[h].left > 1
      BY <3>1
    <3>4. handler' = [handler EXCEPT ![h] = [handler[h] EXCEPT !.pc = p, !.left = n, !.chunk = None,
                                                               !.overtaken = FALSE]]
      BY <1>3, <3>1
    <3> QED  BY <3>2, <3>3, <3>4
  <2>2. CASE SendFails(h)
    <3>1. handler' = [handler EXCEPT ![h] = [handler[h] EXCEPT !.pc = "leave", !.chunk = None,
                                                               !.overtaken = FALSE]]
      BY <1>3, <2>2 DEF SendFails
    <3>2. [handler[h] EXCEPT !.pc = "leave", !.chunk = None, !.overtaken = FALSE]
             = [handler[h] EXCEPT !.pc = "leave", !.left = handler[h].left, !.chunk = None,
                                  !.overtaken = FALSE]
      BY <1>1 DEF Visit
    <3> QED  BY <1>3, <3>1, <3>2
  <2> QED  BY <2>1, <2>2
<1>5. PICK new : new = [handler[h] EXCEPT !.pc = p, !.left = n, !.chunk = None, !.overtaken = FALSE]
  OBVIOUS
<1>6. new \in Visit
  <2>1. p \in Places  BY DEF Places
  <2> QED  BY <1>1, <1>5, <2>1, VisitFields
<1>7. /\ new.pc = p /\ new.left = n /\ new.role = handler[h].role /\ new.keep = handler[h].keep
  BY <1>1, <1>5 DEF Visit
<1>8. Fit(new)  BY <1>1, <1>2, <1>3, <1>4, <1>7 DEF Fit
<1>9. Sees(new)  BY <1>1, <1>2, <1>7 DEF Sees, Labelled
<1>10. Probing(handler[h]) => Probing(new)  BY <1>7 DEF Probing
<1>11. h \in DOMAIN cursors => Keeps(new)  BY <1>1, <1>7 DEF Keeps
<1> QED  BY <1>2, <1>4, <1>5, <1>6, <1>8, <1>9, <1>10, <1>11, HandlerStep

-----------------------------------------------------------------------------
(* The stream, its process and its start                                   *)

LEMMA StreamFields ==
    ASSUME NEW s \in StreamSession
    PROVE  /\ s.state \in {"none", "registered", "gone"} /\ s.alive \in BOOLEAN
           /\ s.status \in {"running", "retuning", "stopped"}
           /\ s.tuned \in 0 .. Points - 1 /\ s.pipe \in 0 .. Points - 1
BY DEF StreamSession

\* A start: the session is registered with a live process, tuned as it was.
LEMMA StartedIs ==
    ASSUME ViewersTypeOK
    PROVE  Started \in StreamSession /\ Started.state = "registered" /\ Started.tuned = stream.tuned
BY ViewersTyped DEF Started, StreamSession

\* Steps that leave the handlers alone.
LEMMA StreamStep ==
    ASSUME ViewersInv, UNCHANGED <<handler, loop>>, WorldGoesOn, CursorsGoOn({}),
           stream' \in StreamSession, sweep' \in SweepSession,
           ring' \in Seq(Chunk), Len(ring') <= MaxHeld, CursorsTyped',
           sweep'.point_index = sweep.point_index
    PROVE  ViewersInv'
<1>1. ViewersTypeOK'
  BY ViewersTyped, ViewersTypedAgain DEF ViewersInv, LoopTyped
<1>2. \A g \in Handlers : handler'[g] = handler[g]  OBVIOUS
<1> QED  BY <1>1, <1>2, OneStep

LEMMA StreamBegins ==
    ASSUME ViewersInv, stream.state = "none", stream' = Started, UNCHANGED <<ring, cursors, sweep>>
    PROVE  /\ stream' \in StreamSession /\ stream'.state = "registered" /\ WorldGoesOn
           /\ \A M : CursorsGoOn(M)
<1>1. stream' \in StreamSession /\ stream'.state = "registered" /\ stream'.tuned = stream.tuned
  BY StartedIs DEF ViewersInv
<1>2. ~sweep.hops  BY DEF ViewersInv, SourceBegun
<1>3. SourceBegun' /\ TunedRight' /\ RingRight'
  BY <1>1, <1>2 DEF ViewersInv, SourceBegun, TunedRight, RingRight
<1>4. WorldGoesOn  BY <1>1, <1>2, <1>3 DEF WorldGoesOn
<1>5. \A M : CursorsGoOn(M)  BY <1>1 DEF CursorsGoOn, ViewersInv, CursorsOwned
<1> QED  BY <1>1, <1>4, <1>5

LEMMA StartStreamInv == ViewersInv /\ StartStream => ViewersInv'
<1> SUFFICES ASSUME ViewersInv, StartStream PROVE ViewersInv'
  OBVIOUS
<1>1. /\ stream.state = "none" /\ stream' = Started
      /\ UNCHANGED <<ring, cursors, sweep, handler, loop>>
  BY DEF StartStream
<1>2. stream' \in StreamSession /\ WorldGoesOn /\ CursorsGoOn({})  BY <1>1, StreamBegins
<1> QED  BY <1>1, <1>2, StreamStep, ViewersTyped, CursorsStill DEF ViewersInv

LEMMA StartSweepInv == ViewersInv /\ StartSweep => ViewersInv'
<1> SUFFICES ASSUME ViewersInv, StartSweep PROVE ViewersInv'
  OBVIOUS
<1>1. /\ stream.state = "none" /\ sweep.state = "none" /\ UNCHANGED <<ring, cursors, handler, loop>>
      /\ stream' \in StreamSession /\ stream'.state = "registered" /\ stream'.tuned = stream.tuned
  BY StartedIs DEF StartSweep, ViewersInv
<1>2. /\ sweep' \in SweepSession /\ sweep'.state = "starting" /\ sweep'.hops
      /\ sweep'.point_index = sweep.point_index
  <2>1. sweep \in SweepSession  BY ViewersTyped DEF ViewersInv
  <2>2. sweep' = [sweep EXCEPT !.state = "starting", !.hops = TRUE]  BY DEF StartSweep
  <2> QED  BY <2>1, <2>2 DEF SweepSession
<1>3. ~sweep.hops /\ ring = <<>> /\ DOMAIN cursors = {}
  BY <1>1 DEF ViewersInv, SourceBegun, CursorsOwned
<1>4. SourceBegun' /\ TunedRight' /\ RingRight'
  <2>1. Len(ring') = 0  BY <1>1, <1>3
  <2>2. stream.tuned = sweep.point_index  BY <1>3 DEF ViewersInv, TunedRight
  <2> QED  BY <1>1, <1>2, <2>1, <2>2 DEF SourceBegun, TunedRight, RingRight
<1>5. WorldGoesOn  BY <1>1, <1>2, <1>3, <1>4 DEF WorldGoesOn
<1>6. CursorsGoOn({})  BY <1>1, <1>3 DEF CursorsGoOn
<1> QED  BY <1>1, <1>2, <1>5, <1>6, StreamStep, ViewersTyped, CursorsStill DEF ViewersInv

LEMMA ListSweepInv == ViewersInv /\ ListSweep => ViewersInv'
<1> SUFFICES ASSUME ViewersInv, ListSweep PROVE ViewersInv'
  OBVIOUS
<1>1. ViewersTypeOK /\ sweep \in SweepSession /\ sweep.state = "starting" /\ sweep.hops
      /\ UNCHANGED <<stream, ring, handler, loop>> /\ stream.state # "none"
  BY ViewersTyped DEF ViewersInv, SourceBegun, ListSweep
<1>2. /\ sweep' \in SweepSession /\ sweep'.hops = sweep.hops /\ sweep'.status = sweep.status
      /\ sweep'.state = IF Registered THEN "listed" ELSE "gone"
      /\ sweep'.point_index = sweep.point_index
  <2>1. PICK s \in {"listed", "gone"} : /\ s = IF Registered THEN "listed" ELSE "gone"
                                        /\ sweep' = [sweep EXCEPT !.state = s]
    BY DEF ListSweep
  <2> QED  BY <1>1, <2>1 DEF SweepSession
<1>3. CursorsTyped' /\ DOMAIN cursors' \subseteq DOMAIN cursors \cup {"sweep"}
  <2>1. CASE Registered
    <3>1. cursors' = With("sweep", 0) /\ "sweep" \in Owner /\ 0 \in 0 .. Len(ring)
      BY <1>1, <2>1, ViewersTyped DEF ListSweep, Owner
    <3> QED  BY <1>1, <3>1, WithCursor
  <2>2. CASE ~Registered
    BY <1>1, <2>2, CursorsStill DEF ListSweep
  <2> QED  BY <2>1, <2>2
<1>4. SourceBegun' /\ TunedRight' /\ RingRight'
  BY <1>1, <1>2 DEF ViewersInv, SourceBegun, TunedRight, RingRight, Registered
<1>5. WorldGoesOn  BY <1>1, <1>2, <1>4 DEF WorldGoesOn, Registered
<1>6. CursorsGoOn({})
  <2>1. "sweep" \notin Handlers  BY ViewersAssumption
  <2>2. sweep'.hops /\ sweep'.state \in {"listed", "gone"}  BY <1>1, <1>2
  <2> QED  BY <1>1, <1>3, <2>1, <2>2 DEF CursorsGoOn
<1> QED  BY <1>1, <1>2, <1>3, <1>5, <1>6, StreamStep, ViewersTyped

LEMMA StartNativeSweepInv == ViewersInv /\ StartNativeSweep => ViewersInv'
<1> SUFFICES ASSUME ViewersInv, StartNativeSweep PROVE ViewersInv'
  OBVIOUS
<1>1. ViewersTypeOK /\ sweep \in SweepSession /\ sweep.state = "none" /\ ~sweep.hops
      /\ UNCHANGED <<stream, ring, cursors, handler, loop>>
  BY ViewersTyped DEF ViewersInv, SourceBegun, StartNativeSweep
<1>2. /\ sweep' \in SweepSession /\ sweep'.hops = sweep.hops /\ sweep'.status = sweep.status
      /\ sweep'.state = "listed" /\ sweep'.point_index = sweep.point_index
  BY <1>1 DEF StartNativeSweep, SweepSession
<1>3. SourceBegun' /\ TunedRight' /\ RingRight'
  BY <1>1, <1>2 DEF ViewersInv, SourceBegun, TunedRight, RingRight
<1>4. WorldGoesOn  BY <1>1, <1>2, <1>3 DEF WorldGoesOn
<1>5. CursorsGoOn({})  BY <1>1, <1>2 DEF CursorsGoOn, ViewersInv, CursorsOwned
<1> QED  BY <1>1, <1>2, <1>4, <1>5, StreamStep, ViewersTyped, CursorsStill

\* The process and its reader thread: the tuning stays.
LEMMA ProcessInvStill ==
    ASSUME ViewersInv, ProcessExits \/ ReaderReacts
    PROVE  ViewersInv'
<1>1. ViewersTypeOK /\ stream \in StreamSession /\ UNCHANGED <<ring, cursors, sweep, handler, loop>>
  BY ViewersTyped DEF ViewersInv, ProcessExits, ReaderReacts
<1>2. /\ stream' \in StreamSession /\ stream'.state = stream.state /\ stream'.tuned = stream.tuned
  <2>1. CASE ProcessExits  BY <1>1, <2>1 DEF ProcessExits, StreamSession
  <2>2. CASE ReaderReacts  BY <1>1, <2>2 DEF ReaderReacts, StreamSession
  <2> QED  BY <2>1, <2>2
<1>3. SourceBegun' /\ TunedRight' /\ RingRight'
  BY <1>1, <1>2 DEF ViewersInv, SourceBegun, TunedRight, RingRight, Registered
<1>4. WorldGoesOn  BY <1>1, <1>2, <1>3 DEF WorldGoesOn, Registered
<1>5. CursorsGoOn({})  BY <1>1, <1>2 DEF CursorsGoOn, ViewersInv, CursorsOwned
<1> QED  BY <1>1, <1>2, <1>4, <1>5, StreamStep, ViewersTyped, CursorsStill

LEMMA DeliverInv == ViewersInv /\ Deliver => ViewersInv'
<1> SUFFICES ASSUME ViewersInv, Deliver PROVE ViewersInv'
  OBVIOUS
<1>1. /\ ViewersTypeOK /\ stream \in StreamSession /\ Registered /\ Len(ring) < MaxHeld
      /\ UNCHANGED <<cursors, sweep, handler, loop>> /\ ring \in Seq(Chunk)
      /\ Len(ring) \in Nat /\ MaxHeld \in Nat
  BY ViewersTyped DEF ViewersInv, Deliver
<1>2. PICK new : /\ new = [center |-> stream.pipe, stale |-> stream.pipe # stream.tuned]
                 /\ ring' = Append(ring, new)
  BY DEF Deliver
<1>3. new \in Chunk /\ new.center = stream.pipe /\ (new.stale \/ stream.pipe = stream.tuned)
  <2>1. stream.pipe \in 0 .. Points - 1 /\ (stream.pipe # stream.tuned) \in BOOLEAN
    BY <1>1, StreamFields
  <2> QED  BY <1>2, <2>1 DEF Chunk
<1>4. /\ ring' \in Seq(Chunk) /\ Len(ring') = Len(ring) + 1 /\ ring'[Len(ring) + 1] = new
      /\ \A k \in 1 .. Len(ring) : ring'[k] = ring[k]
  BY <1>1, <1>2, <1>3, AppendProperties
<1>5. stream' \in StreamSession /\ stream'.state = stream.state /\ stream'.tuned = stream.tuned
  BY <1>1 DEF Deliver, StreamSession
<1>6. CursorsTyped'
  <2>1. PICK C \in SUBSET Owner : cursors \in [C -> 0 .. Len(ring)]
    BY <1>1, ViewersTyped DEF CursorsTyped
  <2>2. 0 .. Len(ring) \subseteq 0 .. Len(ring')  BY <1>1, <1>4
  <2>3. cursors' \in [C -> 0 .. Len(ring')]  BY <1>1, <2>1, <2>2
  <2> QED  BY <2>3 DEF CursorsTyped
<1>7. RingRight'
  <2> SUFFICES ASSUME sweep.hops, NEW k \in 1 .. Len(ring')
               PROVE  ring'[k].center = sweep.point_index \/ ring'[k].stale \/ sweep.status = "retuning"
    BY <1>1 DEF RingRight
  <2>1. CASE k \in 1 .. Len(ring)  BY <1>1, <1>4, <2>1 DEF ViewersInv, RingRight
  <2>2. CASE k = Len(ring) + 1
    <3>1. stream.tuned = sweep.point_index \/ sweep.status = "retuning"
      BY <1>1 DEF ViewersInv, TunedRight, Registered
    <3> QED  BY <1>3, <1>4, <2>2, <3>1
  <2> QED  BY <1>1, <1>4, <2>1, <2>2
<1>8. SourceBegun' /\ TunedRight'
  BY <1>1, <1>5 DEF ViewersInv, SourceBegun, TunedRight
<1>9. WorldGoesOn  BY <1>1, <1>5, <1>7, <1>8 DEF WorldGoesOn, Registered
<1>10. CursorsGoOn({})
  <2>1. stream'.state # "none"  BY <1>1, <1>5 DEF Registered
  <2> QED  BY <1>1, <2>1 DEF CursorsGoOn, ViewersInv, CursorsOwned
<1>11. Len(ring') <= MaxHeld  BY <1>1, <1>4
<1> QED  BY <1>1, <1>4, <1>5, <1>6, <1>9, <1>10, <1>11, StreamStep, ViewersTyped

-----------------------------------------------------------------------------
(* A handler that acts on the stream, its cursors or the sweep             *)

WorldTyped ==
    /\ stream' \in StreamSession /\ sweep' \in SweepSession
    /\ ring' \in Seq(Chunk) /\ Len(ring') <= MaxHeld /\ CursorsTyped' /\ LoopTyped'

MovesTo(h, new) ==
    /\ new \in Visit /\ handler' = [handler EXCEPT ![h] = new] /\ Fit(new) /\ Sees(new)'
    /\ handler[h].pc = "stop" => new.pc = "stop" \/ ~(sweep'.hops /\ Registered')
    /\ Probing(handler[h]) => Probing(new) \/ ~Registered'
    /\ h \in DOMAIN cursors' => Keeps(new)'

LEMMA HandlerMoves ==
    ASSUME ViewersInv, NEW h \in Handlers, NEW new, MovesTo(h, new), WorldTyped, WorldGoesOn,
           CursorsGoOn({h}), sweep'.point_index = sweep.point_index
    PROVE  ViewersInv'
<1>1. ViewersTypeOK /\ new \in Visit  BY DEF ViewersInv, MovesTo
<1>2. /\ handler' \in [Handlers -> Visit] /\ handler'[h] = new
      /\ \A g \in Handlers : handler'[g] = handler[g] \/ g \in {h}
  BY <1>1, Visited DEF MovesTo
<1>3. ViewersTypeOK'  BY <1>2, ViewersTypedAgain DEF WorldTyped
<1>4. HandlerGoesOn(h)
  <2>1. Sees(handler[h])'  BY <1>2 DEF MovesTo, Sees, Labelled
  <2>2. h \in DOMAIN cursors' => Keeps(handler[h])'  BY <1>2 DEF MovesTo, Keeps
  <2> QED  BY <1>2, <2>1, <2>2 DEF MovesTo, HandlerGoesOn
<1> QED  BY <1>2, <1>3, <1>4, OneStep

\* The pcs of the others, when one handler goes on.
LEMMA OthersStill ==
    ASSUME ViewersTypeOK, NEW h \in Handlers, NEW new \in Visit, handler' = [handler EXCEPT ![h] = new]
    PROVE  handler'[h] = new /\ \A g \in Handlers : g # h => handler'[g].pc = handler[g].pc
BY Visited

LEMMA ProbeBeginsInv ==
    ASSUME ViewersInv, NEW h \in Handlers, ProbeBegins(h)
    PROVE  ViewersInv'
<1>1. /\ stream.state = "none" /\ stream' = Started /\ UNCHANGED <<ring, cursors, sweep, loop>>
      /\ Enter(h, "probe", "read", FALSE) /\ ViewersTypeOK
  BY DEF ProbeBegins, ViewersInv
<1>2. PICK new : Newcomer(h, "probe", "read", new)
  <2>1. ComesInAt("probe", "read", FALSE)  BY DEF ComesInAt
  <2> QED  BY <1>1, <2>1, Entered
<1>3. /\ stream' \in StreamSession /\ stream'.state = "registered" /\ WorldGoesOn
      /\ CursorsGoOn({h})
  BY <1>1, StreamBegins
<1>4. LoopTyped'  BY <1>1, <1>2, OthersStill, LoopStill DEF Newcomer
<1>5. WorldTyped  BY <1>1, <1>3, <1>4, CursorsStill, ViewersTyped DEF WorldTyped
<1>6. Sees(new)'  BY <1>2, <1>3 DEF Newcomer, Sees, Labelled
<1>7. MovesTo(h, new)  BY <1>1, <1>2, <1>6 DEF Newcomer, MovesTo, Probing
<1> QED  BY <1>1, <1>3, <1>5, <1>7, HandlerMoves

LEMMA ConnectInv ==
    ASSUME ViewersInv, NEW h \in Handlers, NEW keep \in BOOLEAN, Connect(h, keep)
    PROVE  ViewersInv'
<1>1. /\ Registered /\ UNCHANGED <<stream, ring, sweep, loop>> /\ Enter(h, "ws", "accept", keep)
      /\ ViewersTypeOK
  BY DEF Connect, ViewersInv
<1>2. PICK new : Newcomer(h, "ws", "accept", new)
  <2>1. ComesInAt("ws", "accept", keep)  BY DEF ComesInAt
  <2> QED  BY <1>1, <2>1, Entered
<1>3. CursorsTyped' /\ DOMAIN cursors' = DOMAIN cursors \cup {h}
  <2>1. PICK start \in {0, Len(ring)} : cursors' = With(h, start)  BY DEF Connect
  <2>2. start \in 0 .. Len(ring) /\ h \in Owner  BY <1>1, <2>1, ViewersTyped DEF Owner
  <2> QED  BY <1>1, <2>1, <2>2, WithCursor
<1>4. WorldGoesOn /\ sweep'.point_index = sweep.point_index  BY <1>1, SameWorld
<1>5. CursorsGoOn({h})
  <2>1. h \notin {"sweep", "_default"}  BY ViewersAssumption
  <2> QED  BY <1>1, <1>3, <2>1 DEF CursorsGoOn, ViewersInv, CursorsOwned, Registered
<1>6. LoopTyped'  BY <1>1, <1>2, OthersStill, LoopStill DEF Newcomer
<1>7. WorldTyped  BY <1>1, <1>3, <1>6, ViewersTyped DEF WorldTyped
<1>8. Sees(new)'  BY <1>1, <1>2 DEF Newcomer, Sees, Labelled, Registered
<1>9. Keeps(new)'  BY <1>2 DEF Newcomer, Keeps
<1>10. MovesTo(h, new)  BY <1>2, <1>8, <1>9 DEF Newcomer, MovesTo, Probing
<1> QED  BY <1>4, <1>5, <1>7, <1>10, HandlerMoves

-----------------------------------------------------------------------------
(* A hop                                                                   *)

\* What a handler has seen, it still sees after any step, but for the label of
\* the chunk it holds.
LEMMA SeesOn ==
    ASSUME NEW x, Sees(x), WorldGoesOn, Labelled(x)'
    PROVE  Sees(x)'
BY DEF Sees, WorldGoesOn

\* Another handler, while one hops: overtaken when it waits with a chunk.
LEMMA Overtaken ==
    ASSUME ViewersInv, NEW g \in Handlers, NEW new,
           new = [handler[g] EXCEPT !.overtaken = @ \/ handler[g].pc = "resume"],
           WorldGoesOn, cursors' = cursors, handler'[g] = new,
           stream'.state = stream.state
    PROVE  new \in Visit /\ new.pc = handler[g].pc /\ HandlerGoesOn(g)
<1>1. /\ Fit(handler[g]) /\ Sees(handler[g]) /\ handler[g] \in Visit
      /\ (g \in DOMAIN cursors => Keeps(handler[g]))
  BY HandlerSees
<1>2. PICK b \in BOOLEAN : /\ new = [handler[g] EXCEPT !.overtaken = b]
                           /\ handler[g].pc = "resume" => b
  <2>1. (handler[g].overtaken \/ handler[g].pc = "resume") \in BOOLEAN  OBVIOUS
  <2> QED  BY <2>1
<1>3. new \in Visit  BY <1>1, <1>2, VisitFields
<1>4. /\ new.pc = handler[g].pc /\ new.role = handler[g].role /\ new.keep = handler[g].keep
      /\ new.left = handler[g].left /\ new.overtaken = b
  BY <1>1, <1>2 DEF Visit
<1>5. Fit(new)  BY <1>1, <1>4 DEF Fit
<1>6. Labelled(new)'  BY <1>2, <1>4 DEF Labelled
<1>7. Sees(new)  BY <1>1, <1>2, <1>4 DEF Sees, Labelled
<1>8. Sees(new)'  BY <1>6, <1>7, SeesOn
<1>9. Sees(handler[g])'  BY <1>8 DEF Sees, Labelled
<1>10. g \in DOMAIN cursors' => Keeps(handler[g])'  BY <1>1, <1>4 DEF Keeps, Registered
<1> QED  BY <1>3, <1>4, <1>5, <1>9, <1>10 DEF HandlerGoesOn, Probing

LEMMA AdvanceInv ==
    ASSUME ViewersInv, NEW h \in Handlers, Advance(h)
    PROVE  ViewersInv'
<1>1. /\ Fit(handler[h]) /\ Sees(handler[h]) /\ handler[h] \in Visit /\ ViewersTypeOK
      /\ h \in DOMAIN cursors => Keeps(handler[h])
      /\ stream \in StreamSession /\ sweep \in SweepSession /\ Points \in Nat \ {0}
  BY HandlerSees, ViewersTyped
<1>2. handler[h].pc = "call" /\ sweep.state = "listed" /\ sweep.hops /\ UNCHANGED <<ring, cursors>>
  BY DEF Advance, Runs
<1>3. handler[h].role \in {"sweep_ws", "sweep_get"} /\ h \notin DOMAIN cursors
  BY <1>1, <1>2 DEF Fit, Keeps
<1>4. /\ sweep' \in SweepSession /\ sweep'.state = "listed" /\ sweep'.hops
      /\ sweep'.status = "retuning"
  <2>1. NextPoint \in 0 .. Points - 1
    <3>1. sweep.point_index + 1 \in Int  BY <1>1 DEF SweepSession
    <3> QED  BY <1>1, <3>1 DEF NextPoint
  <2>2. sweep' = [sweep EXCEPT !.point_index = NextPoint, !.status = "retuning"]  BY DEF Advance
  <2> QED  BY <1>1, <1>2, <2>1, <2>2 DEF SweepSession
<1>5. stream' \in StreamSession /\ stream'.state = stream.state
  <2>1. CASE Registered  BY <1>1, <2>1 DEF Advance, StreamSession
  <2>2. CASE ~Registered  BY <1>1, <2>2 DEF Advance
  <2> QED  BY <2>1, <2>2
<1>6. WorldGoesOn
  <2>1. SourceBegun' /\ TunedRight' /\ RingRight'
    BY <1>2, <1>4, <1>5 DEF ViewersInv, SourceBegun, TunedRight, RingRight
  <2> QED  BY <1>2, <1>4, <1>5, <2>1 DEF WorldGoesOn
<1>7. CursorsGoOn(Handlers)
  BY <1>2, <1>4, <1>5 DEF CursorsGoOn, ViewersInv, CursorsOwned
<1>8. PICK p, new :
         /\ p \in {"tune", "leave"} /\ p = IF Registered THEN "tune" ELSE "leave"
         /\ new = [handler[h] EXCEPT !.pc = p] /\ handler'[h] = new
  BY DEF Advance
<1>9. new \in Visit
  <2>1. p \in Places  BY <1>8 DEF Places
  <2>2. \A q \in Places : [handler[h] EXCEPT !.pc = q] \in Visit  BY <1>1, VisitFields
  <2> QED  BY <1>8, <2>1, <2>2
<1>10. new.pc = p /\ new.role = handler[h].role /\ new.keep = handler[h].keep
       /\ new.left = handler[h].left
  BY <1>1, <1>8 DEF Visit
<1>11. HandlerGoesOn(h)
  <2>1. Fit(new)  BY <1>1, <1>2, <1>3, <1>8, <1>10 DEF Fit
  <2>2. Sees(new)  BY <1>1, <1>2, <1>3, <1>8, <1>10 DEF Sees, Labelled
  <2>3. Labelled(new)'  BY <1>8, <1>10 DEF Labelled
  <2>4. Sees(new)'  BY <1>6, <2>2, <2>3, SeesOn
  <2>5. Sees(handler[h])'  BY <1>8, <2>4 DEF Sees, Labelled
  <2> QED  BY <1>2, <1>3, <1>8, <2>1, <2>5 DEF HandlerGoesOn, Probing
<1>12. ASSUME NEW g \in Handlers, g # h
       PROVE  /\ handler'[g] \in Visit /\ handler'[g].pc = handler[g].pc /\ HandlerGoesOn(g)
  <2>1. PICK other : /\ other = [handler[g] EXCEPT !.overtaken = @ \/ handler[g].pc = "resume"]
                     /\ handler'[g] = other
    BY <1>12 DEF Advance
  <2> QED  BY <1>2, <1>5, <1>6, <2>1, Overtaken
<1>13. handler' \in [Handlers -> Visit]
  <2>1. handler' = [x \in Handlers |-> handler'[x]]  BY DEF Advance
  <2>2. \A x \in Handlers : handler'[x] \in Visit  BY <1>8, <1>9, <1>12
  <2> QED  BY <2>1, <2>2
<1>14. LoopTyped'
  <2>1. CASE Registered
    BY <1>1, <1>2, <1>8, <1>10, <1>12, <2>1, LoopBlocks DEF Advance
  <2>2. CASE ~Registered
    BY <1>1, <1>2, <1>12, <2>2, LoopStill DEF Advance
  <2> QED  BY <2>1, <2>2
<1>15. ViewersTypeOK'
  BY <1>1, <1>2, <1>4, <1>5, <1>13, <1>14, CursorsStill, ViewersTypedAgain
<1> QED  BY <1>6, <1>7, <1>11, <1>12, <1>15, OneStep

LEMMA TuneEndsInv ==
    ASSUME ViewersInv, NEW h \in Handlers, NEW live \in BOOLEAN, TuneEnds(h, live)
    PROVE  ViewersInv'
<1>1. /\ Fit(handler[h]) /\ Sees(handler[h]) /\ ViewersTypeOK
      /\ h \in DOMAIN cursors => Keeps(handler[h])
      /\ stream \in StreamSession /\ sweep \in SweepSession
  BY HandlerSees, ViewersTyped
<1>2. handler[h].pc = "tune" /\ ring' = <<>> /\ cursors' = [c \in DOMAIN cursors |-> 0]
  BY DEF TuneEnds, Runs, ClearRing
<1>3. /\ handler[h].role \in {"sweep_ws", "sweep_get"} /\ sweep.hops
      /\ sweep.state \in {"listed", "gone"} /\ h \notin DOMAIN cursors
  BY <1>1, <1>2 DEF Fit, Sees, Keeps
<1>4. /\ sweep' \in SweepSession /\ sweep'.state = sweep.state /\ sweep'.hops
      /\ sweep'.point_index = sweep.point_index
  BY <1>1, <1>3 DEF TuneEnds, SweepSession
<1>5. /\ stream' \in StreamSession /\ stream'.state = stream.state
      /\ stream'.tuned = sweep.point_index
  <2>1. PICK center, twice : /\ center = IF live THEN stream.pipe ELSE sweep.point_index
                             /\ twice = (stream.crossed \/ (~live /\ ~Registered))
                             /\ stream' = [stream EXCEPT !.tuned = sweep.point_index, !.alive = TRUE,
                                                         !.status = "running", !.pipe = center,
                                                         !.crossed = twice]
    BY DEF TuneEnds
  <2>2. center \in 0 .. Points - 1 /\ twice \in BOOLEAN
    BY <1>1, <2>1 DEF StreamSession, SweepSession
  <2>3. sweep.point_index \in 0 .. Points - 1  BY <1>1 DEF SweepSession
  <2> QED  BY <1>1, <2>1, <2>2, <2>3 DEF StreamSession
<1>6. Len(ring') = 0 /\ ring' \in Seq(Chunk) /\ Len(ring') <= MaxHeld  BY <1>1, <1>2, ViewersTyped
<1>7. CursorsTyped' /\ DOMAIN cursors' = DOMAIN cursors
  <2>1. DOMAIN cursors \subseteq Owner  BY <1>1, ViewersTyped
  <2>2. cursors' \in [DOMAIN cursors -> 0 .. Len(ring')]  BY <1>2, <1>6
  <2> QED  BY <2>1, <2>2 DEF CursorsTyped
<1>8. SourceBegun' /\ TunedRight' /\ RingRight'
  BY <1>3, <1>4, <1>5, <1>6 DEF ViewersInv, SourceBegun, TunedRight, RingRight
<1>9. WorldGoesOn  BY <1>3, <1>4, <1>5, <1>8 DEF WorldGoesOn, Registered
<1>10. CursorsGoOn({h})
  BY <1>2, <1>3, <1>4, <1>5, <1>7 DEF CursorsGoOn, ViewersInv, CursorsOwned
<1>11. PICK new : /\ new \in Visit /\ handler' = [handler EXCEPT ![h] = new]
                  /\ new.pc = "read" /\ new.role = handler[h].role /\ new.keep = handler[h].keep
  <2>1. "read" \in Places /\ Goto(h, "read")  BY DEF Places, TuneEnds
  <2> QED  BY <1>1, <2>1, Went
<1>12. LoopTyped'  BY <1>1, <1>11, OthersStill, LoopFreed DEF TuneEnds
<1>13. WorldTyped  BY <1>4, <1>5, <1>6, <1>7, <1>12 DEF WorldTyped
<1>14. Fit(new) /\ Sees(new)'
  <2>1. Fit(new)  BY <1>1, <1>2, <1>3, <1>11 DEF Fit, Async
  <2>2. Sees(new)  BY <1>3, <1>11 DEF Sees, Labelled
  <2>3. Labelled(new)'  BY <1>11 DEF Labelled
  <2> QED  BY <1>9, <2>1, <2>2, <2>3, SeesOn
<1>15. MovesTo(h, new)  BY <1>2, <1>3, <1>7, <1>11, <1>14 DEF MovesTo, Probing
<1> QED  BY <1>4, <1>9, <1>10, <1>13, <1>15, HandlerMoves

LEMMA TuneFailsInv ==
    ASSUME ViewersInv, NEW h \in Handlers, TuneFails(h)
    PROVE  ViewersInv'
<1>1. /\ Fit(handler[h]) /\ Sees(handler[h]) /\ ViewersTypeOK
      /\ h \in DOMAIN cursors => Keeps(handler[h])
      /\ stream \in StreamSession /\ sweep \in SweepSession
  BY HandlerSees, ViewersTyped
<1>2. handler[h].pc = "tune" /\ UNCHANGED <<ring, cursors, sweep>>  BY DEF TuneFails, Runs
<1>3. /\ handler[h].role \in {"sweep_ws", "sweep_get"} /\ sweep.hops
      /\ sweep.state \in {"listed", "gone"} /\ h \notin DOMAIN cursors
  BY <1>1, <1>2 DEF Fit, Sees, Keeps
<1>4. stream' \in StreamSession /\ stream'.state = stream.state /\ stream'.tuned = stream.tuned
  BY <1>1 DEF TuneFails, StreamSession
<1>5. SourceBegun' /\ TunedRight' /\ RingRight'
  BY <1>2, <1>4 DEF ViewersInv, SourceBegun, TunedRight, RingRight, Registered
<1>6. WorldGoesOn  BY <1>2, <1>4, <1>5 DEF WorldGoesOn, Registered
<1>7. CursorsGoOn({h})
  BY <1>2, <1>4 DEF CursorsGoOn, ViewersInv, CursorsOwned
<1>8. PICK new : /\ new \in Visit /\ handler' = [handler EXCEPT ![h] = new]
                 /\ new.pc = "leave" /\ new.role = handler[h].role /\ new.keep = handler[h].keep
  <2>1. "leave" \in Places /\ Goto(h, "leave")  BY DEF Places, TuneFails
  <2> QED  BY <1>1, <2>1, Went
<1>9. LoopTyped'  BY <1>1, <1>8, OthersStill, LoopFreed DEF TuneFails
<1>10. WorldTyped  BY <1>1, <1>2, <1>4, <1>9, CursorsStill DEF WorldTyped
<1>11. Fit(new) /\ Sees(new)'
  <2>1. Fit(new)  BY <1>1, <1>2, <1>3, <1>8 DEF Fit
  <2>2. Sees(new)  BY <1>3, <1>8 DEF Sees, Labelled
  <2>3. Labelled(new)'  BY <1>8 DEF Labelled
  <2> QED  BY <1>6, <2>1, <2>2, <2>3, SeesOn
<1>12. MovesTo(h, new)  BY <1>2, <1>3, <1>8, <1>11 DEF MovesTo, Probing
<1> QED  BY <1>2, <1>6, <1>7, <1>10, <1>12, HandlerMoves

-----------------------------------------------------------------------------
(* A read                                                                  *)

\* The cursor of a reader, and its place among the chunks.
LEMMA CursorOfReader ==
    ASSUME ViewersInv, NEW h \in Handlers, handler[h].pc = "read"
    PROVE  /\ CursorOf(h) \in Owner /\ Position(h) \in 0 .. Len(ring)
           /\ handler[h].role \in Async
           /\ CursorOf(h) = h => handler[h].role = "ws"
           /\ CursorOf(h) \in Handlers => CursorOf(h) = h
           /\ CursorOf(h) = "_default" <=> handler[h].role = "probe"
           /\ CursorOf(h) = "sweep" => handler[h].role \in {"sweep_ws", "sweep_get"}
<1>1. Fit(handler[h]) /\ ViewersTypeOK /\ h \notin {"sweep", "_default"}
      /\ "sweep" \notin Handlers /\ "_default" \notin Handlers
  BY HandlerSees, ViewersAssumption
<1>2. handler[h].role \in Async  BY <1>1 DEF Fit
<1>3. /\ CursorOf(h) \in Owner
      /\ CursorOf(h) = h => handler[h].role = "ws"
      /\ CursorOf(h) \in Handlers => CursorOf(h) = h
      /\ CursorOf(h) = "_default" <=> handler[h].role = "probe"
      /\ CursorOf(h) = "sweep" => handler[h].role \in {"sweep_ws", "sweep_get"}
  BY <1>1, <1>2 DEF CursorOf, Owner, Async
<1>4. Position(h) \in 0 .. Len(ring)  BY <1>1, ViewersTyped DEF Position
<1> QED  BY <1>2, <1>3, <1>4

LEMMA ReadChunkInv ==
    ASSUME ViewersInv, NEW h \in Handlers, ReadChunk(h)
    PROVE  ViewersInv'
<1>1. /\ Fit(handler[h]) /\ Sees(handler[h]) /\ ViewersTypeOK /\ handler[h] \in Visit
      /\ h \in DOMAIN cursors => Keeps(handler[h])
      /\ handler \in [Handlers -> Visit] /\ ring \in Seq(Chunk) /\ Len(ring) \in Nat
  BY HandlerSees, ViewersTyped
<1>2. /\ handler[h].pc = "read" /\ Registered /\ ~Sourceless(h) /\ Position(h) < Len(ring)
      /\ UNCHANGED <<stream, ring, sweep, loop>>
  BY DEF ReadChunk
<1>3. /\ CursorOf(h) \in Owner /\ Position(h) \in 0 .. Len(ring) /\ handler[h].role \in Async
      /\ CursorOf(h) = h => handler[h].role = "ws"
      /\ CursorOf(h) \in Handlers => CursorOf(h) = h
      /\ CursorOf(h) = "_default" <=> handler[h].role = "probe"
      /\ CursorOf(h) = "sweep" => handler[h].role \in {"sweep_ws", "sweep_get"}
  BY <1>2, CursorOfReader
<1>4. PICK owner, position, chunk :
         /\ owner = CursorOf(h) /\ position = Position(h) + 1 /\ chunk = ring[position]
         /\ cursors' = With(owner, position)
  BY DEF ReadChunk
<1>5. position \in 1 .. Len(ring) /\ chunk \in Chunk  BY <1>1, <1>2, <1>3, <1>4
<1>6. CursorsTyped' /\ DOMAIN cursors' = DOMAIN cursors \cup {owner}
  <2>1. position \in 0 .. Len(ring)  BY <1>1, <1>5
  <2> QED  BY <1>1, <1>2, <1>3, <1>4, <2>1, WithCursor
<1>7. PICK b, new :
         /\ b \in BOOLEAN /\ b = (sweep.status = "retuning")
         /\ new = [handler[h] EXCEPT !.pc = "resume", !.chunk = chunk, !.overtaken = b]
         /\ handler' = [handler EXCEPT ![h] = new]
  <2>1. handler' = [handler EXCEPT ![h] = [handler[h] EXCEPT !.pc = "resume", !.chunk = chunk,
                                                  !.overtaken = sweep.status = "retuning"]]
    BY <1>1, <1>4 DEF ReadChunk
  <2> QED  BY <2>1
<1>8. new \in Visit
  <2>1. \A c \in Chunk \cup {None}, x \in BOOLEAN :
           [handler[h] EXCEPT !.pc = "resume", !.chunk = c, !.overtaken = x] \in Visit
    BY <1>1, VisitFields DEF Places
  <2> QED  BY <1>5, <1>7, <2>1
<1>9. /\ new.pc = "resume" /\ new.role = handler[h].role /\ new.keep = handler[h].keep
      /\ new.left = handler[h].left /\ new.chunk = chunk /\ new.overtaken = b
  BY <1>1, <1>7 DEF Visit
<1>10. WorldGoesOn /\ sweep'.point_index = sweep.point_index  BY <1>2, SameWorld
<1>11. CursorsGoOn({h})
  <2>1. stream'.state # "none"  BY <1>2 DEF Registered
  <2>2. \A c \in Handlers : c \in DOMAIN cursors' => c \in DOMAIN cursors \cup {h}
    BY <1>3, <1>4, <1>6
  <2>3. "sweep" \in DOMAIN cursors' => sweep'.hops /\ sweep'.state \in {"listed", "gone"}
    <3>1. CASE owner = "sweep"
      BY <1>1, <1>2, <1>3, <1>4, <3>1 DEF Sourceless, Sees
    <3>2. CASE owner # "sweep"
      BY <1>2, <1>6, <3>2 DEF ViewersInv, CursorsOwned
    <3> QED  BY <3>1, <3>2
  <2>4. "_default" \in DOMAIN cursors' =>
           "_default" \in DOMAIN cursors \/ \E g \in Handlers : Probing(handler'[g])
    <3>1. CASE owner = "_default"
      <4>1. handler'[h] = new  BY <1>1, <1>7
      <4>2. Probing(new)  BY <1>3, <1>4, <1>9, <3>1 DEF Probing
      <4> QED  BY <4>1, <4>2
    <3>2. CASE owner # "_default"  BY <1>6, <3>2
    <3> QED  BY <3>1, <3>2
  <2> QED  BY <2>1, <2>2, <2>3, <2>4 DEF CursorsGoOn
<1>12. LoopTyped'  BY <1>1, <1>2, <1>7, <1>8, OthersStill, LoopStill
<1>13. WorldTyped  BY <1>1, <1>2, <1>6, <1>12, ViewersTyped DEF WorldTyped
<1>14. Labelled(new)
  <2> SUFFICES ASSUME new.role \in {"sweep_ws", "sweep_get"}
               PROVE  chunk.center = sweep.point_index \/ chunk.stale \/ b
    BY <1>9 DEF Labelled
  <2>1. sweep.hops  BY <1>2, <1>9 DEF Sourceless
  <2> QED  BY <1>2, <1>4, <1>5, <1>7, <2>1 DEF ViewersInv, RingRight
<1>15. Fit(new) /\ Sees(new)'
  <2>1. Fit(new)  BY <1>1, <1>2, <1>3, <1>9 DEF Fit
  <2>2. Sees(new)  BY <1>1, <1>2, <1>9, <1>14 DEF Sees
  <2>3. Labelled(new)'  BY <1>2, <1>14 DEF Labelled
  <2> QED  BY <1>10, <2>1, <2>2, <2>3, SeesOn
<1>16. h \in DOMAIN cursors' => Keeps(new)'
  <2>1. h \in DOMAIN cursors' => new.role = "ws"
    BY <1>1, <1>3, <1>4, <1>6, <1>9 DEF Keeps
  <2> QED  BY <1>9, <2>1 DEF Keeps
<1>17. MovesTo(h, new)  BY <1>2, <1>7, <1>8, <1>9, <1>15, <1>16 DEF MovesTo, Probing
<1> QED  BY <1>10, <1>11, <1>13, <1>17, HandlerMoves

LEMMA ReadNothingInv ==
    ASSUME ViewersInv, NEW h \in Handlers, ReadNothing(h)
    PROVE  ViewersInv'
<1>1. /\ Fit(handler[h]) /\ Sees(handler[h]) /\ ViewersTypeOK /\ handler[h] \in Visit
      /\ h \in DOMAIN cursors => Keeps(handler[h])
      /\ handler \in [Handlers -> Visit]
  BY HandlerSees, ViewersTyped
<1>2. handler[h].pc = "read" /\ UNCHANGED <<stream, ring, sweep, loop>>
  BY DEF ReadNothing
<1>3. handler[h].role \in Async /\ (CursorOf(h) = "_default" <=> handler[h].role = "probe")
  BY <1>2, CursorOfReader
<1>4. \/ cursors' = cursors
      \/ cursors' = With("_default", 0) /\ handler[h].role = "probe" /\ Registered
  BY DEF ReadNothing
<1>5. CursorsTyped' /\ DOMAIN cursors' \subseteq DOMAIN cursors \cup {"_default"}
  <2>1. CASE cursors' = cursors  BY <1>1, <1>2, <2>1, CursorsStill
  <2>2. CASE cursors' = With("_default", 0)
    <3>1. "_default" \in Owner /\ 0 \in 0 .. Len(ring)  BY <1>1, ViewersTyped DEF Owner
    <3> QED  BY <1>1, <1>2, <2>2, <3>1, WithCursor
  <2> QED  BY <1>4, <2>1, <2>2
<1>6. PICK new : /\ new = [handler[h] EXCEPT !.pc = "resume", !.chunk = None]
                 /\ handler' = [handler EXCEPT ![h] = new]
  <2>1. handler' = [handler EXCEPT ![h] = [handler[h] EXCEPT !.pc = "resume", !.chunk = None]]
    BY <1>1 DEF ReadNothing
  <2> QED  BY <2>1
<1>7. new \in Visit
  <2>1. \A c \in Chunk \cup {None} : [handler[h] EXCEPT !.pc = "resume", !.chunk = c] \in Visit
    BY <1>1, VisitFields DEF Places
  <2> QED  BY <1>6, <2>1
<1>8. /\ new.pc = "resume" /\ new.role = handler[h].role /\ new.keep = handler[h].keep
      /\ new.left = handler[h].left /\ new.chunk = None
  BY <1>1, <1>6 DEF Visit
<1>9. WorldGoesOn /\ sweep'.point_index = sweep.point_index  BY <1>2, SameWorld
<1>10. CursorsGoOn({h})
  <2>1. CASE cursors' = cursors
    BY <1>2, <2>1 DEF CursorsGoOn, ViewersInv, CursorsOwned
  <2>2. CASE cursors' # cursors
    <3>1. handler'[h] = new  BY <1>1, <1>6
    <3>2. Probing(new)  BY <1>4, <1>8, <2>2 DEF Probing
    <3>3. stream'.state # "none" /\ "_default" \notin Handlers
      BY <1>2, <1>4, <2>2, ViewersAssumption DEF Registered
    <3> QED  BY <1>2, <1>5, <3>1, <3>2, <3>3 DEF CursorsGoOn, ViewersInv, CursorsOwned
  <2> QED  BY <2>1, <2>2
<1>11. LoopTyped'  BY <1>1, <1>2, <1>6, <1>7, OthersStill, LoopStill
<1>12. WorldTyped  BY <1>1, <1>2, <1>5, <1>11, ViewersTyped DEF WorldTyped
<1>13. Fit(new) /\ Sees(new)'
  <2>1. Fit(new)  BY <1>1, <1>2, <1>3, <1>8 DEF Fit
  <2>2. Sees(new)  BY <1>1, <1>2, <1>8 DEF Sees, Labelled
  <2>3. Labelled(new)'  BY <1>8 DEF Labelled
  <2> QED  BY <1>9, <2>1, <2>2, <2>3, SeesOn
<1>14. h \in DOMAIN cursors' => Keeps(new)'
  <2>1. h \in DOMAIN cursors' => h \in DOMAIN cursors  BY <1>5, ViewersAssumption
  <2> QED  BY <1>1, <1>8, <2>1 DEF Keeps
<1>15. MovesTo(h, new)  BY <1>2, <1>6, <1>7, <1>8, <1>13, <1>14 DEF MovesTo, Probing
<1> QED  BY <1>9, <1>10, <1>12, <1>15, HandlerMoves

-----------------------------------------------------------------------------
(* The end of a handler and both stops                                     *)

\* The three ways out: done, on to the stop of the sweep, or to that of the
\* stream.
WayOut(h, p) ==
    \/ /\ p = "done" /\ UNCHANGED <<stream, sweep, loop>>
       /\ handler[h].role \in {"ws", "probe", "stop"} /\ ~handler[h].keep => ~Registered
       /\ handler[h].role \in {"sweep_ws", "sweep_stop"} /\ ~handler[h].keep
             => sweep.state # "listed"
    \/ /\ p = "stop" /\ handler[h].role \in {"sweep_ws", "sweep_stop"} /\ ~handler[h].keep
       /\ sweep.state = "listed" /\ sweep' = [sweep EXCEPT !.state = "gone"]
       /\ BlockLoop(h) /\ UNCHANGED stream
    \/ /\ p = "end" /\ handler[h].role \in {"ws", "probe", "stop"} /\ ~handler[h].keep
       /\ Registered /\ stream' = [stream EXCEPT !.state = "gone"]
       /\ BlockLoop(h) /\ UNCHANGED sweep

LEMMA WaysOut ==
    ASSUME ViewersInv, NEW h \in Handlers, Leave(h)
    PROVE  \E p \in {"done", "stop", "end"} : Goto(h, p) /\ WayOut(h, p)
<1>1. Fit(handler[h]) /\ handler[h].pc = "leave" /\ Roles \subseteq AllRoles
  BY HandlerSees, ViewersAssumption DEF Leave, Runs
<1>2. handler[h].role \in {"ws", "sweep_ws", "sweep_get", "probe", "stop", "sweep_stop"}
  BY <1>1 DEF Fit, AllRoles, Async
<1>3. CASE ~Stops(h)
  <2>1. Goto(h, "done") /\ UNCHANGED <<stream, sweep, loop>>  BY <1>3 DEF Leave
  <2>2. handler[h].role = "sweep_get" \/ handler[h].keep  BY <1>3 DEF Stops
  <2>3. WayOut(h, "done")  BY <2>1, <2>2 DEF WayOut
  <2> QED  BY <2>1, <2>3
<1>4. CASE Stops(h) /\ handler[h].role \in {"sweep_ws", "sweep_stop"}
  <2>1. CASE sweep.state = "listed"
    <3>1. /\ Goto(h, "stop") /\ sweep' = [sweep EXCEPT !.state = "gone"]
          /\ BlockLoop(h) /\ UNCHANGED stream
      BY <1>4, <2>1 DEF Leave
    <3>2. WayOut(h, "stop")  BY <1>4, <2>1, <3>1 DEF WayOut, Stops
    <3> QED  BY <3>1, <3>2
  <2>2. CASE sweep.state # "listed"
    <3>1. Goto(h, "done") /\ UNCHANGED <<stream, sweep, loop>>  BY <1>4, <2>2 DEF Leave
    <3>2. WayOut(h, "done")  BY <1>4, <2>2, <3>1 DEF WayOut
    <3> QED  BY <3>1, <3>2
  <2> QED  BY <2>1, <2>2
<1>5. CASE Stops(h) /\ handler[h].role \notin {"sweep_ws", "sweep_stop"}
  <2>1. handler[h].role \in {"ws", "probe", "stop"}  BY <1>2, <1>5 DEF Stops
  <2>2. CASE Registered
    <3>1. /\ Goto(h, "end") /\ stream' = [stream EXCEPT !.state = "gone"]
          /\ BlockLoop(h) /\ UNCHANGED sweep
      BY <1>5, <2>2 DEF Leave
    <3>2. WayOut(h, "end")  BY <1>5, <2>1, <2>2, <3>1 DEF WayOut, Stops
    <3> QED  BY <3>1, <3>2
  <2>3. CASE ~Registered
    <3>1. Goto(h, "done") /\ UNCHANGED <<stream, sweep, loop>>  BY <1>5, <2>3 DEF Leave
    <3>2. WayOut(h, "done")  BY <2>1, <2>3, <3>1 DEF WayOut
    <3> QED  BY <3>1, <3>2
  <2> QED  BY <2>2, <2>3
<1> QED  BY <1>3, <1>4, <1>5

LEMMA LeaveInv ==
    ASSUME ViewersInv, NEW h \in Handlers, Leave(h)
    PROVE  ViewersInv'
<1>1. /\ Fit(handler[h]) /\ Sees(handler[h]) /\ ViewersTypeOK
      /\ h \in DOMAIN cursors => Keeps(handler[h])
      /\ stream \in StreamSession /\ sweep \in SweepSession /\ handler \in [Handlers -> Visit]
      /\ stream.state \in {"none", "registered", "gone"}
  BY HandlerSees, ViewersTyped, StreamFields
<1>2. handler[h].pc = "leave" /\ ring' = ring  BY DEF Leave, Runs
<1>3. PICK p \in {"done", "stop", "end"} : Goto(h, p) /\ WayOut(h, p)  BY WaysOut
<1>4. PICK new : /\ new \in Visit /\ handler' = [handler EXCEPT ![h] = new]
                 /\ new.pc = p /\ new.role = handler[h].role /\ new.keep = handler[h].keep
                 /\ new.left = handler[h].left
  <2>1. p \in Places  BY DEF Places
  <2> QED  BY <1>1, <1>3, <2>1, Went
<1>5. /\ stream' \in StreamSession /\ stream'.tuned = stream.tuned
      /\ stream'.state = IF p = "end" THEN "gone" ELSE stream.state
      /\ p = "end" => Registered
  <2>1. CASE p = "end"  BY <1>1, <1>3, <2>1 DEF WayOut, StreamSession
  <2>2. CASE p # "end"  BY <1>1, <1>3, <2>2 DEF WayOut
  <2> QED  BY <2>1, <2>2
<1>6. /\ sweep' \in SweepSession /\ sweep'.hops = sweep.hops /\ sweep'.status = sweep.status
      /\ sweep'.point_index = sweep.point_index
      /\ sweep'.state = IF p = "stop" THEN "gone" ELSE sweep.state
      /\ p = "stop" => sweep.state = "listed"
  <2>1. CASE p = "stop"  BY <1>1, <1>3, <2>1 DEF WayOut, SweepSession
  <2>2. CASE p # "stop"  BY <1>1, <1>3, <2>2 DEF WayOut
  <2> QED  BY <2>1, <2>2
<1>7. /\ CursorsTyped' /\ DOMAIN cursors' \subseteq DOMAIN cursors
      /\ h \in DOMAIN cursors' => handler[h].role = "ws" /\ ~Registered
  <2>1. CASE handler[h].role = "ws"
    <3>1. cursors' = Without(h)  BY <2>1 DEF Leave, Released
    <3> QED  BY <1>1, <1>2, <2>1, <3>1, WithoutCursor
  <2>2. CASE handler[h].role # "ws"
    <3>1. cursors' = cursors  BY <2>2 DEF Leave
    <3> QED  BY <1>1, <1>2, <2>2, <3>1, CursorsStill DEF Keeps
  <2> QED  BY <2>1, <2>2
<1>8. handler'[h] = new  BY <1>1, <1>4
<1>9. WorldGoesOn
  <2>1. SourceBegun' /\ TunedRight' /\ RingRight'
    BY <1>2, <1>5, <1>6 DEF ViewersInv, SourceBegun, TunedRight, RingRight, Registered
  <2> QED  BY <1>4, <1>5, <1>6, <1>8, <2>1 DEF WorldGoesOn, Registered
<1>10. CursorsGoOn({h})
  BY <1>2, <1>5, <1>6, <1>7 DEF CursorsGoOn, ViewersInv, CursorsOwned
<1>11. LoopTyped'
  <2>1. handler'[h].pc = p /\ \A g \in Handlers : g # h => handler'[g].pc = handler[g].pc
    BY <1>1, <1>4, OthersStill
  <2>2. CASE p = "done"
    <3>1. loop' = loop  BY <1>3, <2>2 DEF WayOut
    <3> QED  BY <1>1, <1>2, <2>1, <3>1, LoopStill
  <2>3. CASE p # "done"
    <3>1. BlockLoop(h) /\ p \in {"stop", "end"}  BY <1>3, <2>3 DEF WayOut
    <3> QED  BY <1>1, <1>2, <2>1, <3>1, LoopBlocks
  <2> QED  BY <2>2, <2>3
<1>12. WorldTyped  BY <1>1, <1>2, <1>5, <1>6, <1>7, <1>11, ViewersTyped DEF WorldTyped
<1>13. Fit(new)
  <2>1. p = "stop" => new.role \in {"sweep_ws", "sweep_stop"} /\ ~new.keep
    BY <1>3, <1>4 DEF WayOut
  <2>2. p = "end" => new.role # "sweep_get"  BY <1>3, <1>4 DEF WayOut
  <2> QED  BY <1>1, <1>2, <1>4, <2>1, <2>2 DEF Fit
<1>14. Sees(new)'
  <2>1. new.role \in {"ws", "probe", "stop"} /\ ~new.keep /\ p = "done" => stream'.state = "gone"
    BY <1>1, <1>2, <1>3, <1>4, <1>5 DEF WayOut, Sees, Registered
  <2>2. new.role \in {"sweep_ws", "sweep_stop"} /\ ~new.keep => p = "end" \/ sweep'.state = "gone"
    BY <1>1, <1>2, <1>3, <1>4, <1>6 DEF WayOut, Sees
  <2>3. new.role \in {"sweep_ws", "sweep_stop"} => p # "end"
    BY <1>3, <1>4 DEF WayOut
  <2>4. /\ new.role \in {"ws", "probe", "stop"} => stream'.state # "none"
        /\ new.role \in {"sweep_ws", "sweep_get", "sweep_stop"} => sweep'.state \in {"listed", "gone"}
    BY <1>1, <1>2, <1>4, <1>5, <1>6 DEF Sees
  <2> QED  BY <1>4, <1>5, <2>1, <2>2, <2>3, <2>4 DEF Sees, Labelled
<1>15. Probing(handler[h]) => Probing(new) \/ ~Registered'
  <2> SUFFICES ASSUME handler[h].role = "probe" PROVE p # "done" \/ ~Registered'
    BY <1>4 DEF Probing
  <2>1. ~handler[h].keep  BY <1>1 DEF Fit
  <2> QED  BY <1>3, <2>1 DEF WayOut, Registered
<1>16. h \in DOMAIN cursors' => Keeps(new)'
  <2> SUFFICES ASSUME h \in DOMAIN cursors' PROVE Keeps(new)'
    OBVIOUS
  <2>1. new.role = "ws" /\ ~Registered'  BY <1>4, <1>5, <1>7 DEF Registered
  <2> QED  BY <1>4, <2>1 DEF Keeps
<1>17. MovesTo(h, new)  BY <1>2, <1>4, <1>13, <1>14, <1>15, <1>16 DEF MovesTo
<1> QED  BY <1>6, <1>9, <1>10, <1>12, <1>17, HandlerMoves

LEMMA StopSweepInv ==
    ASSUME ViewersInv, NEW h \in Handlers, StopSweep(h)
    PROVE  ViewersInv'
<1>1. /\ Fit(handler[h]) /\ Sees(handler[h]) /\ ViewersTypeOK
      /\ h \in DOMAIN cursors => Keeps(handler[h])
      /\ stream \in StreamSession /\ sweep \in SweepSession /\ handler \in [Handlers -> Visit]
      /\ stream.state \in {"none", "registered", "gone"}
  BY HandlerSees, ViewersTyped, StreamFields
<1>2. handler[h].pc = "stop" /\ ring' = ring  BY DEF StopSweep, Runs
<1>3. /\ handler[h].role \in {"sweep_ws", "sweep_stop"} /\ ~handler[h].keep
      /\ sweep.state = "gone" /\ h \notin DOMAIN cursors
  BY <1>1, <1>2 DEF Fit, Sees, Keeps
<1>4. CursorsTyped' /\ DOMAIN cursors' \subseteq DOMAIN cursors
  <2>1. CASE sweep.hops
    <3>1. cursors' = Without("sweep")  BY <2>1 DEF StopSweep
    <3> QED  BY <1>1, <1>2, <3>1, WithoutCursor
  <2>2. CASE ~sweep.hops
    <3>1. cursors' = cursors  BY <2>2 DEF StopSweep
    <3> QED  BY <1>1, <1>2, <3>1, CursorsStill
  <2> QED  BY <2>1, <2>2
<1>5. /\ sweep' \in SweepSession /\ sweep'.hops = sweep.hops /\ sweep'.state = "gone"
      /\ sweep'.point_index = sweep.point_index
  <2>1. sweep' = sweep \/ sweep' = [sweep EXCEPT !.status = "stopped"]  BY DEF StopSweep
  <2> QED  BY <1>1, <1>3, <2>1 DEF SweepSession
<1>6. PICK p \in {"end", "done"} :
         /\ Goto(h, p) /\ p = IF sweep.hops /\ Registered THEN "end" ELSE "done"
         /\ p = "end" => stream' = [stream EXCEPT !.state = "gone"] /\ sweep' = sweep /\ loop' = loop
         /\ p = "done" => stream' = stream /\ FreeLoop(h)
  BY DEF StopSweep
<1>7. /\ stream' \in StreamSession /\ stream'.tuned = stream.tuned
      /\ stream'.state = IF p = "end" THEN "gone" ELSE stream.state
  <2>1. CASE p = "end"  BY <1>1, <1>6, <2>1 DEF StreamSession
  <2>2. CASE p = "done"  BY <1>1, <1>6, <2>2
  <2> QED  BY <2>1, <2>2
<1>8. ~(sweep'.hops /\ Registered')  BY <1>5, <1>6, <1>7 DEF Registered
<1>9. WorldGoesOn
  <2>1. SourceBegun'  BY <1>5, <1>7 DEF ViewersInv, SourceBegun
  <2>2. TunedRight'
    <3>1. CASE sweep.hops
      <4>1. stream'.state = "gone"  BY <1>1, <1>5, <1>6, <1>7, <1>8, <3>1
        DEF ViewersInv, SourceBegun, Registered
      <4> QED  BY <1>5, <3>1, <4>1 DEF TunedRight
    <3>2. CASE ~sweep.hops  BY <1>5, <1>7, <3>2 DEF ViewersInv, TunedRight
    <3> QED  BY <3>1, <3>2
  <2>3. RingRight'  BY <1>8 DEF RingRight
  <2> QED  BY <1>3, <1>5, <1>7, <1>8, <2>1, <2>2, <2>3 DEF WorldGoesOn
<1>10. CursorsGoOn({h})
  BY <1>2, <1>3, <1>4, <1>5, <1>7 DEF CursorsGoOn, ViewersInv, CursorsOwned
<1>11. PICK new : /\ new \in Visit /\ handler' = [handler EXCEPT ![h] = new]
                  /\ new.pc = p /\ new.role = handler[h].role /\ new.keep = handler[h].keep
  <2>1. p \in Places  BY DEF Places
  <2> QED  BY <1>1, <1>6, <2>1, Went
<1>12. LoopTyped'
  <2>1. handler'[h].pc = p /\ \A g \in Handlers : g # h => handler'[g].pc = handler[g].pc
    BY <1>1, <1>11, OthersStill
  <2>2. CASE p = "end"  BY <1>1, <1>6, <2>1, <2>2, LoopStill
  <2>3. CASE p = "done"  BY <1>1, <1>6, <2>1, <2>3, LoopFreed
  <2> QED  BY <2>2, <2>3
<1>13. WorldTyped  BY <1>1, <1>2, <1>4, <1>5, <1>7, <1>12, ViewersTyped DEF WorldTyped
<1>14. Fit(new)  BY <1>1, <1>2, <1>3, <1>11 DEF Fit
<1>15. Sees(new)'  BY <1>3, <1>5, <1>7, <1>11 DEF Sees, Labelled
<1>16. MovesTo(h, new)  BY <1>3, <1>4, <1>8, <1>11, <1>14, <1>15 DEF MovesTo, Probing
<1> QED  BY <1>5, <1>9, <1>10, <1>13, <1>16, HandlerMoves

LEMMA StopEndsInv ==
    ASSUME ViewersInv, NEW h \in Handlers, StopEnds(h)
    PROVE  ViewersInv'
<1>1. /\ Fit(handler[h]) /\ Sees(handler[h]) /\ ViewersTypeOK
      /\ h \in DOMAIN cursors => Keeps(handler[h])
      /\ stream \in StreamSession /\ sweep \in SweepSession
  BY HandlerSees, ViewersTyped
<1>2. handler[h].pc = "end" /\ stream.state = "gone" /\ UNCHANGED <<ring, cursors>>
  BY <1>1 DEF StopEnds, Runs, Sees
<1>3. stream' \in StreamSession /\ stream'.state = "gone" /\ stream'.tuned = stream.tuned
  BY <1>1, <1>2 DEF StopEnds, StreamSession
<1>4. /\ sweep' \in SweepSession /\ sweep'.hops = sweep.hops /\ sweep'.state = sweep.state
      /\ sweep'.point_index = sweep.point_index
  <2>1. sweep' = sweep \/ sweep' = [sweep EXCEPT !.status = "stopped"]  BY DEF StopEnds
  <2> QED  BY <1>1, <2>1 DEF SweepSession
<1>5. WorldGoesOn
  <2>1. SourceBegun' /\ TunedRight' /\ RingRight'
    BY <1>3, <1>4 DEF ViewersInv, SourceBegun, TunedRight, RingRight, Registered
  <2> QED  BY <1>2, <1>3, <1>4, <2>1 DEF WorldGoesOn, Registered
<1>6. CursorsGoOn({h})
  BY <1>2, <1>3, <1>4 DEF CursorsGoOn, ViewersInv, CursorsOwned
<1>7. PICK new : /\ new \in Visit /\ handler' = [handler EXCEPT ![h] = new]
                 /\ new.pc = "done" /\ new.role = handler[h].role /\ new.keep = handler[h].keep
  <2>1. "done" \in Places /\ Goto(h, "done")  BY DEF Places, StopEnds
  <2> QED  BY <1>1, <2>1, Went
<1>8. LoopTyped'  BY <1>1, <1>7, OthersStill, LoopFreed DEF StopEnds
<1>9. WorldTyped  BY <1>1, <1>2, <1>3, <1>4, <1>8, CursorsStill DEF WorldTyped
<1>10. Fit(new)  BY <1>1, <1>2, <1>7 DEF Fit
<1>11. Sees(new)'
  <2>1. Sees(new)  BY <1>1, <1>2, <1>7 DEF Sees, Labelled
  <2>2. Labelled(new)'  BY <1>7 DEF Labelled
  <2> QED  BY <1>5, <2>1, <2>2, SeesOn
<1>12. ~Registered'  BY <1>3 DEF Registered
<1>13. h \in DOMAIN cursors' => Keeps(new)'  BY <1>1, <1>2, <1>7, <1>12 DEF Keeps
<1>14. MovesTo(h, new)  BY <1>2, <1>7, <1>10, <1>11, <1>12, <1>13 DEF MovesTo
<1> QED  BY <1>4, <1>5, <1>6, <1>9, <1>14, HandlerMoves

-----------------------------------------------------------------------------
(* Every step, and what follows                                            *)

LEMMA ViewersStill ==
    ASSUME ViewersInv, UNCHANGED viewerVars
    PROVE  ViewersInv'
<1>1. UNCHANGED <<stream, ring, cursors, sweep, handler, loop>>  BY DEF viewerVars
<1>2. WorldGoesOn /\ CursorsGoOn({}) /\ sweep'.point_index = sweep.point_index
  BY <1>1, WorldStill
<1> QED  BY <1>1, <1>2, StreamStep, ViewersTyped, CursorsStill DEF ViewersInv

LEMMA HandlerInv ==
    ASSUME ViewersInv, NEW h \in Handlers, Step(h)
    PROVE  ViewersInv'
<1>1. CASE Accept(h) \/ AcceptFails(h) \/ CallMissed(h) \/ CallReads(h) \/ ResumeEmpty(h)
  BY <1>1, TurnInv
<1>2. CASE Advance(h)  BY <1>2, AdvanceInv
<1>3. CASE (\E live \in BOOLEAN : TuneEnds(h, live))  BY <1>3, TuneEndsInv
<1>4. CASE TuneFails(h)  BY <1>4, TuneFailsInv
<1>5. CASE ReadChunk(h)  BY <1>5, ReadChunkInv
<1>6. CASE ReadNothing(h)  BY <1>6, ReadNothingInv
<1>7. CASE ResumeChunk(h) \/ SendFails(h)  BY <1>7, SentInv
<1>8. CASE Leave(h)  BY <1>8, LeaveInv
<1>9. CASE StopSweep(h)  BY <1>9, StopSweepInv
<1>10. CASE StopEnds(h)  BY <1>10, StopEndsInv
<1> QED
  BY <1>1, <1>2, <1>3, <1>4, <1>5, <1>6, <1>7, <1>8, <1>9, <1>10 DEF Step

LEMMA NextViewersInv == ViewersInv /\ [ViewersNext]_viewerVars => ViewersInv'
<1> SUFFICES ASSUME ViewersInv, [ViewersNext]_viewerVars PROVE ViewersInv'
  OBVIOUS
<1>1. CASE StartStream  BY <1>1, StartStreamInv
<1>2. CASE StartSweep  BY <1>2, StartSweepInv
<1>3. CASE ListSweep  BY <1>3, ListSweepInv
<1>4. CASE StartNativeSweep  BY <1>4, StartNativeSweepInv
<1>5. CASE Deliver  BY <1>5, DeliverInv
<1>6. CASE ProcessExits \/ ReaderReacts  BY <1>6, ProcessInvStill
<1>7. ASSUME NEW h \in Handlers,
             \/ ProbeBegins(h) \/ SendRequest(h) \/ Step(h)
             \/ \E keep \in BOOLEAN : Connect(h, keep) \/ ConnectSweep(h, keep)
      PROVE  ViewersInv'
  <2>1. CASE ProbeBegins(h)  BY <2>1, ProbeBeginsInv
  <2>2. CASE SendRequest(h) \/ (\E keep \in BOOLEAN : ConnectSweep(h, keep))  BY <2>2, EnterInv
  <2>3. CASE (\E keep \in BOOLEAN : Connect(h, keep))  BY <2>3, ConnectInv
  <2>4. CASE Step(h)  BY <2>4, HandlerInv
  <2> QED  BY <1>7, <2>1, <2>2, <2>3, <2>4
<1>8. CASE UNCHANGED viewerVars  BY <1>8, ViewersStill
<1> QED  BY <1>1, <1>2, <1>3, <1>4, <1>5, <1>6, <1>7, <1>8 DEF ViewersNext

\* Whatever readers, hops, stops and the stream's process do, a handler finds
\* the stream and the sweep as its place in iq_stream, iq_sweep_stream, the
\* chunk route or a stop says, and the cursors, the tuning and the chunks of
\* the stream agree with them.
THEOREM ViewersInvHolds == ViewersSpec => []ViewersInv
<1>1. ViewersInit => ViewersInv  BY InitViewersInv
<1>2. ViewersInv /\ [ViewersNext]_viewerVars => ViewersInv'  BY NextViewersInv
<1> QED  BY <1>1, <1>2, PTL DEF ViewersSpec

\* Every cursor of a stream belongs to a probe or a viewer that still reads or
\* to a sweep that is not stopped yet: the finally clauses of iq_stream and of
\* the probe, and IQSweepManager.stop, release them.
THEOREM ViewersSafeHolds == ViewersSpec => []ViewersSafe
<1>1. ViewersInv => ViewersSafe
  <2> SUFFICES ASSUME ViewersInv PROVE NoCursorLeft
    BY DEF ViewersSafe, ViewersInv
  <2>1. CursorsOwned /\ SourceBegun /\ BeingStopped /\ DOMAIN cursors \subseteq Owner
        /\ "sweep" \notin Handlers /\ "_default" \notin Handlers
    BY ViewersTyped, ViewersAssumption DEF ViewersInv
  <2> SUFFICES ASSUME Registered, NEW c \in DOMAIN cursors
               PROVE  CASE c \in Handlers -> handler[c].pc # "done"
                        [] c = "sweep" -> \/ sweep.state = "listed"
                                          \/ \E h \in Handlers : handler[h].pc = "stop"
                        [] OTHER -> \E h \in Handlers : /\ handler[h].role = "probe"
                                                        /\ handler[h].pc # "done"
    BY DEF NoCursorLeft
  <2>2. CASE c \in Handlers
    <3>1. handler[c].pc # "done" /\ c # "sweep"  BY <2>1, <2>2 DEF CursorsOwned, Keeps
    <3> QED  BY <2>2, <3>1
  <2>3. CASE c = "sweep"
    <3>1. sweep.hops /\ (sweep.state = "listed" \/ sweep.state = "gone")
      BY <2>1, <2>3 DEF CursorsOwned
    <3>2. sweep.state = "listed" \/ \E h \in Handlers : handler[h].pc = "stop"
      BY <2>1, <3>1 DEF BeingStopped
    <3> QED  BY <2>1, <2>3, <3>2
  <2>4. CASE c = "_default"
    <3>1. PICK h \in Handlers : Probing(handler[h])  BY <2>1, <2>4 DEF CursorsOwned
    <3>2. \E g \in Handlers : handler[g].role = "probe" /\ handler[g].pc # "done"
      BY <3>1 DEF Probing
    <3> QED  BY <2>1, <2>4, <3>2
  <2> QED  BY <2>1, <2>2, <2>3, <2>4 DEF Owner
<1> QED  BY <1>1, ViewersInvHolds, PTL

-----------------------------------------------------------------------------
(* The process of a stream that is stopped                                 *)

\* Once the stream is out of the dict, its process is dead or the handler that
\* has taken it out is about to end it, unless a retune started another one.
Killed ==
    stream.state = "gone" /\ stream.alive =>
        stream.crossed \/ \E g \in Handlers : handler[g].pc = "end"

\* The stream is not gone, not alive or crossed, or its end is still to come.
LEMMA KilledNext ==
    ASSUME Killed,
           \/ stream'.state # "gone" \/ ~stream'.alive \/ stream'.crossed
           \/ \E g \in Handlers : handler'[g].pc = "end"
           \/ /\ stream.state = "gone" /\ stream.alive
              /\ stream.crossed => stream'.crossed
              /\ \A g \in Handlers : handler[g].pc = "end" => handler'[g].pc = "end"
    PROVE  Killed'
BY DEF Killed

LEMMA KilledStill ==
    ASSUME Killed, UNCHANGED stream,
           \A g \in Handlers : handler[g].pc = "end" => handler'[g].pc = "end"
    PROVE  Killed'
BY DEF Killed

\* The steps of the stream.
LEMMA KilledByStream ==
    ASSUME ViewersInv, Killed,
           \/ StartStream \/ StartSweep \/ ListSweep \/ StartNativeSweep
           \/ Deliver \/ ProcessExits \/ ReaderReacts
    PROVE  Killed'
<1>1. CASE StartStream \/ StartSweep
  <2>1. stream'.state # "gone"  BY <1>1, StartedIs DEF StartStream, StartSweep, ViewersInv
  <2> QED  BY <2>1, KilledNext
<1>2. CASE ListSweep \/ StartNativeSweep
  BY <1>2, KilledStill DEF ListSweep, StartNativeSweep
<1>3. CASE Deliver \/ ProcessExits \/ ReaderReacts
  <2>1. stream \in StreamSession /\ stream.state = "registered"
    BY <1>3, ViewersTyped DEF ViewersInv, Deliver, ProcessExits, ReaderReacts, Registered
  <2>2. CASE Deliver
    <3>1. PICK center : stream' = [stream EXCEPT !.pipe = center]  BY <2>2 DEF Deliver
    <3> QED  BY <2>1, <3>1, KilledNext DEF StreamSession
  <2>3. CASE ProcessExits
    BY <2>1, <2>3, KilledNext DEF ProcessExits, StreamSession
  <2>4. CASE ReaderReacts
    <3>1. stream'.state = stream.state  BY <2>1, <2>4 DEF ReaderReacts, StreamSession
    <3> QED  BY <2>1, <3>1, KilledNext
  <2> QED  BY <1>3, <2>2, <2>3, <2>4
<1> QED  BY <1>1, <1>2, <1>3

\* A request comes in.
LEMMA KilledByEnter ==
    ASSUME ViewersInv, Killed, NEW h \in Handlers, NEW role, NEW pc, NEW keep,
           Enter(h, role, pc, keep), UNCHANGED stream
    PROVE  Killed'
<1>1. handler \in [Handlers -> Visit] /\ handler[h].pc = "idle"
  BY ViewersTyped DEF ViewersInv, Enter
<1>2. \A g \in Handlers : g # h => handler'[g] = handler[g]  BY <1>1 DEF Enter
<1> QED  BY <1>1, <1>2, KilledStill

\* A handler that is not at "end" goes on, and the stream stays as it is.
LEMMA KilledByTurn ==
    ASSUME ViewersInv, Killed, NEW h \in Handlers, handler[h].pc # "end", UNCHANGED stream,
           \A g \in Handlers : g # h => handler'[g].pc = handler[g].pc
    PROVE  Killed'
BY KilledStill

LEMMA Went1 ==
    ASSUME ViewersInv, NEW h \in Handlers, NEW pc, Goto(h, pc)
    PROVE  /\ \A g \in Handlers : g # h => handler'[g].pc = handler[g].pc
           /\ handler'[h].pc = pc
<1>1. handler \in [Handlers -> Visit] /\ handler[h] \in Visit  BY ViewersTyped DEF ViewersInv
<1>2. \A g \in Handlers : g # h => handler'[g] = handler[g]  BY <1>1 DEF Goto
<1>3. handler'[h] = [handler[h] EXCEPT !.pc = pc]  BY <1>1 DEF Goto
<1> QED  BY <1>1, <1>2, <1>3 DEF Visit

\* A hop: the stream keeps its process, or a cold one starts another.
LEMMA KilledByHop ==
    ASSUME ViewersInv, Killed, NEW h \in Handlers,
           Advance(h) \/ (\E live \in BOOLEAN : TuneEnds(h, live)) \/ TuneFails(h)
    PROVE  Killed'
<1>1. stream \in StreamSession /\ handler \in [Handlers -> Visit]
  BY ViewersTyped DEF ViewersInv
<1>2. CASE Advance(h)
  <2>1. handler[h].pc # "end"  BY <1>2 DEF Advance, Runs
  <2>2. \A g \in Handlers : g # h => handler'[g].pc = handler[g].pc
    <3> SUFFICES ASSUME NEW g \in Handlers, g # h PROVE handler'[g].pc = handler[g].pc
      OBVIOUS
    <3>1. PICK b : handler'[g] = [handler[g] EXCEPT !.overtaken = b]  BY <1>2 DEF Advance
    <3> QED  BY <1>1, <3>1 DEF Visit
  <2>3. CASE Registered
    <3>1. stream' = [stream EXCEPT !.status = "retuning"]  BY <1>2, <2>3 DEF Advance
    <3>2. stream'.state # "gone"  BY <1>1, <2>3, <3>1 DEF StreamSession, Registered
    <3> QED  BY <3>2, KilledNext
  <2>4. CASE ~Registered
    <3>1. UNCHANGED stream  BY <1>2, <2>4 DEF Advance
    <3> QED  BY <2>1, <2>2, <3>1, KilledByTurn
  <2> QED  BY <2>3, <2>4
<1>3. ASSUME NEW live \in BOOLEAN, TuneEnds(h, live) PROVE Killed'
  <2>1. handler[h].pc # "end" /\ (live => stream.alive) /\ Goto(h, "read")
    BY <1>3 DEF TuneEnds, Runs
  <2>2. \A g \in Handlers : handler[g].pc = "end" => handler'[g].pc = "end"
    BY <2>1, Went1
  <2>3. PICK center, twice : /\ twice = (stream.crossed \/ (~live /\ ~Registered))
                             /\ stream' = [stream EXCEPT !.tuned = sweep.point_index, !.alive = TRUE,
                                                         !.status = "running", !.pipe = center,
                                                         !.crossed = twice]
    BY <1>3 DEF TuneEnds
  <2>4. stream'.state = stream.state /\ stream'.crossed = twice  BY <1>1, <2>3 DEF StreamSession
  <2>5. CASE Registered
    BY <2>4, <2>5, KilledNext DEF Registered
  <2>6. CASE ~Registered /\ ~live
    BY <2>3, <2>4, <2>6, KilledNext
  <2>7. CASE stream.state = "none"
    BY <2>4, <2>7, KilledNext
  <2>8. CASE stream.state = "gone" /\ live
    BY <2>1, <2>2, <2>3, <2>4, <2>8, KilledNext
  <2> QED  BY <1>1, <2>5, <2>6, <2>7, <2>8 DEF StreamSession, Registered
<1>4. CASE TuneFails(h)
  <2>1. stream'.alive = FALSE  BY <1>1, <1>4 DEF TuneFails, StreamSession
  <2> QED  BY <2>1, KilledNext
<1> QED  BY <1>2, <1>3, <1>4

\* A read and what its handler does with the chunk.
LEMMA KilledByRead ==
    ASSUME ViewersInv, Killed, NEW h \in Handlers,
           \/ Accept(h) \/ AcceptFails(h) \/ CallMissed(h) \/ CallReads(h)
           \/ ReadChunk(h) \/ ReadNothing(h) \/ ResumeEmpty(h) \/ ResumeChunk(h) \/ SendFails(h)
    PROVE  Killed'
<1>1. handler \in [Handlers -> Visit]  BY ViewersTyped DEF ViewersInv
<1>2. CASE Accept(h) \/ AcceptFails(h) \/ CallMissed(h) \/ CallReads(h) \/ ResumeEmpty(h)
  <2>1. handler[h].pc # "end" /\ UNCHANGED stream /\ \E pc : Goto(h, pc)
    BY <1>2 DEF Accept, AcceptFails, CallMissed, CallReads, ResumeEmpty, Runs
  <2> QED  BY <2>1, Went1, KilledByTurn
<1>3. CASE ReadChunk(h) \/ ReadNothing(h) \/ ResumeChunk(h) \/ SendFails(h)
  <2>1. handler[h].pc # "end" /\ UNCHANGED stream
    BY <1>3 DEF ReadChunk, ReadNothing, ResumeChunk, SendFails, Runs
  <2>2. \A g \in Handlers : g # h => handler'[g] = handler[g]
    BY <1>1, <1>3 DEF ReadChunk, ReadNothing, ResumeChunk, SendFails
  <2> QED  BY <2>1, <2>2, KilledByTurn
<1> QED  BY <1>2, <1>3

\* A stop takes the session out of the dict first and ends its process then.
LEMMA KilledByStop ==
    ASSUME ViewersInv, Killed, NEW h \in Handlers, Leave(h) \/ StopSweep(h) \/ StopEnds(h)
    PROVE  Killed'
<1>1. stream \in StreamSession  BY ViewersTyped DEF ViewersInv
<1>2. CASE Leave(h) \/ StopSweep(h)
  <2>1. handler[h].pc # "end" /\ \E pc : Goto(h, pc)  BY <1>2 DEF Leave, StopSweep, Runs
  <2>2. UNCHANGED stream \/ Goto(h, "end")
    <3>1. CASE Leave(h)  BY <3>1 DEF Leave
    <3>2. CASE StopSweep(h)  BY <3>2 DEF StopSweep
    <3> QED  BY <1>2, <3>1, <3>2
  <2>3. CASE UNCHANGED stream  BY <2>1, <2>3, Went1, KilledByTurn
  <2>4. CASE Goto(h, "end")
    <3>1. handler'[h].pc = "end"  BY <2>4, Went1
    <3> QED  BY <3>1, KilledNext
  <2> QED  BY <2>2, <2>3, <2>4
<1>3. CASE StopEnds(h)
  <2>1. stream'.alive = FALSE  BY <1>1, <1>3 DEF StopEnds, StreamSession
  <2> QED  BY <2>1, KilledNext
<1> QED  BY <1>2, <1>3

LEMMA NextKilled == ViewersInv /\ Killed /\ [ViewersNext]_viewerVars => Killed'
<1> SUFFICES ASSUME ViewersInv, Killed, [ViewersNext]_viewerVars PROVE Killed'
  OBVIOUS
<1>1. CASE \/ StartStream \/ StartSweep \/ ListSweep \/ StartNativeSweep
           \/ Deliver \/ ProcessExits \/ ReaderReacts
  BY <1>1, KilledByStream
<1>2. ASSUME NEW h \in Handlers,
             \/ ProbeBegins(h) \/ SendRequest(h) \/ Step(h)
             \/ \E keep \in BOOLEAN : Connect(h, keep) \/ ConnectSweep(h, keep)
      PROVE  Killed'
  <2>1. CASE ProbeBegins(h)
    <3>1. stream'.state # "gone"  BY <2>1, StartedIs DEF ProbeBegins, ViewersInv
    <3> QED  BY <3>1, KilledNext
  <2>2. CASE SendRequest(h) \/ \E keep \in BOOLEAN : Connect(h, keep) \/ ConnectSweep(h, keep)
    <3>1. UNCHANGED stream  BY <2>2 DEF SendRequest, Connect, ConnectSweep
    <3>2. PICK role, pc, keep : Enter(h, role, pc, keep)
      BY <2>2 DEF SendRequest, Connect, ConnectSweep
    <3> QED  BY <3>1, <3>2, KilledByEnter
  <2>3. CASE Step(h)
    BY <2>3, KilledByRead, KilledByHop, KilledByStop DEF Step
  <2> QED  BY <1>2, <2>1, <2>2, <2>3
<1>3. CASE UNCHANGED viewerVars
  <2>1. UNCHANGED <<stream, handler>>  BY <1>3 DEF viewerVars
  <2> QED  BY <2>1, KilledStill
<1> QED  BY <1>1, <1>2, <1>3 DEF ViewersNext

LEMMA InitKilled == ViewersInit => Killed
<1> SUFFICES ASSUME ViewersInit PROVE Killed
  OBVIOUS
<1>1. stream.state = "none"  BY DEF ViewersInit
<1> QED  BY <1>1 DEF Killed

\* A viewer without keep, a probe and the stop route leave neither a stream nor
\* its process behind, and whoever has stopped a sweep leaves none of it behind:
\* iq_stream, iq_sweep_stream, StreamManager.stop and IQSweepManager.stop.  Two
\* cases are excepted and named in NotLeftRunning: a cold retune that crosses
\* the stop starts a process of its own, and a viewer whose handshake failed
\* does not come to its finally clause.
THEOREM ViewersLeaveNothingRunning == ViewersSpec => []NotLeftRunning
<1>1. ViewersInv /\ Killed => NotLeftRunning
  <2> SUFFICES ASSUME ViewersInv, Killed, NEW h \in Handlers,
                      handler[h].pc = "done", ~handler[h].keep
               PROVE  CASE handler[h].role \in {"ws", "probe", "stop"} -> Over
                        [] handler[h].role \in {"sweep_ws", "sweep_stop"} ->
                              /\ sweep.state = "gone"
                              /\ sweep.hops => Over \/ \E g \in Handlers : handler[g].pc = "stop"
                        [] OTHER -> TRUE
    BY DEF NotLeftRunning
  <2>1. Sees(handler[h]) /\ BeingStopped /\ SourceBegun /\ stream \in StreamSession
    BY HandlerSees, ViewersTyped DEF ViewersInv
  <2>2. ~Registered /\ stream.state # "none" => Over
    BY <2>1 DEF Over, Killed, Registered, StreamSession
  <2>3. handler[h].role \in {"ws", "probe", "stop"} => Over
    BY <2>1, <2>2 DEF Sees, Registered
  <2>4. handler[h].role \in {"sweep_ws", "sweep_stop"} =>
           /\ sweep.state = "gone"
           /\ sweep.hops => Over \/ \E g \in Handlers : handler[g].pc = "stop"
    <3> SUFFICES ASSUME handler[h].role \in {"sweep_ws", "sweep_stop"}
                 PROVE  /\ sweep.state = "gone"
                        /\ sweep.hops => Over \/ \E g \in Handlers : handler[g].pc = "stop"
      OBVIOUS
    <3>1. sweep.state = "gone"  BY <2>1 DEF Sees
    <3>2. sweep.hops /\ Registered => \E g \in Handlers : handler[g].pc = "stop"
      BY <2>1, <3>1 DEF BeingStopped
    <3>3. sweep.hops /\ ~Registered => Over  BY <2>1, <2>2 DEF SourceBegun
    <3> QED  BY <3>1, <3>2, <3>3
  <2> QED  BY <2>3, <2>4
<1>2. ViewersInit => ViewersInv /\ Killed  BY InitViewersInv, InitKilled
<1>3. ViewersInv /\ Killed /\ [ViewersNext]_viewerVars => (ViewersInv /\ Killed)'
  BY NextViewersInv, NextKilled
<1> QED  BY <1>1, <1>2, <1>3, PTL DEF ViewersSpec

\* A chunk goes out with the centre it was taken at, but for the cases that
\* LabelRight names: _advance moves the index before StreamManager.retune
\* clears the ring, and read_chunk takes its chunk after that.
THEOREM ViewersLabelRight == ViewersSpec => []LabelRight
<1>1. ViewersInv => LabelRight
  <2> SUFFICES ASSUME ViewersInv, NEW h \in Handlers PROVE Labelled(handler[h])
    BY DEF LabelRight, Labelled
  <2> QED  BY HandlerSees DEF Sees
<1> QED  BY <1>1, ViewersInvHolds, PTL
=============================================================================
