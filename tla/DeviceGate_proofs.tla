-------------------------- MODULE DeviceGate_proofs --------------------------
(***************************************************************************)
(* Proofs about DeviceGate: any devices, request threads and session ids,  *)
(* with missions or without.                                               *)
(***************************************************************************)
EXTENDS DeviceGate, SequenceTheorems, TLAPS

-----------------------------------------------------------------------------
(* The invariant                                                           *)

\* A request that waits for the next one names nothing, one that starts a
\* session has its manager and device, and only one that starts or stops a
\* session names it.
NamesItsSession ==
    \A q \in Requesters :
        /\ request[q].pc = "idle" => request[q] = Idle
        /\ request[q].pc \notin {"stop", "list"} => request[q].id = None
        /\ request[q].replace => request[q].pc # "idle"
        /\ request[q].pc = "release" => request[q].replace
        /\ request[q].pc \in {"check", "open", "release"} =>
              request[q].kind \in Kinds /\ request[q].dev \in Devices
        /\ request[q].replace => request[q].kind \in Kinds /\ request[q].dev \in Devices

\* The session a start has opened is not listed yet, is on the device asked
\* for, and no other request names it.
OpenedIsOwn ==
    \A q \in Requesters : request[q].pc = "list" =>
        /\ request[q].id \in Held /\ ~sessions[request[q].id].listed /\ request[q].id # None
        /\ sessions[request[q].id].dev = request[q].dev
        /\ \A r \in Requesters \ {q} : request[r].id # request[q].id

\* A session no manager lists is in the hands of the request that starts or
\* stops it, which counts for the device of the session.
UnlistedIsHandled ==
    \A i \in Held : ~sessions[i].listed =>
        \E r \in Requesters :
            /\ request[r].pc \in {"stop", "list"} /\ request[r].id = i
            /\ request[r].dev = sessions[i].dev

\* The ids a release has noted are not given to a session of another device.
VictimsOfDevice ==
    \A q \in Requesters : \A i \in request[q].victims :
        i \in Held => sessions[i].dev = request[q].dev

\* A request without a race is alone with its device.
AloneUnlessRaced ==
    \A q \in Requesters : request[q].pc # "idle" /\ ~raced[q] => ~Contended(q)

\* Of the receivers of its device, a release has noted or stopped those of the
\* managers it has gone through.
Cleared ==
    \A q \in Requesters :
        request[q].replace /\ ~raced[q] /\ request[q].pc \in {"release", "stop", "check"} =>
            \A i \in Held :
                sessions[i].listed /\ sessions[i].dev = request[q].dev /\ sessions[i].kind # "tx" =>
                    \/ \E m \in DOMAIN request[q].managers : request[q].managers[m] = sessions[i].kind
                    \/ i \in request[q].victims
                    \/ request[q].pc = "stop" /\ request[q].id = i

\* No process is on the device of a request that was let through.
AdmittedIsFree ==
    \A q \in Requesters : request[q].pc = "open" /\ ~raced[q] =>
        \A i \in Held : sessions[i].open => sessions[i].dev # request[q].dev

CheckedIsDone ==
    \A q \in Requesters : request[q].pc = "check" =>
        request[q].managers = <<>> /\ request[q].victims = {}

IInv ==
    /\ TypeOK /\ NamesItsSession /\ OpenedIsOwn /\ UnlistedIsHandled /\ VictimsOfDevice
    /\ AloneUnlessRaced /\ Cleared /\ AdmittedIsFree /\ CheckedIsDone
-----------------------------------------------------------------------------
(* Types                                                                   *)

Suffixes == {SubSeq(RxManagers, i, Len(RxManagers)) : i \in 1 .. 4}
Request == [pc : {"idle", "release", "stop", "check", "open", "list"},
            kind : Kinds \cup {None}, dev : Devices \cup {None}, replace : BOOLEAN,
            managers : Suffixes, victims : SUBSET Ids, id : Ids \cup {None}]

\* What is left of the managers, and what the next one is.
LEMMA ManagersLeft ==
    /\ <<>> \in Suffixes /\ RxManagers \in Suffixes
    /\ \A m \in Suffixes : m \in Seq({"iq_sweep", "sweep", "stream"})
    /\ \A m \in Suffixes : m # <<>> =>
          /\ Tail(m) \in Suffixes
          /\ \A k \in DOMAIN m : m[k] = Head(m) \/ \E j \in DOMAIN Tail(m) : Tail(m)[j] = m[k]
<1> DEFINE A == {"iq_sweep", "sweep", "stream"}
<1>1. RxManagers \in Seq(A) /\ Len(RxManagers) = 3  BY DEF RxManagers
<1>2. SubSeq(RxManagers, 1, 3) = RxManagers /\ SubSeq(RxManagers, 4, 3) = <<>>  BY <1>1
<1>3. <<>> \in Suffixes /\ RxManagers \in Suffixes  BY <1>1, <1>2 DEF Suffixes
<1>4. ASSUME NEW i \in 1 .. 4
      PROVE  /\ SubSeq(RxManagers, i, 3) \in Seq(A)
             /\ i < 4 => Tail(SubSeq(RxManagers, i, 3)) = SubSeq(RxManagers, i + 1, 3)
  BY SMTT(20), <1>1
<1>5. \A m \in Suffixes : m \in Seq(A)  BY <1>1, <1>4 DEF Suffixes
<1>6. ASSUME NEW m \in Suffixes, m # <<>> PROVE Tail(m) \in Suffixes
  <2>1. PICK i \in 1 .. 4 : m = SubSeq(RxManagers, i, 3)  BY <1>1 DEF Suffixes
  <2>2. i < 4  BY <1>2, <1>6, <2>1
  <2> QED  BY <1>1, <1>4, <2>1, <2>2 DEF Suffixes
<1>7. ASSUME NEW m \in Seq(A), m # <<>>, NEW k \in DOMAIN m
      PROVE  m[k] = Head(m) \/ \E j \in DOMAIN Tail(m) : Tail(m)[j] = m[k]
  <2>1. CASE k = 1  BY <1>7, <2>1
  <2>2. CASE k # 1
    <3>1. k - 1 \in DOMAIN Tail(m) /\ Tail(m)[k - 1] = m[k]  BY <1>7, <2>2
    <3> QED  BY <3>1
  <2> QED  BY <2>1, <2>2
<1> QED  BY <1>3, <1>5, <1>6, <1>7

LEMMA Types ==
    TypeOK <=>
        /\ Held \subseteq Ids /\ sessions \in [Held -> Session]
        /\ request \in [Requesters -> Request] /\ raced \in [Requesters -> BOOLEAN]
        /\ \A q \in Requesters : request[q].pc = "list" =>
              request[q].id \in Held /\ ~sessions[request[q].id].listed
BY DEF TypeOK, Held, Request, Suffixes

LEMMA TypesNext ==
    ASSUME Held' \subseteq Ids, sessions' \in [Held' -> Session],
           request' \in [Requesters -> Request], raced' \in [Requesters -> BOOLEAN], OpenedIsOwn'
    PROVE  TypeOK'
BY DEF TypeOK, Held, Request, Suffixes, OpenedIsOwn

LEMMA IdleTyped == Idle \in Request
BY ManagersLeft DEF Idle, Request

LEMMA InitIInv == Init => IInv
<1> SUFFICES ASSUME Init PROVE IInv
  OBVIOUS
<1>1. Held = {} /\ \A q \in Requesters : request[q] = Idle  BY DEF Init, Held
<1>2. TypeOK
  <2>1. sessions \in [Held -> Session]  BY DEF Init, Held
  <2> QED  BY <1>1, <2>1, IdleTyped, Types DEF Init, Idle
<1>3. Idle.pc = "idle" /\ Idle.id = None /\ Idle.replace = FALSE /\ Idle.victims = {}  BY DEF Idle
<1>4. NamesItsSession /\ OpenedIsOwn /\ UnlistedIsHandled /\ VictimsOfDevice
  BY <1>1, <1>3 DEF NamesItsSession, OpenedIsOwn, UnlistedIsHandled, VictimsOfDevice
<1>5. AloneUnlessRaced /\ Cleared /\ AdmittedIsFree /\ CheckedIsDone
  BY <1>1, <1>3 DEF AloneUnlessRaced, Cleared, AdmittedIsFree, CheckedIsDone
<1> QED  BY <1>2, <1>4, <1>5 DEF IInv

-----------------------------------------------------------------------------
(* The invariant is kept                                                   *)

Races ==
    raced' = [q \in Requesters |->
          /\ request'[q].pc # "idle"
          /\ \/ raced[q] \/ Contended(q)'
             \/ request[q].pc = "idle" /\ request'[q].pc = "open"]

\* A request without a race after a step had none before it.
LEMMA NotRaced ==
    ASSUME TypeOK, Races, NEW r \in Requesters, request'[r].pc # "idle", ~raced'[r]
    PROVE  /\ ~raced[r] /\ ~Contended(r)'
           /\ request'[r].pc = "open" => request[r].pc # "idle"
BY DEF Races

LEMMA RacedTyped ==
    ASSUME TypeOK, TypeOK', Races
    PROVE  raced' \in [Requesters -> BOOLEAN] /\ AloneUnlessRaced'
<1>1. AloneUnlessRaced'  BY NotRaced DEF AloneUnlessRaced
<1> QED  BY <1>1, Types DEF TypeOK

\* Requests that deal with one device know of each other.
LEMMA OthersApart ==
    ASSUME IInv, Races, NEW q \in Requesters, NEW r \in Requesters \ {q},
           request'[r] = request[r], request[r].pc # "idle", ~raced'[r]
    PROVE  /\ ~raced[r]
           /\ request[q].pc # "idle" => request[q].dev # request[r].dev
           /\ request'[q].pc # "idle" => request'[q].dev # request[r].dev
<1>1. ~raced[r] /\ ~Contended(r)'  BY NotRaced DEF IInv
<1>2. ~Contended(r)  BY <1>1 DEF IInv, AloneUnlessRaced
<1> QED  BY <1>1, <1>2 DEF Contended

\* A step of a request that opens, lists and stops nothing.
LEMMA RequestStep ==
    ASSUME IInv, Races, UNCHANGED sessions, NEW q \in Requesters, NEW x \in Request,
           request' = [request EXCEPT ![q] = x],
           request[q].pc \notin {"stop", "list"}, x.pc \notin {"stop", "list"}, x.id = None,
           x.pc = "idle" => x = Idle, x.replace => x.pc # "idle", x.pc = "release" => x.replace,
           x.pc # "idle" => x.kind \in Kinds /\ x.dev \in Devices,
           \A i \in x.victims : i \in Held => sessions[i].dev = x.dev,
           x.pc = "check" => x.managers = <<>> /\ x.victims = {},
           x.replace /\ ~raced'[q] /\ x.pc \in {"release", "check"} =>
              \A i \in Held :
                 sessions[i].listed /\ sessions[i].dev = x.dev /\ sessions[i].kind # "tx" =>
                    i \in x.victims \/ \E m \in DOMAIN x.managers : x.managers[m] = sessions[i].kind,
           x.pc = "open" /\ ~raced'[q] =>
              \A i \in Held : sessions[i].open => sessions[i].dev # x.dev
    PROVE  IInv'
<1>1. /\ TypeOK /\ request \in [Requesters -> Request] /\ request' \in [Requesters -> Request]
      /\ request'[q] = x /\ \A r \in Requesters : r # q => request'[r] = request[r]
      /\ Held' = Held
  BY Types DEF IInv, Held
<1>2. OpenedIsOwn'
  BY <1>1 DEF IInv, OpenedIsOwn
<1>3. raced' \in [Requesters -> BOOLEAN]  BY DEF Races
<1>4. TypeOK'
  <2>1. Held \subseteq Ids /\ sessions \in [Held -> Session]  BY <1>1, Types
  <2> QED  BY <1>1, <1>2, <1>3, <2>1, TypesNext
<1>5. NamesItsSession'  BY <1>1 DEF IInv, NamesItsSession
<1>6. UnlistedIsHandled'
  BY <1>1 DEF IInv, UnlistedIsHandled
<1>7. VictimsOfDevice'  BY <1>1 DEF IInv, VictimsOfDevice
<1>8. AloneUnlessRaced'  BY <1>1, <1>4, RacedTyped
<1>9. CheckedIsDone'  BY <1>1 DEF IInv, CheckedIsDone
<1>10. \A r \in Requesters : request'[r].pc # "idle" /\ ~raced'[r] => ~raced[r]
  BY <1>1, NotRaced
<1>11. Cleared'
  <2> SUFFICES ASSUME NEW r \in Requesters, request'[r].replace, ~raced'[r],
                      request'[r].pc \in {"release", "stop", "check"}, NEW i \in Held,
                      sessions[i].listed, sessions[i].dev = request'[r].dev,
                      sessions[i].kind # "tx"
               PROVE  \/ \E m \in DOMAIN request'[r].managers : request'[r].managers[m] = sessions[i].kind
                      \/ i \in request'[r].victims
                      \/ request'[r].pc = "stop" /\ request'[r].id = i
    BY <1>1 DEF Cleared
  <2>1. CASE r = q  BY <1>1, <2>1
  <2>2. CASE r # q
    <3>1. request'[r] = request[r] /\ ~raced[r]  BY <1>1, <1>10, <2>2
    <3> QED  BY <3>1 DEF IInv, Cleared
  <2> QED  BY <2>1, <2>2
<1>12. AdmittedIsFree'
  BY <1>1, <1>10 DEF IInv, AdmittedIsFree
<1> QED
  BY <1>2, <1>4, <1>5, <1>6, <1>7, <1>8, <1>9, <1>11, <1>12 DEF IInv

LEMMA RequestSteps ==
    ASSUME IInv, Races, NEW q \in Requesters,
           \/ \E kind \in Kinds, dev \in Devices, replace \in BOOLEAN : Start(q, kind, dev, replace)
           \/ \E dev \in Devices : ApexStart(q, dev)
           \/ ReleaseNext(q) \/ ReleaseDone(q) \/ StopMissed(q)
           \/ Refuse(q) \/ Admit(q) \/ OpenFails(q)
    PROVE  IInv'
<1> DEFINE rq == request[q]
<1>1. /\ TypeOK /\ request \in [Requesters -> Request] /\ rq \in Request
      /\ Held \subseteq Ids /\ sessions \in [Held -> Session]
  BY Types DEF IInv
<1>2. /\ rq.pc = "idle" => rq = Idle
      /\ rq.pc \notin {"stop", "list"} => rq.id = None
      /\ rq.replace => rq.pc # "idle"
      /\ rq.pc = "release" => rq.replace
      /\ rq.pc \in {"check", "open", "release"} => rq.kind \in Kinds /\ rq.dev \in Devices
      /\ \A i \in rq.victims : i \in Held => sessions[i].dev = rq.dev
  BY DEF IInv, NamesItsSession, VictimsOfDevice
<1>3. Idle.pc = "idle" /\ Idle.id = None /\ Idle.replace = FALSE /\ Idle.victims = {}
  BY DEF Idle
<1>4. request'[q].pc # "idle" /\ ~raced'[q] =>
         ~raced[q] /\ ~Contended(q)' /\ (request'[q].pc = "open" => rq.pc # "idle")
  BY <1>1, NotRaced
<1>5. CASE \E kind \in Kinds, dev \in Devices, replace \in BOOLEAN : Start(q, kind, dev, replace)
  <2>1. PICK kind \in Kinds, dev \in Devices, replace \in BOOLEAN : Start(q, kind, dev, replace)
    BY <1>5
  <2>0. PICK pc, left : pc = (IF replace THEN "release" ELSE "check")
                     /\ left = (IF replace THEN RxManagers ELSE <<>>)
    OBVIOUS
  <2> DEFINE x == [Idle EXCEPT !.pc = pc, !.kind = kind, !.dev = dev, !.replace = replace,
                               !.managers = left]
  <2>2. /\ request' = [request EXCEPT ![q] = x] /\ UNCHANGED sessions /\ rq.pc = "idle"
    BY <2>0, <2>1 DEF Start
  <2>3. x \in Request  BY <2>0, IdleTyped, ManagersLeft DEF Request
  <2>4. ASSUME NEW i \in Held, sessions[i].kind # "tx"
        PROVE  \E m \in DOMAIN RxManagers : RxManagers[m] = sessions[i].kind
    <3>1. sessions[i].kind \in {"stream", "sweep", "iq_sweep"}  BY <1>1, <2>4 DEF Session, Kinds
    <3>2. /\ RxManagers[1] = "iq_sweep" /\ RxManagers[2] = "sweep" /\ RxManagers[3] = "stream"
          /\ DOMAIN RxManagers = 1 .. 3
      BY DEF RxManagers
    <3> QED  BY <3>1, <3>2
  <2>5. x.pc \in {"release", "check"} /\ x.id = None /\ x.victims = {}
        /\ (x.pc = "check" => x.managers = <<>> /\ ~x.replace)
        /\ (x.replace => x.managers = RxManagers) /\ (x.pc = "release" => x.replace) /\ x.kind \in Kinds /\ x.dev \in Devices
    BY <2>0 DEF Idle
  <2> HIDE DEF x
  <2> QED  BY ZenonT(30), <2>2, <2>3, <2>4, <2>5, RequestStep
<1>6. CASE \E dev \in Devices : ApexStart(q, dev)
  <2>1. PICK dev \in Devices : ApexStart(q, dev)  BY <1>6
  <2> DEFINE x == [Idle EXCEPT !.pc = "open", !.kind = "sweep", !.dev = dev]
  <2>2. request' = [request EXCEPT ![q] = x] /\ UNCHANGED sessions /\ rq.pc = "idle"
    BY <2>1 DEF ApexStart
  <2>3. x \in Request  BY IdleTyped DEF Request, Kinds
  <2>4. x.pc = "open" /\ x.id = None /\ x.victims = {} /\ x.replace = FALSE
        /\ x.kind \in Kinds /\ x.dev \in Devices
    BY DEF Idle, Kinds
  <2> HIDE DEF x
  <2>5. raced'[q]  BY <1>1, <1>4, <2>2, <2>4
  <2> QED  BY <2>2, <2>3, <2>4, <2>5, RequestStep
<1>7. CASE ReleaseNext(q)
  <2> DEFINE x == [rq EXCEPT !.victims = Victims(q), !.managers = Tail(@)]
  <2>1. /\ request' = [request EXCEPT ![q] = x] /\ UNCHANGED sessions /\ rq.pc = "release"
        /\ rq.victims = {} /\ rq.managers # <<>> /\ rq.managers \in Suffixes
    BY <1>1, <1>7 DEF ReleaseNext, Request
  <2>2. Tail(rq.managers) \in Suffixes /\ Victims(q) \in SUBSET Ids
    BY <1>1, <2>1, ManagersLeft DEF Victims, Listed
  <2>3. x \in Request  BY <1>1, <2>2 DEF Request
  <2>4. /\ x.pc = "release" /\ x.id = rq.id /\ x.victims = Victims(q) /\ x.replace = rq.replace
        /\ x.dev = rq.dev /\ x.managers = Tail(rq.managers) /\ x.kind = rq.kind
    BY <1>1, <2>1 DEF Request
  <2> HIDE DEF x
  <2>5. \A i \in x.victims : i \in Held => sessions[i].dev = x.dev  BY <2>4 DEF Victims
  <2>6. ASSUME x.replace, ~raced'[q], NEW i \in Held,
               sessions[i].listed, sessions[i].dev = x.dev, sessions[i].kind # "tx"
        PROVE  i \in x.victims \/ \E m \in DOMAIN x.managers : x.managers[m] = sessions[i].kind
    <3>1. request'[q] = x  BY <1>1, <2>1
    <3>2. ~raced[q]  BY <1>4, <2>4, <2>6, <3>1
    <3>3. PICK m \in DOMAIN rq.managers : rq.managers[m] = sessions[i].kind
      BY <2>1, <2>4, <2>6, <3>2 DEF IInv, Cleared
    <3>4. \/ sessions[i].kind = Head(rq.managers)
          \/ \E j \in DOMAIN Tail(rq.managers) : Tail(rq.managers)[j] = sessions[i].kind
      BY ZenonT(30), <2>1, <3>3, ManagersLeft
    <3> QED  BY <2>4, <2>6, <3>4 DEF Victims, Listed
  <2> QED  BY <1>2, <2>1, <2>3, <2>4, <2>5, <2>6, RequestStep
<1>8. CASE ReleaseDone(q)
  <2> DEFINE x == [rq EXCEPT !.pc = "check"]
  <2>1. /\ request' = [request EXCEPT ![q] = x] /\ UNCHANGED sessions /\ rq.pc = "release"
        /\ rq.victims = {} /\ rq.managers = <<>>
    BY <1>1, <1>8 DEF ReleaseDone, Goto
  <2>2. x \in Request  BY <1>1 DEF Request
  <2>3. /\ x.pc = "check" /\ x.id = rq.id /\ x.victims = {} /\ x.replace = rq.replace
        /\ x.dev = rq.dev /\ x.managers = <<>> /\ x.kind = rq.kind
    BY <1>1, <2>1 DEF Request
  <2> HIDE DEF x
  <2>4. x.replace /\ ~raced'[q] =>
           \A i \in Held :
              ~(sessions[i].listed /\ sessions[i].dev = x.dev /\ sessions[i].kind # "tx")
    <3>1. request'[q] = x  BY <1>1, <2>1
    <3>2. ~raced'[q] => ~raced[q]  BY <1>4, <2>3, <3>1
    <3>3. DOMAIN rq.managers = {}  BY <2>1
    <3> QED  BY <2>1, <2>3, <3>2, <3>3 DEF IInv, Cleared
  <2> QED  BY <1>2, <2>1, <2>2, <2>3, <2>4, RequestStep
<1>9. CASE StopMissed(q)
  <2>1. PICK i \in rq.victims :
           /\ i \in Held => ~sessions[i].listed
           /\ request' = [request EXCEPT ![q].victims = @ \ {i}]
    BY <1>9 DEF StopMissed
  <2> DEFINE x == [rq EXCEPT !.victims = @ \ {i}]
  <2>2. request' = [request EXCEPT ![q] = x] /\ UNCHANGED sessions /\ rq.pc = "release"
    BY <1>1, <1>9, <2>1 DEF StopMissed
  <2>3. x \in Request  BY <1>1 DEF Request
  <2>4. /\ x.pc = "release" /\ x.id = rq.id /\ x.victims = rq.victims \ {i}
        /\ x.replace = rq.replace /\ x.dev = rq.dev /\ x.managers = rq.managers
        /\ x.kind = rq.kind
    BY <1>1, <2>2 DEF Request
  <2> HIDE DEF x
  <2>5. request'[q] = x  BY <1>1, <2>2
  <2>6. ~raced'[q] => ~raced[q]  BY <1>4, <2>4, <2>5
  <2>7. x.replace /\ ~raced'[q] =>
           \A k \in Held :
              sessions[k].listed /\ sessions[k].dev = x.dev /\ sessions[k].kind # "tx" =>
                 k \in x.victims \/ \E m \in DOMAIN x.managers : x.managers[m] = sessions[k].kind
    <3> SUFFICES ASSUME x.replace, ~raced'[q], NEW k \in Held, sessions[k].listed,
                        sessions[k].dev = x.dev, sessions[k].kind # "tx"
                 PROVE  k \in x.victims \/ \E m \in DOMAIN x.managers : x.managers[m] = sessions[k].kind
      OBVIOUS
    <3>1. \/ \E m \in DOMAIN rq.managers : rq.managers[m] = sessions[k].kind
          \/ k \in rq.victims
      BY <2>2, <2>4, <2>6 DEF IInv, Cleared
    <3>2. k # i  BY <2>1
    <3> QED  BY <2>4, <3>1, <3>2
  <2> QED  BY <1>2, <2>2, <2>3, <2>4, <2>7, RequestStep
<1>10. CASE Refuse(q) \/ OpenFails(q)
  <2>1. request' = [request EXCEPT ![q] = Idle] /\ UNCHANGED sessions
        /\ rq.pc \in {"check", "open"}
    BY <1>10 DEF Refuse, OpenFails, Return
  <2> QED  BY <1>3, <2>1, IdleTyped, RequestStep
<1>11. CASE Admit(q)
  <2> DEFINE x == [rq EXCEPT !.pc = "open"]
  <2>1. /\ request' = [request EXCEPT ![q] = x] /\ UNCHANGED sessions /\ rq.pc = "check"
        /\ ~Occupied(rq.dev)
    BY <1>1, <1>11 DEF Admit, Goto
  <2>2. x \in Request  BY <1>1 DEF Request
  <2>3. /\ x.pc = "open" /\ x.id = rq.id /\ x.victims = rq.victims /\ x.replace = rq.replace
        /\ x.dev = rq.dev /\ x.kind = rq.kind
    BY <1>1, <2>1 DEF Request
  <2> HIDE DEF x
  <2>4. request'[q] = x  BY <1>1, <2>1
  <2>5. ASSUME ~raced'[q], NEW i \in Held, sessions[i].open, sessions[i].dev = x.dev
        PROVE  FALSE
    <3>1. ~sessions[i].listed
      BY <1>1, <2>1, <2>3, <2>5 DEF Occupied, Occupying
    <3>2. PICK r \in Requesters :
             request[r].pc \in {"stop", "list"} /\ request[r].dev = sessions[i].dev
      BY <3>1 DEF IInv, UnlistedIsHandled
    <3>3. r # q  BY <2>1, <3>2
    <3>4. ~raced[q]  BY <1>4, <2>3, <2>4, <2>5
    <3>5. Contended(q)  BY <2>3, <2>5, <3>2, <3>3 DEF Contended
    <3> QED  BY <2>1, <3>4, <3>5 DEF IInv, AloneUnlessRaced
  <2> QED  BY <1>2, <2>1, <2>2, <2>3, <2>5, RequestStep
<1> QED  BY <1>5, <1>6, <1>7, <1>8, <1>9, <1>10, <1>11

LEMMA OpenStep ==
    ASSUME IInv, Races, NEW q \in Requesters, Open(q)
    PROVE  IInv'
<1> DEFINE rq == request[q]
<1>1. /\ TypeOK /\ request \in [Requesters -> Request] /\ rq \in Request
      /\ Held \subseteq Ids /\ sessions \in [Held -> Session] /\ rq.pc = "open"
  BY Types DEF IInv, Open
<1>2. PICK i \in Ids \ (Held \cup Named) :
         /\ sessions' = [x \in Held \cup {i} |->
               IF x = i THEN [kind |-> rq.kind, dev |-> rq.dev, listed |-> FALSE, open |-> TRUE]
                        ELSE sessions[x]]
         /\ request' = [request EXCEPT ![q].pc = "list", ![q].id = i]
  BY DEF Open
<1>3. /\ Held' = Held \cup {i} /\ i \notin Held
      /\ sessions'[i].dev = rq.dev /\ ~sessions'[i].listed
      /\ \A k \in Held : sessions'[k] = sessions[k]
  BY <1>2 DEF Held
<1>4. /\ request'[q] = [rq EXCEPT !.pc = "list", !.id = i]
      /\ \A r \in Requesters : r # q => request'[r] = request[r]
      /\ request'[q].pc = "list" /\ request'[q].id = i /\ request'[q].dev = rq.dev
      /\ request'[q].victims = rq.victims /\ request'[q].replace = rq.replace
  BY <1>1, <1>2 DEF Request
<1>5. /\ \A r \in Requesters : i # request[r].id /\ i \notin request[r].victims
      /\ i # None
  <2>1. \A r \in Requesters : i # request[r].id /\ i \notin request[r].victims
    BY <1>2 DEF Named
  <2>2. rq.id = None  BY <1>1 DEF IInv, NamesItsSession
  <2> QED  BY <2>1, <2>2
<1>6. \A r \in Requesters \ {q} : request'[r].pc # "idle" /\ ~raced'[r] =>
         ~raced[r] /\ request[r].dev # rq.dev
  <2> SUFFICES ASSUME NEW r \in Requesters \ {q}, request'[r].pc # "idle", ~raced'[r]
               PROVE  ~raced[r] /\ request[r].dev # rq.dev
    OBVIOUS
  <2>1. ~raced[r] /\ ~Contended(r)'  BY <1>1, NotRaced
  <2>2. request'[q].dev # request'[r].dev  BY <1>4, <2>1 DEF Contended
  <2> QED  BY <1>4, <2>1, <2>2
<1>7. OpenedIsOwn'
  <2> SUFFICES ASSUME NEW r \in Requesters, request'[r].pc = "list"
               PROVE  /\ request'[r].id \in Held' /\ ~sessions'[request'[r].id].listed
                      /\ request'[r].id # None /\ sessions'[request'[r].id].dev = request'[r].dev
                      /\ \A s \in Requesters \ {r} : request'[s].id # request'[r].id
    BY DEF OpenedIsOwn
  <2>1. CASE r = q  BY ZenonT(30), <1>3, <1>4, <1>5, <2>1
  <2>2. CASE r # q
    <3>1. /\ request[r].id \in Held /\ ~sessions[request[r].id].listed /\ request[r].id # None
          /\ sessions[request[r].id].dev = request[r].dev
          /\ \A s \in Requesters \ {r} : request[s].id # request[r].id
      BY <1>4, <2>2 DEF IInv, OpenedIsOwn
    <3> QED  BY ZenonT(30), <1>3, <1>4, <1>5, <2>2, <3>1
  <2> QED  BY <2>1, <2>2
<1>8. request' \in [Requesters -> Request] /\ raced' \in [Requesters -> BOOLEAN]
  <2>1. [rq EXCEPT !.pc = "list", !.id = i] \in Request  BY <1>1, <1>2 DEF Request
  <2>2. request' = [request EXCEPT ![q] = [rq EXCEPT !.pc = "list", !.id = i]]  BY <1>1, <1>2
  <2> QED  BY <1>1, <2>1, <2>2 DEF Races
<1>9. TypeOK'
  <2>1. rq.kind \in Kinds /\ rq.dev \in Devices
    BY <1>1 DEF IInv, NamesItsSession
  <2>2. [kind |-> rq.kind, dev |-> rq.dev, listed |-> FALSE, open |-> TRUE] \in Session
    BY <2>1 DEF Session
  <2>3. sessions' \in [Held' -> Session] /\ Held' \subseteq Ids
    BY <1>1, <1>2, <1>3, <2>2
  <2> QED  BY <1>7, <1>8, <2>3, TypesNext
<1>10. NamesItsSession'
  <2>1. request'[q].kind = rq.kind  BY <1>1, <1>4 DEF Request
  <2>2. rq.replace => rq.kind \in Kinds /\ rq.dev \in Devices
    BY DEF IInv, NamesItsSession
  <2>3. \A r \in Requesters \ {q} : request'[r] = request[r]  BY <1>4
  <2> QED  BY ZenonT(30), <1>4, <2>1, <2>2, <2>3 DEF IInv, NamesItsSession
<1>11. UnlistedIsHandled'
  <2> SUFFICES ASSUME NEW k \in Held', ~sessions'[k].listed
               PROVE  \E r \in Requesters :
                         /\ request'[r].pc \in {"stop", "list"} /\ request'[r].id = k
                         /\ request'[r].dev = sessions'[k].dev
    BY DEF UnlistedIsHandled
  <2>1. CASE k = i  BY <1>3, <1>4, <2>1
  <2>2. CASE k # i
    <3>1. k \in Held /\ sessions'[k] = sessions[k]  BY <1>3, <2>2
    <3>2. PICK r \in Requesters : request[r].pc \in {"stop", "list"} /\ request[r].id = k
                                  /\ request[r].dev = sessions[k].dev
      BY <3>1 DEF IInv, UnlistedIsHandled
    <3>3. r # q  BY <1>1, <3>2
    <3> QED  BY <1>4, <3>1, <3>2, <3>3
  <2> QED  BY <2>1, <2>2
<1>12. VictimsOfDevice'
  <2>1. \A r \in Requesters : request'[r].victims = request[r].victims
                              /\ request'[r].dev = request[r].dev
    BY <1>4
  <2>2. \A k \in Held' : k # i => k \in Held /\ sessions'[k] = sessions[k]  BY <1>3
  <2> QED  BY <1>5, <2>1, <2>2 DEF IInv, VictimsOfDevice
<1>13. AloneUnlessRaced'  BY <1>1, <1>9, RacedTyped
<1>14. CheckedIsDone'  BY <1>4 DEF IInv, CheckedIsDone
<1>15. Cleared'
  <2> SUFFICES ASSUME NEW r \in Requesters, request'[r].replace, ~raced'[r],
                      request'[r].pc \in {"release", "stop", "check"}, NEW k \in Held',
                      sessions'[k].listed, sessions'[k].dev = request'[r].dev,
                      sessions'[k].kind # "tx"
               PROVE  \/ \E m \in DOMAIN request'[r].managers : request'[r].managers[m] = sessions'[k].kind
                      \/ k \in request'[r].victims
                      \/ request'[r].pc = "stop" /\ request'[r].id = k
    BY DEF Cleared
  <2>1. r # q /\ request'[r] = request[r]  BY <1>4
  <2>2. k \in Held /\ sessions'[k] = sessions[k]  BY <1>3
  <2>3. ~raced[r]  BY <1>6, <2>1
  <2> QED  BY <2>1, <2>2, <2>3 DEF IInv, Cleared
<1>16. AdmittedIsFree'
  <2> SUFFICES ASSUME NEW r \in Requesters, request'[r].pc = "open", ~raced'[r],
                      NEW k \in Held', sessions'[k].open
               PROVE  sessions'[k].dev # request'[r].dev
    BY DEF AdmittedIsFree
  <2>1. r # q /\ request'[r] = request[r]  BY <1>4
  <2>2. ~raced[r] /\ request[r].dev # rq.dev  BY <1>6, <2>1
  <2>3. CASE k = i  BY <1>3, <2>1, <2>2, <2>3
  <2>4. CASE k # i
    <3>1. k \in Held /\ sessions'[k] = sessions[k]  BY <1>3, <2>4
    <3> QED  BY <2>1, <2>2, <3>1 DEF IInv, AdmittedIsFree
  <2> QED  BY <2>3, <2>4
<1> QED
  BY <1>7, <1>9, <1>10, <1>11, <1>12, <1>13, <1>14, <1>15, <1>16 DEF IInv

LEMMA ListStep ==
    ASSUME IInv, Races, NEW q \in Requesters, List(q)
    PROVE  IInv'
<1> DEFINE rq == request[q]
           i == rq.id
<1>1. /\ TypeOK /\ request \in [Requesters -> Request] /\ Held \subseteq Ids
      /\ sessions \in [Held -> Session] /\ rq.pc = "list" /\ i \in Held
      /\ sessions[i].dev = rq.dev /\ i # None
      /\ \A s \in Requesters \ {q} : request[s].id # i
  BY Types DEF IInv, OpenedIsOwn, List
<1>2. /\ sessions' = [sessions EXCEPT ![i].listed = TRUE]
      /\ request' = [request EXCEPT ![q] = Idle]
  BY DEF List, Return
<1>3. /\ Held' = Held
      /\ sessions'[i] = [sessions[i] EXCEPT !.listed = TRUE]
      /\ \A k \in Held : k # i => sessions'[k] = sessions[k]
      /\ request'[q] = Idle /\ \A r \in Requesters : r # q => request'[r] = request[r]
  BY <1>1, <1>2 DEF Held
<1>4. /\ \A k \in Held : sessions'[k].dev = sessions[k].dev /\ sessions'[k].open = sessions[k].open
      /\ sessions'[i].listed
  BY <1>1, <1>3 DEF Session
<1>5. Idle.pc = "idle" /\ Idle.id = None /\ Idle.replace = FALSE /\ Idle.victims = {}
  BY DEF Idle
<1>6. OpenedIsOwn'
  <2> SUFFICES ASSUME NEW r \in Requesters, request'[r].pc = "list"
               PROVE  /\ request'[r].id \in Held' /\ ~sessions'[request'[r].id].listed
                      /\ request'[r].id # None /\ sessions'[request'[r].id].dev = request'[r].dev
                      /\ \A s \in Requesters \ {r} : request'[s].id # request'[r].id
    BY DEF OpenedIsOwn
  <2>1. r # q /\ request'[r] = request[r]  BY <1>3, <1>5
  <2>2. /\ request[r].id \in Held /\ ~sessions[request[r].id].listed /\ request[r].id # None
        /\ sessions[request[r].id].dev = request[r].dev
        /\ \A s \in Requesters \ {r} : request[s].id # request[r].id
    BY <2>1 DEF IInv, OpenedIsOwn
  <2> QED  BY <1>1, <1>3, <1>5, <2>1, <2>2
<1>7. TypeOK'
  <2>1. request' \in [Requesters -> Request] /\ raced' \in [Requesters -> BOOLEAN]
    BY <1>1, <1>2, IdleTyped DEF Races
  <2>2. sessions' \in [Held -> Session]
    <3>1. [sessions[i] EXCEPT !.listed = TRUE] \in Session  BY <1>1 DEF Session
    <3> QED  BY <1>1, <1>2, <3>1
  <2> QED  BY <1>1, <1>3, <1>6, <2>1, <2>2, TypesNext
<1>8. NamesItsSession'  BY <1>3, <1>5 DEF IInv, NamesItsSession
<1>9. UnlistedIsHandled'
  <2> SUFFICES ASSUME NEW k \in Held', ~sessions'[k].listed
               PROVE  \E r \in Requesters :
                         /\ request'[r].pc \in {"stop", "list"} /\ request'[r].id = k
                         /\ request'[r].dev = sessions'[k].dev
    BY DEF UnlistedIsHandled
  <2>1. k # i /\ k \in Held /\ sessions'[k] = sessions[k]  BY <1>3, <1>4
  <2>2. PICK r \in Requesters : request[r].pc \in {"stop", "list"} /\ request[r].id = k
                                /\ request[r].dev = sessions[k].dev
    BY <2>1 DEF IInv, UnlistedIsHandled
  <2>3. r # q  BY <2>1, <2>2
  <2> QED  BY <1>3, <2>1, <2>2, <2>3
<1>10. VictimsOfDevice'  BY <1>3, <1>4, <1>5 DEF IInv, VictimsOfDevice
<1>11. AloneUnlessRaced'  BY <1>1, <1>7, RacedTyped
<1>12. CheckedIsDone'  BY <1>3, <1>5 DEF IInv, CheckedIsDone
<1>13. Cleared'
  <2> SUFFICES ASSUME NEW r \in Requesters, request'[r].replace, ~raced'[r],
                      request'[r].pc \in {"release", "stop", "check"}, NEW k \in Held',
                      sessions'[k].listed, sessions'[k].dev = request'[r].dev,
                      sessions'[k].kind # "tx"
               PROVE  \/ \E m \in DOMAIN request'[r].managers : request'[r].managers[m] = sessions'[k].kind
                      \/ k \in request'[r].victims
                      \/ request'[r].pc = "stop" /\ request'[r].id = k
    BY DEF Cleared
  <2>1. r # q /\ request'[r] = request[r]  BY <1>3, <1>5
  <2>2. ~raced[r] /\ request[r].dev # rq.dev  BY <1>1, <2>1, OthersApart
  <2>3. k # i /\ k \in Held /\ sessions'[k] = sessions[k]  BY <1>1, <1>3, <1>4, <2>1, <2>2
  <2> QED  BY <2>1, <2>2, <2>3 DEF IInv, Cleared
<1>14. AdmittedIsFree'
  <2> SUFFICES ASSUME NEW r \in Requesters, request'[r].pc = "open", ~raced'[r],
                      NEW k \in Held, sessions'[k].open
               PROVE  sessions'[k].dev # request'[r].dev
    BY <1>3 DEF AdmittedIsFree
  <2>1. r # q /\ request'[r] = request[r]  BY <1>3, <1>5
  <2>2. ~raced[r]  BY <2>1, OthersApart
  <2> QED  BY <1>4, <2>1, <2>2 DEF IInv, AdmittedIsFree
<1> QED
  BY <1>6, <1>7, <1>8, <1>9, <1>10, <1>11, <1>12, <1>13, <1>14 DEF IInv

LEMMA StopBeginsStep ==
    ASSUME IInv, Races, NEW q \in Requesters, NEW i \in Ids, StopBegins(q, i)
    PROVE  IInv'
<1> DEFINE rq == request[q]
<1>1. /\ TypeOK /\ request \in [Requesters -> Request] /\ Held \subseteq Ids
      /\ sessions \in [Held -> Session] /\ rq.pc \in {"idle", "release"} /\ rq \in Request
      /\ i \in Held /\ sessions[i].listed /\ sessions[i] \in Session
      /\ rq.pc = "release" => i \in rq.victims
  BY Types DEF IInv, StopBegins
<1>2. /\ rq.pc = "idle" => rq = Idle
      /\ rq.replace <=> rq.pc = "release"
      /\ rq.replace => rq.dev = sessions[i].dev
      /\ ~rq.replace => rq.victims = {}
  <2>1. Idle.victims = {} /\ Idle.replace = FALSE  BY DEF Idle
  <2> QED  BY <1>1, <2>1 DEF IInv, NamesItsSession, VictimsOfDevice
<1>3. PICK s \in Session :
         /\ s \in {Unlisted(i), Closed(i)} /\ sessions' = [sessions EXCEPT ![i] = s]
         /\ s.kind = sessions[i].kind /\ s.dev = sessions[i].dev
         /\ s.open => sessions[i].open
  <2>1. /\ Unlisted(i) \in Session /\ Closed(i) \in Session
        /\ Unlisted(i).kind = sessions[i].kind /\ Unlisted(i).dev = sessions[i].dev
        /\ Closed(i).kind = sessions[i].kind /\ Closed(i).dev = sessions[i].dev
        /\ Unlisted(i).open = sessions[i].open /\ ~Closed(i).open
    BY <1>1 DEF Unlisted, Closed, Session
  <2> QED  BY <2>1 DEF StopBegins
<1>4. PICK x : x = [rq EXCEPT !.pc = "stop", !.victims = @ \ {i}, !.id = i,
                              !.dev = IF rq.replace THEN @ ELSE sessions[i].dev]
  OBVIOUS
<1>5. request' = [request EXCEPT ![q] = x]  BY <1>1, <1>4 DEF StopBegins
<1>6. /\ x \in Request /\ x.pc = "stop" /\ x.victims = rq.victims \ {i} /\ x.id = i
      /\ x.dev = sessions[i].dev /\ x.replace = rq.replace /\ x.managers = rq.managers
      /\ x.kind = rq.kind
  <2>1. PICK d : d = (IF rq.replace THEN rq.dev ELSE sessions[i].dev)  OBVIOUS
  <2>2. d = sessions[i].dev /\ d \in Devices  BY <1>1, <1>2, <2>1 DEF Session
  <2>3. x = [rq EXCEPT !.pc = "stop", !.victims = @ \ {i}, !.id = i, !.dev = d]  BY <1>4, <2>1
  <2> QED  BY <1>1, <2>2, <2>3 DEF Request
<1>7. /\ Held' = Held /\ sessions'[i] = s
      /\ \A k \in Held : k # i => sessions'[k] = sessions[k]
      /\ request'[q] = x /\ \A r \in Requesters : r # q => request'[r] = request[r]
  BY <1>1, <1>3, <1>5 DEF Held
<1>8. \A k \in Held : /\ sessions'[k].dev = sessions[k].dev /\ sessions'[k].kind = sessions[k].kind
                      /\ sessions'[k].open => sessions[k].open
                      /\ sessions'[k].listed => sessions[k].listed
  BY <1>1, <1>3, <1>7
<1>9. OpenedIsOwn'
  <2> SUFFICES ASSUME NEW r \in Requesters, request'[r].pc = "list"
               PROVE  /\ request'[r].id \in Held' /\ ~sessions'[request'[r].id].listed
                      /\ request'[r].id # None /\ sessions'[request'[r].id].dev = request'[r].dev
                      /\ \A t \in Requesters \ {r} : request'[t].id # request'[r].id
    BY DEF OpenedIsOwn
  <2>1. r # q /\ request'[r] = request[r]  BY <1>6, <1>7
  <2>2. /\ request[r].id \in Held /\ ~sessions[request[r].id].listed /\ request[r].id # None
        /\ sessions[request[r].id].dev = request[r].dev
        /\ \A t \in Requesters \ {r} : request[t].id # request[r].id
    BY <2>1 DEF IInv, OpenedIsOwn
  <2>3. request[r].id # i  BY <1>1, <2>2
  <2> QED  BY <1>6, <1>7, <2>1, <2>2, <2>3
<1>10. TypeOK'
  <2>1. request' \in [Requesters -> Request] /\ raced' \in [Requesters -> BOOLEAN]
    BY <1>1, <1>5, <1>6 DEF Races
  <2>2. sessions' \in [Held -> Session]  BY <1>1, <1>3
  <2> QED  BY <1>1, <1>7, <1>9, <2>1, <2>2, TypesNext
<1>11. NamesItsSession'
  <2>1. x.replace => x.kind \in Kinds /\ x.dev \in Devices
    BY <1>1, <1>6 DEF IInv, NamesItsSession, Session
  <2>2. \A r \in Requesters \ {q} : request'[r] = request[r]  BY <1>7
  <2> QED  BY <1>6, <1>7, <2>1, <2>2 DEF IInv, NamesItsSession
<1>12. UnlistedIsHandled'
  <2> SUFFICES ASSUME NEW k \in Held', ~sessions'[k].listed
               PROVE  \E r \in Requesters :
                         /\ request'[r].pc \in {"stop", "list"} /\ request'[r].id = k
                         /\ request'[r].dev = sessions'[k].dev
    BY DEF UnlistedIsHandled
  <2>1. CASE k = i  BY <1>3, <1>6, <1>7, <2>1
  <2>2. CASE k # i
    <3>1. k \in Held /\ sessions'[k] = sessions[k]  BY <1>7, <2>2
    <3>2. PICK r \in Requesters : request[r].pc \in {"stop", "list"} /\ request[r].id = k
                                  /\ request[r].dev = sessions[k].dev
      BY <3>1 DEF IInv, UnlistedIsHandled
    <3>3. r # q  BY <1>1, <3>2
    <3> QED  BY <1>7, <3>1, <3>2, <3>3
  <2> QED  BY <2>1, <2>2
<1>13. VictimsOfDevice'
  <2>1. ASSUME NEW k \in x.victims, k \in Held PROVE sessions[k].dev = x.dev
    <3>1. k \in rq.victims /\ rq.replace  BY <1>2, <1>6, <2>1
    <3>2. sessions[k].dev = rq.dev  BY <2>1, <3>1 DEF IInv, VictimsOfDevice
    <3> QED  BY <1>2, <1>6, <3>1, <3>2
  <2> QED  BY <1>7, <1>8, <2>1 DEF IInv, VictimsOfDevice
<1>14. AloneUnlessRaced'  BY <1>1, <1>10, RacedTyped
<1>15. CheckedIsDone'  BY <1>6, <1>7 DEF IInv, CheckedIsDone
<1>16. Cleared'
  <2> SUFFICES ASSUME NEW r \in Requesters, request'[r].replace, ~raced'[r],
                      request'[r].pc \in {"release", "stop", "check"}, NEW k \in Held',
                      sessions'[k].listed, sessions'[k].dev = request'[r].dev,
                      sessions'[k].kind # "tx"
               PROVE  \/ \E m \in DOMAIN request'[r].managers : request'[r].managers[m] = sessions'[k].kind
                      \/ k \in request'[r].victims
                      \/ request'[r].pc = "stop" /\ request'[r].id = k
    BY DEF Cleared
  <2>1. /\ k \in Held /\ sessions[k].listed /\ sessions[k].dev = request'[r].dev
        /\ sessions[k].kind # "tx" /\ sessions'[k].kind = sessions[k].kind
    BY <1>7, <1>8
  <2>2. CASE r = q
    <3>1. request'[q].pc # "idle"  BY <1>6, <1>7
    <3>2. ~raced[q]  BY <1>1, <2>2, <3>1, NotRaced
    <3>3. rq.replace /\ rq.pc = "release" /\ sessions[k].dev = rq.dev
      BY <1>2, <1>6, <1>7, <2>1, <2>2
    <3>4. \/ \E m \in DOMAIN rq.managers : rq.managers[m] = sessions[k].kind
          \/ k \in rq.victims
      BY <2>1, <3>2, <3>3 DEF IInv, Cleared
    <3> QED  BY <1>6, <1>7, <2>1, <2>2, <3>4
  <2>3. CASE r # q
    <3>1. request'[r] = request[r] /\ ~raced[r]  BY <1>7, <2>3, OthersApart
    <3> QED  BY <2>1, <3>1 DEF IInv, Cleared
  <2> QED  BY <2>2, <2>3
<1>17. AdmittedIsFree'
  <2> SUFFICES ASSUME NEW r \in Requesters, request'[r].pc = "open", ~raced'[r],
                      NEW k \in Held, sessions'[k].open
               PROVE  sessions'[k].dev # request'[r].dev
    BY <1>7 DEF AdmittedIsFree
  <2>1. r # q /\ request'[r] = request[r]  BY <1>6, <1>7
  <2>2. ~raced[r]  BY <2>1, OthersApart
  <2> QED  BY <1>8, <2>1, <2>2 DEF IInv, AdmittedIsFree
<1> QED
  BY <1>9, <1>10, <1>11, <1>12, <1>13, <1>14, <1>15, <1>16, <1>17 DEF IInv

LEMMA StopEndsStep ==
    ASSUME IInv, Races, NEW q \in Requesters, StopEnds(q)
    PROVE  IInv'
<1> DEFINE rq == request[q]
           i == rq.id
<1>1. /\ TypeOK /\ request \in [Requesters -> Request] /\ Held \subseteq Ids
      /\ sessions \in [Held -> Session] /\ rq.pc = "stop" /\ rq \in Request
  BY Types DEF IInv, StopEnds
<1>2. /\ sessions' = [k \in Held \ {i} |-> sessions[k]]
      /\ request' = [request EXCEPT ![q] = IF rq.replace THEN [@ EXCEPT !.pc = "release", !.id = None]
                                           ELSE Idle]
  BY DEF StopEnds
<1>3. PICK x \in Request :
         /\ request' = [request EXCEPT ![q] = x] /\ x.id = None
         /\ \/ x = Idle
            \/ /\ x.pc = "release" /\ rq.replace /\ x.replace = rq.replace /\ x.dev = rq.dev
               /\ x.victims = rq.victims /\ x.managers = rq.managers /\ x.kind = rq.kind
  <2>1. CASE rq.replace
    <3>1. [rq EXCEPT !.pc = "release", !.id = None] \in Request  BY <1>1 DEF Request
    <3> QED  BY <1>1, <1>2, <2>1, <3>1 DEF Request
  <2>2. CASE ~rq.replace
    <3>1. Idle.id = None  BY DEF Idle
    <3> QED  BY <1>2, <2>2, <3>1, IdleTyped
  <2> QED  BY <2>1, <2>2
<1>4. Idle.pc = "idle" /\ Idle.id = None /\ Idle.replace = FALSE /\ Idle.victims = {}
  BY DEF Idle
<1>5. /\ Held' = Held \ {i} /\ \A k \in Held' : k \in Held /\ k # i /\ sessions'[k] = sessions[k]
      /\ request'[q] = x /\ \A r \in Requesters : r # q => request'[r] = request[r]
  BY <1>1, <1>2, <1>3 DEF Held
<1>6. OpenedIsOwn'
  <2> SUFFICES ASSUME NEW r \in Requesters, request'[r].pc = "list"
               PROVE  /\ request'[r].id \in Held' /\ ~sessions'[request'[r].id].listed
                      /\ request'[r].id # None /\ sessions'[request'[r].id].dev = request'[r].dev
                      /\ \A t \in Requesters \ {r} : request'[t].id # request'[r].id
    BY DEF OpenedIsOwn
  <2>1. r # q /\ request'[r] = request[r]  BY <1>3, <1>4, <1>5
  <2>2. /\ request[r].id \in Held /\ ~sessions[request[r].id].listed /\ request[r].id # None
        /\ sessions[request[r].id].dev = request[r].dev
        /\ \A t \in Requesters \ {r} : request[t].id # request[r].id
    BY <2>1 DEF IInv, OpenedIsOwn
  <2>3. request[r].id # i  BY <2>1, <2>2
  <2> QED  BY <1>3, <1>5, <2>1, <2>2, <2>3
<1>7. TypeOK'
  <2>1. request' \in [Requesters -> Request] /\ raced' \in [Requesters -> BOOLEAN]
    BY <1>1, <1>3 DEF Races
  <2>2. sessions' \in [Held' -> Session] /\ Held' \subseteq Ids  BY <1>1, <1>2, <1>5
  <2> QED  BY <1>6, <2>1, <2>2, TypesNext
<1>8. NamesItsSession'
  <2>1. rq.replace => rq.kind \in Kinds /\ rq.dev \in Devices  BY DEF IInv, NamesItsSession
  <2>2. \A r \in Requesters \ {q} : request'[r] = request[r]  BY <1>5
  <2> QED  BY <1>3, <1>4, <1>5, <2>1, <2>2 DEF IInv, NamesItsSession
<1>9. UnlistedIsHandled'
  <2> SUFFICES ASSUME NEW k \in Held', ~sessions'[k].listed
               PROVE  \E r \in Requesters :
                         /\ request'[r].pc \in {"stop", "list"} /\ request'[r].id = k
                         /\ request'[r].dev = sessions'[k].dev
    BY DEF UnlistedIsHandled
  <2>1. k # i /\ k \in Held /\ sessions'[k] = sessions[k]  BY <1>5
  <2>2. PICK r \in Requesters : request[r].pc \in {"stop", "list"} /\ request[r].id = k
                                /\ request[r].dev = sessions[k].dev
    BY <2>1 DEF IInv, UnlistedIsHandled
  <2>3. r # q  BY <2>1, <2>2
  <2> QED  BY <1>5, <2>1, <2>2, <2>3
<1>10. VictimsOfDevice'
  <2>1. \A r \in Requesters : \A k \in request'[r].victims :
           k \in request[r].victims /\ request'[r].dev = request[r].dev
    BY <1>3, <1>4, <1>5
  <2> QED  BY <1>5, <2>1 DEF IInv, VictimsOfDevice
<1>11. AloneUnlessRaced'  BY <1>1, <1>7, RacedTyped
<1>12. CheckedIsDone'  BY <1>3, <1>4, <1>5 DEF IInv, CheckedIsDone
<1>13. Cleared'
  <2> SUFFICES ASSUME NEW r \in Requesters, request'[r].replace, ~raced'[r],
                      request'[r].pc \in {"release", "stop", "check"}, NEW k \in Held',
                      sessions'[k].listed, sessions'[k].dev = request'[r].dev,
                      sessions'[k].kind # "tx"
               PROVE  \/ \E m \in DOMAIN request'[r].managers : request'[r].managers[m] = sessions'[k].kind
                      \/ k \in request'[r].victims
                      \/ request'[r].pc = "stop" /\ request'[r].id = k
    BY DEF Cleared
  <2>1. k # i /\ k \in Held /\ sessions'[k] = sessions[k]  BY <1>5
  <2>2. ~raced[r]  BY <1>1, NotRaced
  <2>3. CASE r = q
    <3>1. rq.replace /\ x.dev = rq.dev /\ x.victims = rq.victims /\ x.managers = rq.managers
      BY <1>3, <1>4, <1>5, <2>3
    <3>2. sessions[k].dev = rq.dev  BY <1>5, <2>1, <2>3, <3>1
    <3>3. \/ \E m \in DOMAIN rq.managers : rq.managers[m] = sessions[k].kind
          \/ k \in rq.victims
      BY <1>1, <2>1, <2>2, <2>3, <3>1, <3>2 DEF IInv, Cleared
    <3> QED  BY <1>5, <2>1, <2>3, <3>1, <3>3
  <2>4. CASE r # q
    <3>1. request'[r] = request[r]  BY <1>5, <2>4
    <3> QED  BY <2>1, <2>2, <3>1 DEF IInv, Cleared
  <2> QED  BY <2>3, <2>4
<1>14. AdmittedIsFree'
  <2> SUFFICES ASSUME NEW r \in Requesters, request'[r].pc = "open", ~raced'[r],
                      NEW k \in Held', sessions'[k].open
               PROVE  sessions'[k].dev # request'[r].dev
    BY DEF AdmittedIsFree
  <2>1. r # q /\ request'[r] = request[r]  BY <1>3, <1>4, <1>5
  <2>2. ~raced[r]  BY <2>1, OthersApart
  <2> QED  BY <1>5, <2>1, <2>2 DEF IInv, AdmittedIsFree
<1> QED
  BY <1>6, <1>7, <1>8, <1>9, <1>10, <1>11, <1>12, <1>13, <1>14 DEF IInv

LEMMA ExitStep ==
    ASSUME IInv, Races, NEW i \in Held, Exit(i)
    PROVE  IInv'
<1>1. /\ TypeOK /\ request \in [Requesters -> Request] /\ Held \subseteq Ids
      /\ sessions \in [Held -> Session] /\ sessions[i] \in Session
  BY Types DEF IInv
<1>2. /\ Held' = Held /\ UNCHANGED request
      /\ \A k \in Held : /\ sessions'[k].dev = sessions[k].dev /\ sessions'[k].kind = sessions[k].kind
                         /\ sessions'[k].open => sessions[k].open
                         /\ sessions'[k].listed = sessions[k].listed
      /\ sessions' \in [Held -> Session]
  <2>1. PICK s \in Session : /\ sessions' = [sessions EXCEPT ![i] = s]
                             /\ s.dev = sessions[i].dev /\ s.kind = sessions[i].kind
                             /\ s.listed = sessions[i].listed /\ ~s.open
    <3>1. /\ Closed(i) \in Session /\ ~Closed(i).open /\ Closed(i).dev = sessions[i].dev
          /\ Closed(i).kind = sessions[i].kind /\ Closed(i).listed = sessions[i].listed
      BY <1>1 DEF Closed, Session
    <3> QED  BY <3>1 DEF Exit
  <2> QED  BY <1>1, <2>1 DEF Held, Exit
<1>3. OpenedIsOwn'
  <2> SUFFICES ASSUME NEW r \in Requesters, request'[r].pc = "list"
               PROVE  /\ request'[r].id \in Held' /\ ~sessions'[request'[r].id].listed
                      /\ request'[r].id # None /\ sessions'[request'[r].id].dev = request'[r].dev
                      /\ \A t \in Requesters \ {r} : request'[t].id # request'[r].id
    BY DEF OpenedIsOwn
  <2> QED  BY <1>2 DEF IInv, OpenedIsOwn
<1>4. TypeOK'
  <2>1. raced' \in [Requesters -> BOOLEAN]  BY DEF Races
  <2> QED  BY <1>1, <1>2, <1>3, <2>1, TypesNext
<1>5. NamesItsSession' /\ CheckedIsDone'  BY <1>2 DEF IInv, NamesItsSession, CheckedIsDone
<1>6. UnlistedIsHandled'  BY <1>2 DEF IInv, UnlistedIsHandled
<1>7. VictimsOfDevice'  BY <1>2 DEF IInv, VictimsOfDevice
<1>8. AloneUnlessRaced'  BY <1>1, <1>4, RacedTyped
<1>9. \A r \in Requesters : request[r].pc # "idle" /\ ~raced'[r] => ~raced[r]
  BY <1>1, <1>2, NotRaced
<1>10. Cleared'
  <2> SUFFICES ASSUME NEW r \in Requesters, request'[r].replace, ~raced'[r],
                      request'[r].pc \in {"release", "stop", "check"}, NEW k \in Held,
                      sessions'[k].listed, sessions'[k].dev = request'[r].dev,
                      sessions'[k].kind # "tx"
               PROVE  \/ \E m \in DOMAIN request'[r].managers : request'[r].managers[m] = sessions'[k].kind
                      \/ k \in request'[r].victims
                      \/ request'[r].pc = "stop" /\ request'[r].id = k
    BY <1>2 DEF Cleared
  <2>1. request'[r] = request[r] /\ ~raced[r]  BY <1>2, <1>9
  <2> QED  BY <1>2, <2>1 DEF IInv, Cleared
<1>11. AdmittedIsFree'  BY <1>2, <1>9 DEF IInv, AdmittedIsFree
<1> QED
  BY <1>3, <1>4, <1>5, <1>6, <1>7, <1>8, <1>10, <1>11 DEF IInv

LEMMA IInvNext == IInv /\ [Next]_vars => IInv'
<1> SUFFICES ASSUME IInv, [Next]_vars PROVE IInv'
  OBVIOUS
<1>1. CASE Next
  <2>0. Races  BY <1>1 DEF Next, Races
  <2>1. ASSUME NEW q \in Requesters, NEW i \in Ids, StopBegins(q, i) PROVE IInv'
    BY <2>0, <2>1, StopBeginsStep
  <2>2. ASSUME NEW q \in Requesters, Step(q) PROVE IInv'
    BY <2>0, <2>1, <2>2, RequestSteps, OpenStep, ListStep, StopEndsStep DEF Step
  <2>3. ASSUME NEW q \in Requesters,
               \/ \E kind \in Kinds, dev \in Devices, replace \in BOOLEAN : Start(q, kind, dev, replace)
               \/ \E dev \in Devices : ApexStart(q, dev)
        PROVE IInv'
    BY <2>0, <2>3, RequestSteps
  <2>4. ASSUME NEW i \in Held, Exit(i) PROVE IInv'
    BY <2>0, <2>4, ExitStep
  <2> QED  BY <1>1, <2>1, <2>2, <2>3, <2>4 DEF Next, Move
<1>2. CASE UNCHANGED vars
  <2>1. UNCHANGED <<sessions, request, raced>>  BY <1>2 DEF vars, state
  <2>2. Held' = Held /\ \A q \in Requesters : Contended(q)' = Contended(q)
    BY <2>1 DEF Held, Contended
  <2>3. TypeOK' /\ NamesItsSession' /\ OpenedIsOwn' /\ UnlistedIsHandled' /\ VictimsOfDevice'
    BY <2>1, <2>2 DEF IInv, TypeOK, NamesItsSession, OpenedIsOwn, UnlistedIsHandled, VictimsOfDevice
  <2>4. AloneUnlessRaced' /\ Cleared' /\ AdmittedIsFree' /\ CheckedIsDone'
    BY <2>1, <2>2 DEF IInv, AloneUnlessRaced, Cleared, AdmittedIsFree, CheckedIsDone
  <2> QED  BY <2>3, <2>4 DEF IInv
<1> QED  BY <1>1, <1>2

LEMMA IInvHolds == Spec => []IInv
BY InitIInv, IInvNext, PTL DEF Spec

-----------------------------------------------------------------------------
(* Theorems                                                                *)

\* The variables keep their types, and a request with replace_existing that is
\* alone with its device finds no receiver of any manager left there when
\* _ensure_device_available looks: only a transmission refuses it.
THEOREM SafeHolds == Spec => []Safe
<1>1. IInv => Safe
  <2> SUFFICES ASSUME IInv, NEW q \in Requesters, request[q].pc = "check", request[q].replace,
                      Occupied(request[q].dev), ~raced[q]
               PROVE  \E i \in Listed("tx") : sessions[i].dev = request[q].dev /\ sessions[i].open
    BY DEF IInv, Safe, ReplaceRefusedOnlyByTx
  <2>1. PICK i \in Held : sessions[i].dev = request[q].dev /\ Occupying(i)  BY DEF Occupied
  <2>2. sessions[i].listed  BY <2>1 DEF Occupying
  <2>3. request[q].managers = <<>> /\ request[q].victims = {}  BY DEF IInv, CheckedIsDone
  <2>4. DOMAIN request[q].managers = {}  BY <2>3
  <2>5. sessions[i].kind = "tx"  BY <2>1, <2>2, <2>3, <2>4 DEF IInv, Cleared
  <2> QED  BY <2>1, <2>2, <2>5 DEF Occupying, Listed
<1> QED  BY <1>1, IInvHolds, PTL

\* A device is opened while a process has it only by a mission, which does not
\* ask the gate, or by a request that was not alone with the device between its
\* first step and its last: the check of _ensure_device_available and the start
\* of the manager are two steps without a lock.
THEOREM ExclusiveUnlessRacedHolds == Spec => ExclusiveUnlessRaced
<1>1. IInv =>
         \A q \in Requesters :
            (request[q].pc = "open" /\ request'[q].pc = "list" /\ ~raced[q])
                => \A i \in Held : sessions[i].open => sessions[i].dev # request[q].dev
  BY DEF IInv, AdmittedIsFree
<1> QED  BY <1>1, IInvHolds, PTL DEF ExclusiveUnlessRaced
=============================================================================
