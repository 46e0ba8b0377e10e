---------------------------- MODULE StreamBuffer ----------------------------
(***************************************************************************)
(* The ring of one StreamSession (src/app/services.py): the reader thread  *)
(* appends what the SDR process writes, old chunks are evicted when the    *)
(* ring exceeds its byte budget, a retune flushes it, and any number of    *)
(* client threads read through cursors of their own.                       *)
(*                                                                         *)
(* Every `with session.condition` block is atomic, except that the         *)
(* eviction loop of _append_stream_chunk is stepped one chunk at a time:   *)
(* `evicting` holds while the reader thread is in that loop, and so holds  *)
(* the lock.  The payload of a chunk is the interval [at, at + len) of the *)
(* device's byte stream; from, got and lost are history variables.         *)
(* The condition variable needs no wait set: a wait is bounded by 0.1 s,   *)
(* so a waiting thread may look again at any moment.                       *)
(***************************************************************************)
EXTENDS Integers, Sequences

CONSTANTS
    RingBytes,      \* DEFAULT_STREAM_RING_BYTES
    ChunkBytes,     \* DEFAULT_STREAM_CHUNK_BYTES, the most one pipe read returns
    Cursors,        \* cursor ids, "_default" among them
    Default,        \* the id read_chunk uses when the caller names no cursor
    Threads,        \* client threads (asyncio.to_thread workers)
    CursorOf,       \* thread -> the cursor it reads with
    ReadBytes,      \* thread -> the nbytes of its calls
    MaxSeq          \* bound on next_seq

ASSUME SizesAssumption ==
    /\ RingBytes \in Nat /\ ChunkBytes \in Nat \ {0} /\ ChunkBytes <= RingBytes
    /\ MaxSeq \in Nat
ASSUME ReadersAssumption ==
    /\ Default \in Cursors
    /\ CursorOf \in [Threads -> Cursors]
    /\ ReadBytes \in [Threads -> Int]

VARIABLES
    buffer,         \* the deque, oldest chunk first
    buffer_bytes,
    next_seq,
    cursors,        \* cursor id -> number of the first chunk not read yet
    live,           \* session.status is "running" or "retuning"
    registered,     \* the manager's dict still maps the id to this session
    evicting,       \* the reader thread is in the eviction loop
    pc, late,       \* client thread: where it is, its 2 s deadline has passed
    produced,       \* bytes appended so far
    from, got, lost \* cursor -> first number it could get, numbers it was
                    \* given, numbers dropped before it was given them

ring == <<buffer, buffer_bytes, next_seq, evicting, produced>>
history == <<from, got, lost>>
session == <<live, registered>>
clients == <<pc, late>>
vars == <<ring, cursors, session, clients, history>>

Chunk == [seq : Nat, at : Nat, len : 1 .. ChunkBytes]

TypeOK ==
    /\ buffer \in Seq(Chunk)
    /\ buffer_bytes \in Nat /\ next_seq \in Nat /\ produced \in Nat
    /\ \E S \in SUBSET Cursors : cursors \in [S -> Nat]
    /\ live \in BOOLEAN /\ registered \in BOOLEAN /\ evicting \in BOOLEAN
    /\ pc \in [Threads -> {"idle", "called", "waiting"}]
    /\ late \in [Threads -> BOOLEAN]
    /\ from \in [Cursors -> Nat]
    /\ got \in [Cursors -> SUBSET Nat]
    /\ lost \in [Cursors -> SUBSET Nat]

Init ==
    /\ buffer = <<>> /\ buffer_bytes = 0 /\ next_seq = 0 /\ produced = 0
    /\ cursors = [c \in {} |-> 0]
    /\ live = TRUE /\ registered = TRUE /\ evicting = FALSE
    /\ pc = [t \in Threads |-> "idle"]
    /\ late = [t \in Threads |-> FALSE]
    /\ from = [c \in Cursors |-> 0]
    /\ got = [c \in Cursors |-> {}]
    /\ lost = [c \in Cursors |-> {}]

Oldest == IF buffer = <<>> THEN next_seq ELSE buffer[1].seq
Held == {buffer[i].seq : i \in 1 .. Len(buffer)}

-----------------------------------------------------------------------------
(* _append_stream_chunk: one non-empty chunk, then the eviction loop.      *)

AppendChunk(len) ==
    /\ ~evicting /\ next_seq < MaxSeq
    /\ buffer' = Append(buffer, [seq |-> next_seq, at |-> produced, len |-> len])
    /\ buffer_bytes' = buffer_bytes + len
    /\ next_seq' = next_seq + 1
    /\ produced' = produced + len
    /\ evicting' = TRUE
    /\ UNCHANGED <<cursors, session, clients, history>>

OverBudget == buffer # <<>> /\ buffer_bytes > RingBytes

\* Error: eviction does not look at the cursors.
CursorsNotBumped(old_seq) == cursors

\* A cursor still to be given the evicted chunk is moved past it.
BumpedCursors(old_seq) ==
    [c \in DOMAIN cursors |-> IF cursors[c] <= old_seq THEN old_seq + 1 ELSE cursors[c]]

\* What registered cursors lose when the chunks numbered `gone` disappear.
LostWith(gone) ==
    [c \in Cursors |->
        IF c \in DOMAIN cursors
          THEN lost[c] \cup {n \in gone : n >= from[c] /\ n \notin got[c]}
          ELSE lost[c]]

Evict ==
    /\ evicting /\ OverBudget
    /\ buffer' = Tail(buffer)
    /\ buffer_bytes' = buffer_bytes - Head(buffer).len
    /\ cursors' = BumpedCursors(Head(buffer).seq)
    /\ lost' = LostWith({Head(buffer).seq})
    /\ UNCHANGED <<next_seq, evicting, produced, session, clients, from, got>>

AppendDone ==
    /\ evicting /\ ~OverBudget
    /\ evicting' = FALSE
    /\ UNCHANGED <<buffer, buffer_bytes, next_seq, produced, cursors, session, clients, history>>

-----------------------------------------------------------------------------
(* What the lifecycle of the session (module StreamManager) does to its    *)
(* readers: a retune flushes the ring, stop() removes the session, and     *)
(* retune, stop, and the end of the reader thread write session.status.    *)

FlushCursors == [c \in DOMAIN cursors |-> next_seq + 1]

Flushed(cursors_after) ==
    /\ ~evicting /\ next_seq < MaxSeq
    /\ buffer' = <<>>
    /\ buffer_bytes' = 0
    /\ next_seq' = next_seq + 1
    /\ cursors' = cursors_after
    /\ lost' = LostWith(Held \cup {next_seq})
    /\ UNCHANGED <<evicting, produced, session, clients, from, got>>

\* Error: the cursors are left as they were.
FlushKeepsCursors == Flushed(cursors)

\* _clear_stream_buffer
Flush == Flushed(FlushCursors)

Pop ==
    /\ registered
    /\ registered' = FALSE
    /\ UNCHANGED <<ring, cursors, live, clients, history>>

StatusChanges ==
    /\ live' = ~live
    /\ UNCHANGED <<ring, cursors, registered, clients, history>>

-----------------------------------------------------------------------------
(* Cursors: create_cursor, release_cursor and the registration done by a   *)
(* first read.                                                             *)

With(c, start) == [x \in DOMAIN cursors \cup {c} |-> IF x = c THEN start ELSE cursors[x]]

\* Ids are fresh: one is used again here only when no read still names it.
CreateCursor(c) ==
    /\ registered /\ ~evicting
    /\ c # Default /\ c \notin DOMAIN cursors
    /\ \A t \in Threads : CursorOf[t] = c => pc[t] = "idle"
    /\ \E start \in {Oldest, next_seq} :
          /\ cursors' = With(c, start)
          /\ from' = [from EXCEPT ![c] = start]
    /\ got' = [got EXCEPT ![c] = {}]
    /\ lost' = [lost EXCEPT ![c] = {}]
    /\ UNCHANGED <<ring, session, clients>>

\* The owner may give up a cursor while a read through it is in flight: a
\* cancelled request does not stop the thread that serves it.
ReleaseCursor(c) ==
    /\ registered /\ ~evicting
    /\ c \in DOMAIN cursors
    /\ cursors' = [x \in DOMAIN cursors \ {c} |-> cursors[x]]
    /\ from' = [from EXCEPT ![c] = 0]
    /\ got' = [got EXCEPT ![c] = {}]
    /\ lost' = [lost EXCEPT ![c] = {}]
    /\ UNCHANGED <<ring, session, clients>>

-----------------------------------------------------------------------------
(* _read_chunk_blocking                                                    *)

Call(t) ==
    /\ registered /\ pc[t] = "idle"
    /\ CursorOf[t] \in DOMAIN cursors \cup {Default}
    /\ pc' = [pc EXCEPT ![t] = "called"]
    /\ UNCHANGED <<ring, cursors, session, late, history>>

\* `cursor_id not in session.cursors`, tested once per call.
Registers(t) == pc[t] = "called" /\ CursorOf[t] \notin DOMAIN cursors

\* A cursor behind the ring is moved to the oldest chunk; one released while
\* the read waits counts as at `unknown`.
PositionOr(t, unknown) ==
    LET c == CursorOf[t]
        cursor_seq == CASE c \in DOMAIN cursors -> cursors[c]
                        [] Registers(t) -> Oldest
                        [] OTHER -> unknown
    IN IF cursor_seq < Oldest THEN Oldest ELSE cursor_seq

\* Error: a released cursor counts as at the oldest chunk.
PositionFromOldest(t) == PositionOr(t, Oldest)

\* The cursor the loop works with.
Position(t) == PositionOr(t, next_seq)

Within(first, last, nbytes) ==
    buffer[last].at + buffer[last].len - buffer[first].at <= nbytes

Fits(first, last, nbytes) ==
    last = first \/ Within(first, last, nbytes)

\* Error: the second chunk is taken first.
SelectedLate(t, first, last) ==
    /\ first <= last
    /\ first > 1 /\ buffer[first - 1].seq = Position(t)
    /\ last < Len(buffer) => ~Fits(first, last + 1, ReadBytes[t])

\* buffer[first..last] is what one pass of the selection loop takes: the first
\* chunk always, later ones while the total stays within nbytes.
Selected(t, first, last) ==
    /\ first <= last
    /\ buffer[first].seq >= Position(t)
    /\ first > 1 => buffer[first - 1].seq < Position(t)
    /\ Fits(first, last, ReadBytes[t])
    /\ last < Len(buffer) => ~Fits(first, last + 1, ReadBytes[t])

CaughtUp(t) == \A i \in 1 .. Len(buffer) : buffer[i].seq < Position(t)

\* The call returns; the deadline of the next one is its own.
Return(t) ==
    /\ pc' = [pc EXCEPT ![t] = "idle"]
    /\ late' = [late EXCEPT ![t] = FALSE]

Deliver(t) ==
    LET c == CursorOf[t] IN
    /\ pc[t] # "idle" /\ ~evicting
    /\ \E first, last \in 1 .. Len(buffer) :
          /\ Selected(t, first, last)
          /\ cursors' = With(c, buffer[last].seq + 1)
          /\ got' = [got EXCEPT ![c] = (IF Registers(t) THEN {} ELSE @)
                                       \cup {buffer[i].seq : i \in first .. last}]
    /\ from' = IF Registers(t) THEN [from EXCEPT ![c] = Oldest] ELSE from
    /\ lost' = IF Registers(t) THEN [lost EXCEPT ![c] = {}] ELSE lost
    /\ Return(t)
    /\ UNCHANGED <<ring, session>>

\* Nothing to select: the call returns b"" or waits.  Either way the cursor
\* registered at line 1229 and the clamp at 1235 stay.
NothingYet(t) ==
    LET c == CursorOf[t] IN
    /\ pc[t] # "idle" /\ ~evicting /\ CaughtUp(t)
    /\ IF Registers(t)
         THEN /\ cursors' = With(c, Oldest)
              /\ from' = [from EXCEPT ![c] = Oldest]
              /\ got' = [got EXCEPT ![c] = {}]
              /\ lost' = [lost EXCEPT ![c] = {}]
         ELSE UNCHANGED <<cursors, history>>
    /\ UNCHANGED <<ring, session>>

\* Error: the deadline is never looked at.
ReturnEmptyOnStop(t) == ~live /\ NothingYet(t) /\ Return(t)

ReturnEmpty(t) ==
    /\ ~live \/ late[t]
    /\ NothingYet(t)
    /\ Return(t)

Wait(t) ==
    /\ pc[t] = "called"
    /\ live /\ ~late[t]
    /\ NothingYet(t)
    /\ pc' = [pc EXCEPT ![t] = "waiting"]
    /\ UNCHANGED late

DeadlinePasses(t) ==
    /\ pc[t] # "idle" /\ ~late[t]
    /\ late' = [late EXCEPT ![t] = TRUE]
    /\ UNCHANGED <<ring, cursors, session, pc, history>>

-----------------------------------------------------------------------------
Attempt(t) == Deliver(t) \/ ReturnEmpty(t) \/ Wait(t)

Next ==
    \/ \E len \in 1 .. ChunkBytes : AppendChunk(len)
    \/ Evict \/ AppendDone
    \/ Flush \/ Pop \/ StatusChanges
    \/ \E c \in Cursors : CreateCursor(c) \/ ReleaseCursor(c)
    \/ \E t \in Threads : Call(t) \/ Attempt(t) \/ DeadlinePasses(t)

Spec == Init /\ [][Next]_vars

\* The reader thread leaves the eviction loop, a woken thread gets the lock,
\* time passes, and a client keeps reading (the loop of iq_stream in main.py).
Fairness ==
    /\ WF_vars(Evict \/ AppendDone)
    /\ \A t \in Threads : WF_vars(DeadlinePasses(t)) /\ SF_vars(Attempt(t))
    /\ \A t \in Threads : WF_vars(Call(t))

FairSpec == Spec /\ Fairness
-----------------------------------------------------------------------------
(* Properties                                                              *)

\* The ring never holds more than its budget once an append is over, and
\* buffer_bytes, kept by increments at every append, eviction and flush, is
\* the number of bytes really held.
RingBudget ==
    /\ ~evicting => buffer_bytes <= RingBytes
    /\ buffer_bytes = IF buffer = <<>> THEN 0 ELSE produced - buffer[1].at

\* The ring is a gapless run of the stream up to its newest chunk, in numbers
\* and in bytes: what one read joins is one interval of the stream.
RingContiguous ==
    /\ \A i \in 1 .. Len(buffer) : buffer[i].seq = next_seq - Len(buffer) + i - 1
    /\ \A i \in 1 .. Len(buffer) :
          buffer[i].at + buffer[i].len = IF i = Len(buffer) THEN produced ELSE buffer[i + 1].at

\* No registered cursor is ever behind the ring or ahead of the next number,
\* whatever evictions and flushes happened since it last moved: the clamp at
\* services.py 1233-1235 never has anything to do.
CursorsWithinRing == \A c \in DOMAIN cursors : cursors[c] \in Oldest .. next_seq

\* All that the ring owes its readers before they read.
RingInv == TypeOK /\ RingBudget /\ RingContiguous /\ CursorsWithinRing

\* Exactly once: a cursor was given, or lost to eviction or a retune, every
\* number between where it started and where it stands, none of them twice
\* and nothing beyond.
ExactlyOnce ==
    \A c \in DOMAIN cursors :
        /\ got[c] \cup lost[c] = from[c] .. (cursors[c] - 1)
        /\ got[c] \cap lost[c] = {}

\* A read that is already waiting when its cursor is released does not bring
\* the cursor back when it ends.
WaitingNeverRevives ==
    [][\A t \in Threads :
          (pc[t] = "waiting" /\ pc'[t] = "idle") => DOMAIN cursors' = DOMAIN cursors]_vars

\* Every read ends, whatever becomes of the stream meanwhile.
ReadReturns == \A t \in Threads : (pc[t] # "idle") ~> (pc[t] = "idle")

\* A client that keeps reading gets past every chunk of the ring (it is given
\* the chunk or the chunk is dropped) unless its cursor or its stream goes.
FeedProgress ==
    \A t \in Threads : \A n \in 0 .. MaxSeq :
        LET c == CursorOf[t] IN
        (c \in DOMAIN cursors /\ cursors[c] <= n /\ n < next_seq)
            ~> (c \in DOMAIN cursors => (cursors[c] > n \/ ~registered))

\* The ring implements the lossy feed.
Feed == INSTANCE LossyFeed WITH
    Subscribers <- Cursors, low <- next_seq - Len(buffer), high <- next_seq,
    position <- cursors, got <- got
ImplementsFeed == Feed!Spec
=============================================================================
