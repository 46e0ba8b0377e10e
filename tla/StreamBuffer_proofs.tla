------------------------ MODULE StreamBuffer_proofs ------------------------
(***************************************************************************)
(* Proofs about StreamBuffer, for every ring size, chunk size, set of      *)
(* cursors and set of client threads.                                      *)
(***************************************************************************)
EXTENDS StreamBuffer, TLAPS

(* What the safety properties need to be inductive: a chunk never extends  *)
(* past what was appended, and no cursor stands before its own start.      *)
ChunksProduced == \A i \in 1 .. Len(buffer) : buffer[i].at + buffer[i].len <= produced
StartsBeforeCursors == \A c \in DOMAIN cursors : from[c] <= cursors[c]

\* The part of the invariant about the ring alone, and the part about cursors.
RingOK ==
    /\ buffer \in Seq(Chunk)
    /\ buffer_bytes \in Nat /\ next_seq \in Nat /\ produced \in Nat
    /\ evicting \in BOOLEAN
    /\ RingBudget /\ RingContiguous /\ ChunksProduced

CursorsOK ==
    /\ \E S \in SUBSET Cursors : cursors \in [S -> Nat]
    /\ from \in [Cursors -> Nat]
    /\ got \in [Cursors -> SUBSET Nat]
    /\ lost \in [Cursors -> SUBSET Nat]
    /\ CursorsWithinRing /\ StartsBeforeCursors /\ ExactlyOnce

ClientsOK ==
    /\ live \in BOOLEAN /\ registered \in BOOLEAN
    /\ pc \in [Threads -> {"idle", "called", "waiting"}]
    /\ late \in [Threads -> BOOLEAN]

IInv == RingOK /\ CursorsOK /\ ClientsOK

-----------------------------------------------------------------------------
(* A chunk of the ring is a chunk.                                         *)
LEMMA ChunkTypes ==
    ASSUME NEW b \in Seq(Chunk), NEW i \in 1 .. Len(b)
    PROVE  b[i].seq \in Nat /\ b[i].at \in Nat /\ b[i].len \in 1 .. ChunkBytes /\ b[i].len \in Nat
<1>1. b[i] \in Chunk  OBVIOUS
<1> QED  BY <1>1, SizesAssumption DEF Chunk

(* The ring holds the numbers Oldest .. next_seq - 1.                      *)
LEMMA HeldNumbers ==
    ASSUME RingOK
    PROVE  /\ Oldest = next_seq - Len(buffer)
           /\ Oldest \in Nat
           /\ Oldest <= next_seq
           /\ Held = Oldest .. (next_seq - 1)
<1>1. buffer \in Seq(Chunk) /\ next_seq \in Nat
  BY DEF RingOK
<1>2. Len(buffer) \in Nat /\ (buffer = <<>> <=> Len(buffer) = 0)
  BY <1>1
<1>3. \A i \in 1 .. Len(buffer) : buffer[i].seq = next_seq - Len(buffer) + i - 1
  BY DEF RingOK, RingContiguous
<1>4. \A i \in 1 .. Len(buffer) : buffer[i].seq \in Nat
  BY <1>1, ChunkTypes
<1>5. Oldest = next_seq - Len(buffer)
  <2>1. CASE buffer = <<>>  BY <2>1, <1>2, <1>1 DEF Oldest
  <2>2. CASE buffer # <<>>
    <3>1. 1 \in 1 .. Len(buffer)  BY <2>2, <1>2
    <3>2. buffer[1].seq = next_seq - Len(buffer)  BY <3>1, <1>3, <1>2, <1>1
    <3> QED  BY <2>2, <3>2 DEF Oldest
  <2> QED  BY <2>1, <2>2
<1>6. Oldest \in Nat
  <2>1. CASE buffer = <<>>  BY <2>1, <1>1 DEF Oldest
  <2>2. CASE buffer # <<>>
    <3>1. 1 \in 1 .. Len(buffer)  BY <2>2, <1>2
    <3> QED  BY <2>2, <3>1, <1>4 DEF Oldest
  <2> QED  BY <2>1, <2>2
<1>7. Held = Oldest .. (next_seq - 1)
  <2> DEFINE L == Len(buffer)
  <2>1. \A n \in Held : n \in Oldest .. (next_seq - 1)
    <3>1. SUFFICES ASSUME NEW i \in 1 .. L
                   PROVE  buffer[i].seq \in Oldest .. (next_seq - 1)
      BY DEF Held
    <3>2. buffer[i].seq = next_seq - L + i - 1  BY <1>3
    <3> QED  BY <3>2, <1>5, <1>6, <1>2, <1>1
  <2>2. \A n \in Oldest .. (next_seq - 1) : n \in Held
    <3>1. SUFFICES ASSUME NEW n \in Oldest .. (next_seq - 1)
                   PROVE  \E i \in 1 .. L : buffer[i].seq = n
      BY DEF Held
    <3> DEFINE i == n - (next_seq - L) + 1
    <3>2. i \in 1 .. L  BY <1>2, <1>5, <1>6, <1>1
    <3>3. buffer[i].seq = next_seq - L + i - 1  BY <3>2, <1>3
    <3>4. buffer[i].seq = n  BY <3>3, <1>2, <1>5, <1>6, <1>1
    <3> QED  BY <3>2, <3>4
  <2> QED  BY <2>1, <2>2
<1> QED  BY <1>2, <1>5, <1>6, <1>7, <1>1
-----------------------------------------------------------------------------
(* The ring, step by step.                                                 *)

LEMMA AppendRing ==
    ASSUME RingOK, NEW len \in 1 .. ChunkBytes, AppendChunk(len)
    PROVE  RingOK' /\ Oldest' = Oldest /\ next_seq' = next_seq + 1
<1> DEFINE chunk == [seq |-> next_seq, at |-> produced, len |-> len]
           L == Len(buffer)
<1>1. /\ buffer \in Seq(Chunk) /\ L \in Nat
      /\ buffer_bytes \in Nat /\ next_seq \in Nat /\ produced \in Nat /\ len \in Nat
  BY SizesAssumption DEF RingOK
<1>2. /\ buffer' = Append(buffer, chunk)
      /\ buffer_bytes' = buffer_bytes + len
      /\ next_seq' = next_seq + 1
      /\ produced' = produced + len
      /\ evicting' = TRUE
  BY DEF AppendChunk
<1>3. chunk \in Chunk
  BY <1>1 DEF Chunk
<1>4. /\ buffer' \in Seq(Chunk) /\ Len(buffer') = L + 1 /\ buffer' # <<>>
      /\ \A i \in 1 .. L : buffer'[i] = buffer[i]
      /\ buffer'[L + 1] = chunk
  BY <1>1, <1>2, <1>3
<1> HIDE DEF L
<1>5. RingContiguous'
  <2>1. SUFFICES ASSUME NEW i \in 1 .. L + 1
                 PROVE  /\ buffer'[i].seq = next_seq' - (L + 1) + i - 1
                        /\ buffer'[i].at + buffer'[i].len =
                             IF i = L + 1 THEN produced' ELSE buffer'[i + 1].at
    BY <1>4 DEF RingContiguous
  <2>2. CASE i = L + 1  BY <2>2, <1>1, <1>2, <1>4
  <2>3. CASE i \in 1 .. L
    <3>1. buffer[i].seq = next_seq - L + i - 1
      BY <2>3 DEF RingOK, RingContiguous, L
    <3>2. buffer[i].at + buffer[i].len = IF i = L THEN produced ELSE buffer[i + 1].at
      BY <2>3 DEF RingOK, RingContiguous, L
    <3>3. buffer'[i + 1].at = IF i = L THEN produced ELSE buffer[i + 1].at
      <4>1. CASE i = L  BY <4>1, <1>4
      <4>2. CASE i # L
        <5>1. i + 1 \in 1 .. L  BY <4>2, <2>3, <1>1
        <5> QED  BY <4>2, <5>1, <1>4
      <4> QED  BY <4>1, <4>2
    <3> QED  BY <2>3, <3>1, <3>2, <3>3, <1>1, <1>2, <1>4
  <2> QED  BY <2>1, <2>2, <2>3, <1>1
<1>6. ChunksProduced'
  <2>1. SUFFICES ASSUME NEW i \in 1 .. L + 1
                 PROVE  buffer'[i].at + buffer'[i].len <= produced'
    BY <1>4 DEF ChunksProduced
  <2>2. CASE i = L + 1  BY SMTT(20), <2>2, <1>1, <1>2, <1>4
  <2>3. CASE i \in 1 .. L
    <3>1. buffer[i].at + buffer[i].len <= produced
      BY <2>3 DEF RingOK, ChunksProduced, L
    <3>2. buffer[i].at \in Nat /\ buffer[i].len \in Nat
      BY <2>3, <1>1, ChunkTypes DEF L
    <3> QED  BY <2>3, <3>1, <3>2, <1>1, <1>2, <1>4
  <2> QED  BY <2>1, <2>2, <2>3, <1>1
<1>7. RingBudget' /\ Oldest' = Oldest
  <2>1. CASE buffer = <<>>
    <3>1. L = 0 /\ buffer_bytes = 0  BY <2>1 DEF L, RingOK, RingBudget
    <3>2. buffer'[1] = chunk  BY <3>1, <1>4
    <3> QED  BY <2>1, <3>1, <3>2, <1>1, <1>2, <1>4 DEF RingBudget, Oldest
  <2>2. CASE buffer # <<>>
    <3>1. 1 \in 1 .. L  BY <2>2, <1>1 DEF L
    <3>2. buffer'[1] = buffer[1]  BY <3>1, <1>4
    <3>3. buffer_bytes = produced - buffer[1].at  BY <2>2 DEF RingOK, RingBudget
    <3>4. buffer[1].at \in Nat  BY <3>1, <1>1, ChunkTypes DEF L
    <3>5. buffer_bytes' = produced' - buffer'[1].at
      BY <3>2, <3>3, <3>4, <1>1, <1>2
    <3>6. RingBudget'  BY <3>5, <1>2, <1>4 DEF RingBudget
    <3>7. Oldest' = Oldest  BY <2>2, <3>2, <1>4 DEF Oldest
    <3> QED  BY <3>6, <3>7
  <2> QED  BY <2>1, <2>2
<1> QED  BY <1>1, <1>2, <1>4, <1>5, <1>6, <1>7 DEF RingOK

LEMMA EvictRing ==
    ASSUME RingOK, Evict
    PROVE  /\ RingOK'
           /\ Head(buffer).seq = Oldest /\ Oldest < next_seq
           /\ Oldest' = Oldest + 1 /\ next_seq' = next_seq
<1> DEFINE L == Len(buffer)
<1>1. /\ buffer \in Seq(Chunk) /\ L \in Nat
      /\ buffer_bytes \in Nat /\ next_seq \in Nat /\ produced \in Nat
      /\ buffer # <<>>
  BY DEF RingOK, Evict, OverBudget
<1>2. L > 0 /\ Head(buffer) = buffer[1]
  BY <1>1
<1>3. /\ buffer' = Tail(buffer)
      /\ buffer_bytes' = buffer_bytes - buffer[1].len
      /\ next_seq' = next_seq
      /\ produced' = produced
      /\ evicting = TRUE /\ evicting' = TRUE
  BY <1>2 DEF Evict, RingOK
<1>4. /\ buffer' \in Seq(Chunk) /\ Len(buffer') = L - 1
      /\ \A i \in 1 .. L - 1 : buffer'[i] = buffer[i + 1]
      /\ (buffer' = <<>> <=> L = 1)
  <2>1. Tail(buffer) \in Seq(Chunk) /\ Len(Tail(buffer)) = L - 1
    BY <1>1, <1>2
  <2>2. \A i \in 1 .. L - 1 : Tail(buffer)[i] = buffer[i + 1]
    BY <1>1, <1>2
  <2>3. Tail(buffer) = <<>> <=> Len(Tail(buffer)) = 0
    <3>1. \A b \in Seq(Chunk) : b = <<>> <=> Len(b) = 0  OBVIOUS
    <3> QED  BY <2>1, <3>1
  <2> QED  BY <1>1, <1>2, <1>3, <2>1, <2>2, <2>3
<1>5. \A i \in 1 .. L : /\ buffer[i].at \in Nat /\ buffer[i].len \in Nat
                        /\ buffer[i].seq = next_seq - L + i - 1
                        /\ buffer[i].at + buffer[i].len <= produced
                        /\ buffer[i].at + buffer[i].len =
                             IF i = L THEN produced ELSE buffer[i + 1].at
  <2>1. \A i \in 1 .. L : buffer[i].at \in Nat /\ buffer[i].len \in Nat
    BY <1>1, ChunkTypes
  <2> QED  BY <2>1 DEF RingOK, RingContiguous, ChunksProduced
<1> HIDE DEF L
<1>6. RingContiguous'
  <2>1. SUFFICES ASSUME NEW i \in 1 .. L - 1
                 PROVE  /\ buffer'[i].seq = next_seq - (L - 1) + i - 1
                        /\ buffer'[i].at + buffer'[i].len =
                             IF i = L - 1 THEN produced ELSE buffer'[i + 1].at
    BY ZenonT(30), <1>3, <1>4 DEF RingContiguous
  <2>2. i + 1 \in 1 .. L  BY <1>1, <1>2
  <2>3. i # L - 1 => buffer'[i + 1] = buffer[i + 1 + 1]  BY <1>1, <1>4
  <2>4. /\ buffer'[i] = buffer[i + 1]
        /\ buffer[i + 1].seq = next_seq - L + (i + 1) - 1
        /\ buffer[i + 1].at + buffer[i + 1].len =
             IF i + 1 = L THEN produced ELSE buffer[i + 1 + 1].at
    BY <2>2, <1>4, <1>5
  <2> QED  BY SMTT(20), <2>3, <2>4, <1>1
<1>7. ChunksProduced'
  <2>1. SUFFICES ASSUME NEW i \in 1 .. L - 1
                 PROVE  buffer'[i].at + buffer'[i].len <= produced
    BY <1>3, <1>4 DEF ChunksProduced
  <2>2. i + 1 \in 1 .. L  BY <1>1, <1>2
  <2> QED  BY <2>2, <1>4, <1>5
<1>8. 1 \in 1 .. L  BY <1>1, <1>2
<1>9. buffer_bytes = produced - buffer[1].at  BY <1>1 DEF RingOK, RingBudget
<1>10. Head(buffer).seq = Oldest /\ Oldest = next_seq - L
  BY <1>1, <1>2, <1>5, <1>8 DEF Oldest
<1>11. RingBudget' /\ buffer_bytes' \in Nat /\ Oldest' = Oldest + 1
  <2>1. CASE L = 1
    <3>1. buffer[1].at + buffer[1].len = produced  BY <2>1, <1>5, <1>8
    <3>2. buffer' = <<>>  BY <2>1, <1>4
    <3>3. buffer_bytes' = 0  BY SMTT(20), <3>1, <1>1, <1>3, <1>5, <1>8, <1>9
    <3>4. RingBudget'  BY <3>2, <3>3, <1>3 DEF RingBudget
    <3>5. Oldest' = Oldest + 1  BY <2>1, <3>2, <1>1, <1>3, <1>10 DEF Oldest
    <3> QED  BY <3>3, <3>4, <3>5
  <2>2. CASE L # 1
    <3>1. 2 \in 1 .. L /\ 1 \in 1 .. L - 1  BY <2>2, <1>1, <1>2
    <3>2. buffer[1].at + buffer[1].len = buffer[2].at  BY <2>2, <1>5, <1>8
    <3>3. buffer' # <<>> /\ buffer'[1] = buffer[2]  BY <2>2, <3>1, <1>4
    <3>4. buffer_bytes' = produced - buffer[2].at
      <4>1. /\ buffer[1].at \in Nat /\ buffer[1].len \in Nat
            /\ buffer[2].at \in Nat  BY <3>1, <1>5, <1>8
      <4>2. buffer_bytes' = buffer_bytes - buffer[1].len  BY <1>3
      <4>3. produced \in Nat  BY <1>1
      <4> QED  BY <4>1, <4>2, <4>3, <3>2, <1>9
    <3>5. buffer_bytes' \in Nat  BY <3>1, <3>4, <1>1, <1>5
    <3>6. buffer[2].seq = next_seq - L + 1  BY <3>1, <1>1, <1>5
    <3>7. RingBudget'  BY <3>3, <3>4, <1>3 DEF RingBudget
    <3>8. Oldest' = Oldest + 1  BY <3>3, <3>6, <1>1, <1>3, <1>10 DEF Oldest
    <3> QED  BY <3>5, <3>7, <3>8
  <2> QED  BY <2>1, <2>2
<1> QED  BY <1>1, <1>2, <1>3, <1>4, <1>6, <1>7, <1>10, <1>11 DEF RingOK

LEMMA FlushRing ==
    ASSUME RingOK, Flush
    PROVE  RingOK' /\ Oldest' = next_seq + 1 /\ next_seq' = next_seq + 1
<1>1. next_seq \in Nat /\ produced \in Nat  BY DEF RingOK
<1>2. /\ buffer' = <<>> /\ buffer_bytes' = 0 /\ next_seq' = next_seq + 1
      /\ produced' = produced /\ evicting' = evicting
  BY DEF Flush, Flushed
<1>3. buffer' \in Seq(Chunk) /\ Len(buffer') = 0  BY <1>2
<1>4. RingBudget'  BY <1>2, SizesAssumption DEF RingBudget
<1>5. RingContiguous' /\ ChunksProduced'  BY <1>3 DEF RingContiguous, ChunksProduced
<1>6. Oldest' = next_seq + 1  BY <1>2 DEF Oldest
<1> QED  BY <1>1, <1>2, <1>3, <1>4, <1>5, <1>6 DEF RingOK

LEMMA AppendDoneRing ==
    ASSUME RingOK, AppendDone
    PROVE  RingOK' /\ Oldest' = Oldest /\ next_seq' = next_seq
<1>1. UNCHANGED <<buffer, buffer_bytes, next_seq, produced>> /\ evicting' = FALSE
  BY DEF AppendDone
<1>2. RingBudget'
  BY <1>1, SizesAssumption DEF AppendDone, OverBudget, RingOK, RingBudget
<1> QED
  BY <1>1, <1>2 DEF RingOK, RingContiguous, ChunksProduced, Oldest

LEMMA RingUnchanged ==
    ASSUME RingOK, UNCHANGED ring
    PROVE  RingOK' /\ Oldest' = Oldest /\ next_seq' = next_seq
BY DEF ring, RingOK, RingBudget, RingContiguous, ChunksProduced, Oldest
-----------------------------------------------------------------------------
(* The cursors, step by step.                                              *)

LEMMA CursorTypes ==
    ASSUME CursorsOK, NEW c \in DOMAIN cursors
    PROVE  /\ c \in Cursors /\ cursors[c] \in Nat /\ from[c] \in Nat
           /\ got[c] \subseteq Nat /\ lost[c] \subseteq Nat
           /\ from[c] <= cursors[c] /\ cursors[c] \in Oldest .. next_seq
           /\ got[c] \cup lost[c] = from[c] .. (cursors[c] - 1)
           /\ got[c] \cap lost[c] = {}
BY DEF CursorsOK, CursorsWithinRing, StartsBeforeCursors, ExactlyOnce

LEMMA CursorsStay ==
    ASSUME CursorsOK, UNCHANGED <<cursors, history>>, RingOK,
           Oldest' = Oldest, next_seq' \in {next_seq, next_seq + 1}
    PROVE  CursorsOK'
<1>1. next_seq \in Nat /\ Oldest \in Nat  BY HeldNumbers DEF RingOK
<1>2. CursorsWithinRing'
  BY <1>1, CursorTypes DEF CursorsWithinRing
<1> QED  BY <1>2 DEF CursorsOK, history, StartsBeforeCursors, ExactlyOnce

LEMMA EvictCursors ==
    ASSUME RingOK, CursorsOK, Evict
    PROVE  CursorsOK'
<1> DEFINE old == Oldest
<1>1. /\ old \in Nat /\ next_seq \in Nat /\ old < next_seq
      /\ Head(buffer).seq = old /\ Oldest' = old + 1 /\ next_seq' = next_seq
  BY EvictRing, HeldNumbers DEF RingOK
<1> HIDE DEF old
<1>2. /\ cursors' = [c \in DOMAIN cursors |-> IF cursors[c] <= old THEN old + 1 ELSE cursors[c]]
      /\ lost' = [c \in Cursors |->
                   IF c \in DOMAIN cursors
                     THEN lost[c] \cup {n \in {old} : n >= from[c] /\ n \notin got[c]}
                     ELSE lost[c]]
      /\ UNCHANGED <<from, got>>
  BY <1>1 DEF Evict, BumpedCursors, LostWith
<1>3. DOMAIN cursors' = DOMAIN cursors  BY <1>2
<1>4. ASSUME NEW c \in DOMAIN cursors
      PROVE  /\ cursors'[c] \in (old + 1) .. next_seq
             /\ from'[c] <= cursors'[c]
             /\ got'[c] \cup lost'[c] = from'[c] .. (cursors'[c] - 1)
             /\ got'[c] \cap lost'[c] = {}
  <2>1. /\ c \in Cursors /\ cursors[c] \in Nat /\ from[c] \in Nat
        /\ from[c] <= cursors[c] /\ cursors[c] \in old .. next_seq
        /\ got[c] \cup lost[c] = from[c] .. (cursors[c] - 1)
        /\ got[c] \cap lost[c] = {}
    BY CursorTypes DEF old
  <2>2. /\ cursors'[c] = IF cursors[c] <= old THEN old + 1 ELSE cursors[c]
        /\ lost'[c] = lost[c] \cup {n \in {old} : n >= from[c] /\ n \notin got[c]}
        /\ from'[c] = from[c] /\ got'[c] = got[c]
    BY <2>1, <1>2
  <2>3. CASE cursors[c] = old
    <3>1. old \notin got[c] /\ old >= from[c]  BY <2>1, <2>3, <1>1
    <3>2. lost'[c] = lost[c] \cup {old}  BY <2>2, <3>1
    <3>3. got'[c] \cup lost'[c] = (from[c] .. (old - 1)) \cup {old}
      BY <2>1, <2>2, <2>3, <3>2
    <3>4. (from[c] .. (old - 1)) \cup {old} = from[c] .. old
      BY <2>1, <2>3, <1>1
    <3>5. cursors'[c] = old + 1  BY <2>2, <2>3, <1>1
    <3>6. got'[c] \cup lost'[c] = from'[c] .. (cursors'[c] - 1)
      BY <3>3, <3>4, <3>5, <2>2, <1>1
    <3> QED  BY <2>1, <2>2, <2>3, <3>1, <3>2, <3>5, <3>6, <1>1
  <2>4. CASE cursors[c] > old
    <3>1. cursors'[c] = cursors[c]  BY <2>1, <2>2, <2>4, <1>1
    <3>2. old \in from[c] .. (cursors[c] - 1) \/ old < from[c]  BY <2>1, <2>4, <1>1
    <3>3. lost'[c] = lost[c]
      <4>1. CASE old < from[c]  BY <4>1, <2>1, <2>2, <1>1
      <4>2. CASE old \in from[c] .. (cursors[c] - 1)
        <5>1. old \in got[c] \cup lost[c]  BY <4>2, <2>1
        <5> QED  BY <5>1, <2>2
      <4> QED  BY <3>2, <4>1, <4>2
    <3> QED  BY <2>1, <2>2, <2>4, <3>1, <3>3, <1>1
  <2> QED  BY <2>1, <2>3, <2>4, <1>1
<1>5. /\ \E S \in SUBSET Cursors : cursors' \in [S -> Nat]
      /\ lost' \in [Cursors -> SUBSET Nat]
      /\ from' \in [Cursors -> Nat] /\ got' \in [Cursors -> SUBSET Nat]
  <2>1. \A c \in DOMAIN cursors : cursors'[c] \in Nat  BY <1>1, <1>4
  <2>2. DOMAIN cursors \in SUBSET Cursors  BY CursorTypes
  <2>3. cursors' \in [DOMAIN cursors -> Nat]  BY <2>1, <1>2
  <2>4. lost' \in [Cursors -> SUBSET Nat]  BY <1>1, <1>2 DEF CursorsOK
  <2> QED  BY <2>2, <2>3, <2>4, <1>2 DEF CursorsOK
<1>6. CursorsWithinRing' /\ StartsBeforeCursors' /\ ExactlyOnce'
  BY <1>1, <1>3, <1>4 DEF CursorsWithinRing, StartsBeforeCursors, ExactlyOnce
<1> QED  BY <1>5, <1>6 DEF CursorsOK

LEMMA FlushCursorsOK ==
    ASSUME RingOK, CursorsOK, Flush
    PROVE  CursorsOK'
<1> DEFINE gone == Held \cup {next_seq}
<1>1. /\ Oldest \in Nat /\ next_seq \in Nat /\ Oldest <= next_seq
      /\ Oldest' = next_seq + 1 /\ next_seq' = next_seq + 1
      /\ Held = Oldest .. (next_seq - 1)
  BY FlushRing, HeldNumbers DEF RingOK
<1>2. gone = Oldest .. next_seq  BY <1>1
<1> HIDE DEF gone
<1>3. /\ cursors' = [c \in DOMAIN cursors |-> next_seq + 1]
      /\ lost' = [c \in Cursors |->
                   IF c \in DOMAIN cursors
                     THEN lost[c] \cup {n \in gone : n >= from[c] /\ n \notin got[c]}
                     ELSE lost[c]]
      /\ UNCHANGED <<from, got>>
  BY DEF Flush, Flushed, FlushCursors, LostWith, gone
<1>4. DOMAIN cursors' = DOMAIN cursors  BY <1>3
<1>5. ASSUME NEW c \in DOMAIN cursors
      PROVE  /\ cursors'[c] = next_seq + 1
             /\ from'[c] <= cursors'[c]
             /\ got'[c] \cup lost'[c] = from'[c] .. (cursors'[c] - 1)
             /\ got'[c] \cap lost'[c] = {}
  <2>1. /\ c \in Cursors /\ cursors[c] \in Nat /\ from[c] \in Nat
        /\ from[c] <= cursors[c] /\ cursors[c] \in Oldest .. next_seq
        /\ got[c] \cup lost[c] = from[c] .. (cursors[c] - 1)
        /\ got[c] \cap lost[c] = {}
    BY CursorTypes
  <2>2. /\ cursors'[c] = next_seq + 1
        /\ lost'[c] = lost[c] \cup {n \in gone : n >= from[c] /\ n \notin got[c]}
        /\ from'[c] = from[c] /\ got'[c] = got[c]
    BY <2>1, <1>3
  <2>3. got'[c] \cap lost'[c] = {}  BY <2>1, <2>2
  <2>4. \A n \in got'[c] \cup lost'[c] : n \in from[c] .. next_seq
    <3>1. \A n \in got[c] \cup lost[c] : n \in from[c] .. next_seq  BY <2>1, <1>1
    <3>2. \A n \in gone : n >= from[c] => n \in from[c] .. next_seq  BY <1>1, <1>2, <2>1
    <3> QED  BY <2>2, <3>1, <3>2
  <2>5. \A n \in from[c] .. next_seq : n \in got'[c] \cup lost'[c]
    <3>1. SUFFICES ASSUME NEW n \in from[c] .. next_seq PROVE n \in got'[c] \cup lost'[c]
      OBVIOUS
    <3>2. CASE n < cursors[c]
      <4>1. n \in got[c] \cup lost[c]  BY <3>2, <2>1, <1>1
      <4> QED  BY <4>1, <2>2
    <3>3. CASE n >= cursors[c]
      <4>1. n \in gone /\ n >= from[c]  BY <3>3, <2>1, <1>1, <1>2
      <4> QED  BY <4>1, <2>2
    <3> QED  BY <3>2, <3>3, <2>1, <1>1
  <2>6. (next_seq + 1) - 1 = next_seq  BY <1>1
  <2>7. got'[c] \cup lost'[c] = from'[c] .. (cursors'[c] - 1)
    BY <2>2, <2>4, <2>5, <2>6
  <2> QED  BY <2>1, <2>2, <2>3, <2>7, <1>1
<1>6. /\ \E S \in SUBSET Cursors : cursors' \in [S -> Nat]
      /\ lost' \in [Cursors -> SUBSET Nat]
      /\ from' \in [Cursors -> Nat] /\ got' \in [Cursors -> SUBSET Nat]
  <2>1. DOMAIN cursors \in SUBSET Cursors  BY CursorTypes
  <2>2. cursors' \in [DOMAIN cursors -> Nat]  BY <1>1, <1>3
  <2>3. gone \subseteq Nat  BY <1>1, <1>2
  <2>4. lost' \in [Cursors -> SUBSET Nat]  BY <2>3, <1>3 DEF CursorsOK
  <2> QED  BY <2>1, <2>2, <2>4, <1>3 DEF CursorsOK
<1>7. CursorsWithinRing' /\ StartsBeforeCursors' /\ ExactlyOnce'
  BY <1>1, <1>4, <1>5 DEF CursorsWithinRing, StartsBeforeCursors, ExactlyOnce
<1> QED  BY <1>6, <1>7 DEF CursorsOK

(* A cursor that starts at `start` with nothing given and nothing lost.    *)
LEMMA FreshCursor ==
    ASSUME RingOK, CursorsOK, UNCHANGED <<ring>>,
           NEW c \in Cursors, NEW start \in Oldest .. next_seq,
           cursors' = With(c, start), from' = [from EXCEPT ![c] = start],
           got' = [got EXCEPT ![c] = {}], lost' = [lost EXCEPT ![c] = {}]
    PROVE  CursorsOK'
<1>1. /\ Oldest \in Nat /\ next_seq \in Nat /\ start \in Nat
      /\ Oldest' = Oldest /\ next_seq' = next_seq
  BY HeldNumbers, RingUnchanged DEF RingOK
<1>2. DOMAIN cursors' = DOMAIN cursors \cup {c} /\ DOMAIN cursors \subseteq Cursors
  BY CursorTypes DEF With
<1>3. ASSUME NEW x \in DOMAIN cursors'
      PROVE  /\ cursors'[x] \in Oldest .. next_seq
             /\ from'[x] <= cursors'[x]
             /\ got'[x] \cup lost'[x] = from'[x] .. (cursors'[x] - 1)
             /\ got'[x] \cap lost'[x] = {}
  <2>1. CASE x = c
    <3>1. /\ cursors'[x] = start /\ from'[x] = start
          /\ got'[x] = {} /\ lost'[x] = {}
      BY <2>1 DEF With, CursorsOK
    <3>2. start .. (start - 1) = {}  BY <1>1
    <3> QED  BY <3>1, <3>2, <1>1
  <2>2. CASE x # c
    <3>1. x \in DOMAIN cursors  BY <2>2, <1>2
    <3>2. /\ cursors'[x] = cursors[x] /\ from'[x] = from[x]
          /\ got'[x] = got[x] /\ lost'[x] = lost[x]
      BY <2>2, <3>1, CursorTypes DEF With, CursorsOK
    <3> QED  BY <3>1, <3>2, CursorTypes
  <2> QED  BY <2>1, <2>2
<1>4. /\ \E S \in SUBSET Cursors : cursors' \in [S -> Nat]
      /\ from' \in [Cursors -> Nat]
      /\ got' \in [Cursors -> SUBSET Nat] /\ lost' \in [Cursors -> SUBSET Nat]
  <2>1. \A x \in DOMAIN cursors' : cursors'[x] \in Nat  BY <1>1, <1>3
  <2>2. cursors' \in [DOMAIN cursors' -> Nat]  BY <2>1 DEF With
  <2>3. DOMAIN cursors' \in SUBSET Cursors  BY <1>2
  <2> QED  BY <2>2, <2>3, <1>1 DEF CursorsOK
<1>5. CursorsWithinRing' /\ StartsBeforeCursors' /\ ExactlyOnce'
  BY <1>1, <1>3 DEF CursorsWithinRing, StartsBeforeCursors, ExactlyOnce
<1> QED  BY <1>4, <1>5 DEF CursorsOK

LEMMA CreateCursorOK ==
    ASSUME RingOK, CursorsOK, NEW c \in Cursors, CreateCursor(c)
    PROVE  CursorsOK'
<1>1. PICK start \in {Oldest, next_seq} :
         cursors' = With(c, start) /\ from' = [from EXCEPT ![c] = start]
  BY DEF CreateCursor
<1>2. start \in Oldest .. next_seq  BY HeldNumbers DEF RingOK
<1> QED  BY <1>1, <1>2, FreshCursor DEF CreateCursor

LEMMA ReleaseCursorOK ==
    ASSUME RingOK, CursorsOK, NEW c \in Cursors, ReleaseCursor(c)
    PROVE  CursorsOK'
<1>1. /\ Oldest' = Oldest /\ next_seq' = next_seq
  BY RingUnchanged DEF ReleaseCursor
<1>2. /\ cursors' = [x \in DOMAIN cursors \ {c} |-> cursors[x]]
      /\ from' = [from EXCEPT ![c] = 0]
      /\ got' = [got EXCEPT ![c] = {}] /\ lost' = [lost EXCEPT ![c] = {}]
  BY DEF ReleaseCursor
<1>3. ASSUME NEW x \in DOMAIN cursors'
      PROVE  /\ x \in DOMAIN cursors
             /\ cursors'[x] = cursors[x] /\ from'[x] = from[x]
             /\ got'[x] = got[x] /\ lost'[x] = lost[x]
  BY <1>2, CursorTypes DEF CursorsOK
<1>4. /\ \E S \in SUBSET Cursors : cursors' \in [S -> Nat]
      /\ from' \in [Cursors -> Nat]
      /\ got' \in [Cursors -> SUBSET Nat] /\ lost' \in [Cursors -> SUBSET Nat]
  <2>1. (DOMAIN cursors \ {c}) \in SUBSET Cursors  BY CursorTypes
  <2>2. cursors' \in [DOMAIN cursors \ {c} -> Nat]  BY <1>2, CursorTypes
  <2> QED  BY <2>1, <2>2, <1>2 DEF CursorsOK
<1>5. CursorsWithinRing' /\ StartsBeforeCursors' /\ ExactlyOnce'
  BY <1>1, <1>3, CursorTypes DEF CursorsWithinRing, StartsBeforeCursors, ExactlyOnce
<1> QED  BY <1>4, <1>5 DEF CursorsOK

(* Where a read looks, and what it then takes.                             *)
LEMMA PositionFacts ==
    ASSUME RingOK, CursorsOK, NEW t \in Threads
    PROVE  /\ CursorOf[t] \in Cursors
           /\ Position(t) \in Oldest .. next_seq
           /\ CursorOf[t] \in DOMAIN cursors => Position(t) = cursors[CursorOf[t]]
           /\ Registers(t) => CursorOf[t] \notin DOMAIN cursors /\ Position(t) = Oldest
           /\ CursorOf[t] \notin DOMAIN cursors /\ ~Registers(t) => Position(t) = next_seq
<1> DEFINE c == CursorOf[t]
<1>1. c \in Cursors  BY ReadersAssumption
<1>2. Oldest \in Nat /\ next_seq \in Nat /\ Oldest <= next_seq
  BY HeldNumbers DEF RingOK
<1>3. CASE c \in DOMAIN cursors
  <2>1. cursors[c] \in Oldest .. next_seq  BY <1>3, CursorTypes
  <2>2. ~Registers(t)  BY <1>3 DEF Registers
  <2>3. Position(t) = cursors[c]  BY <1>2, <1>3, <2>1, <2>2 DEF Position, PositionOr
  <2> QED  BY <1>1, <1>3, <2>1, <2>2, <2>3
<1>4. CASE Registers(t)
  <2>1. c \notin DOMAIN cursors  BY <1>4 DEF Registers
  <2>2. Position(t) = Oldest  BY <1>2, <1>4, <2>1 DEF Position, PositionOr
  <2> QED  BY <1>1, <1>2, <1>4, <2>1, <2>2
<1>5. CASE c \notin DOMAIN cursors /\ ~Registers(t)
  <2>1. Position(t) = next_seq  BY <1>2, <1>5 DEF Position, PositionOr
  <2> QED  BY <1>1, <1>2, <1>5, <2>1
<1> QED  BY <1>3, <1>4, <1>5

LEMMA DeliverTakes ==
    ASSUME RingOK, CursorsOK, NEW t \in Threads, Deliver(t)
    PROVE  LET c == CursorOf[t] IN
           /\ c \in DOMAIN cursors \/ Registers(t)
           /\ \E last \in Position(t) .. next_seq - 1 :
                 /\ cursors' = With(c, last + 1)
                 /\ got' = [got EXCEPT ![c] = (IF Registers(t) THEN {} ELSE @)
                                              \cup (Position(t) .. last)]
<1> DEFINE c == CursorOf[t]
           L == Len(buffer)
           pos == Position(t)
<1>1. PICK first \in 1 .. L, final \in 1 .. L :
         /\ Selected(t, first, final)
         /\ cursors' = With(c, buffer[final].seq + 1)
         /\ got' = [got EXCEPT ![c] = (IF Registers(t) THEN {} ELSE @)
                                      \cup {buffer[i].seq : i \in first .. final}]
  BY DEF Deliver
<1>2. /\ L \in Nat /\ next_seq \in Nat /\ Oldest \in Nat
      /\ Oldest = next_seq - L /\ pos \in Oldest .. next_seq
  BY HeldNumbers, PositionFacts DEF RingOK
<1>3. \A i \in 1 .. L : buffer[i].seq = next_seq - L + i - 1
  BY DEF RingOK, RingContiguous
<1>4. /\ first <= final /\ buffer[first].seq >= pos
      /\ first > 1 => buffer[first - 1].seq < pos
  BY <1>1 DEF Selected
<1> HIDE DEF L, pos
<1>5. buffer[first].seq = pos
  <2>1. CASE first = 1  BY <2>1, <1>1, <1>2, <1>3, <1>4
  <2>2. CASE first > 1
    <3>1. first - 1 \in 1 .. L  BY <2>2, <1>1, <1>2
    <3>2. buffer[first - 1].seq = next_seq - L + (first - 1) - 1  BY <3>1, <1>3
    <3>3. buffer[first].seq = next_seq - L + first - 1  BY <1>1, <1>3
    <3> QED  BY <2>2, <3>2, <3>3, <1>1, <1>2, <1>4
  <2> QED  BY <2>1, <2>2, <1>1
<1> DEFINE last == buffer[final].seq
<1>6. /\ last = next_seq - L + final - 1
      /\ pos = next_seq - L + first - 1
  BY <1>1, <1>3, <1>5
<1>7. last \in pos .. (next_seq - 1)  BY <1>1, <1>2, <1>4, <1>6
<1>8. {buffer[i].seq : i \in first .. final} = pos .. last
  <2>1. \A i \in first .. final : buffer[i].seq \in pos .. last
    <3>1. SUFFICES ASSUME NEW i \in first .. final PROVE buffer[i].seq \in pos .. last
      OBVIOUS
    <3>2. i \in 1 .. L  BY <1>1, <1>2
    <3>3. buffer[i].seq = next_seq - L + i - 1  BY <3>2, <1>3
    <3> QED  BY <3>3, <1>1, <1>2, <1>6
  <2>2. \A n \in pos .. last : \E i \in first .. final : buffer[i].seq = n
    <3>1. SUFFICES ASSUME NEW n \in pos .. last
                   PROVE  \E i \in first .. final : buffer[i].seq = n
      OBVIOUS
    <3> DEFINE i == n - (next_seq - L) + 1
    <3>2. i \in first .. final  BY <1>1, <1>2, <1>6, <1>7
    <3>3. i \in 1 .. L  BY <3>2, <1>1, <1>2
    <3>4. buffer[i].seq = next_seq - L + i - 1  BY <3>3, <1>3
    <3>5. n \in Int  BY <1>2, <1>7
    <3>6. buffer[i].seq = n  BY <3>4, <3>5, <1>2
    <3> QED  BY <3>2, <3>6
  <2> QED  BY <2>1, <2>2
<1>9. c \in DOMAIN cursors \/ Registers(t)
  <2>1. pos # next_seq  BY <1>2, <1>7
  <2> QED  BY <2>1, PositionFacts DEF pos
<1> QED  BY <1>1, <1>7, <1>8, <1>9 DEF pos

LEMMA DeliverCursors ==
    ASSUME RingOK, CursorsOK, NEW t \in Threads, Deliver(t)
    PROVE  CursorsOK'
<1> DEFINE c == CursorOf[t]
           pos == Position(t)
<1>1. PICK last \in pos .. (next_seq - 1) :
         /\ cursors' = With(c, last + 1)
         /\ got' = [got EXCEPT ![c] = (IF Registers(t) THEN {} ELSE @) \cup (pos .. last)]
  BY DeliverTakes
<1>2. /\ c \in Cursors /\ pos \in Oldest .. next_seq
      /\ c \in DOMAIN cursors => pos = cursors[c] /\ ~Registers(t)
      /\ Registers(t) => pos = Oldest
      /\ c \in DOMAIN cursors \/ Registers(t)
  BY PositionFacts, DeliverTakes
<1>3. /\ from' = IF Registers(t) THEN [from EXCEPT ![c] = Oldest] ELSE from
      /\ lost' = IF Registers(t) THEN [lost EXCEPT ![c] = {}] ELSE lost
      /\ UNCHANGED ring
  BY DEF Deliver
<1>4. /\ Oldest \in Nat /\ next_seq \in Nat
      /\ Oldest' = Oldest /\ next_seq' = next_seq
  BY <1>3, HeldNumbers, RingUnchanged DEF RingOK
<1> HIDE DEF pos
<1>5. DOMAIN cursors' = DOMAIN cursors \cup {c} /\ DOMAIN cursors \subseteq Cursors
  BY <1>1, CursorTypes DEF With
<1>6. pos \in Nat /\ last \in Nat /\ pos <= last /\ last + 1 \in Oldest .. next_seq
  BY <1>1, <1>2, <1>4
<1>7. ASSUME NEW x \in DOMAIN cursors'
      PROVE  /\ cursors'[x] \in Oldest .. next_seq
             /\ from'[x] <= cursors'[x]
             /\ got'[x] \cup lost'[x] = from'[x] .. (cursors'[x] - 1)
             /\ got'[x] \cap lost'[x] = {}
  <2>1. CASE x = c /\ Registers(t)
    <3>1. /\ cursors'[x] = last + 1 /\ from'[x] = Oldest
          /\ got'[x] = pos .. last /\ lost'[x] = {} /\ pos = Oldest
      BY <2>1, <1>1, <1>2, <1>3 DEF With, CursorsOK
    <3>2. (last + 1) - 1 = last  BY <1>6
    <3> QED  BY <3>1, <3>2, <1>4, <1>6
  <2>2. CASE x = c /\ ~Registers(t)
    <3>1. c \in DOMAIN cursors /\ pos = cursors[c]  BY <2>2, <1>2
    <3>2. /\ cursors'[x] = last + 1 /\ from'[x] = from[c]
          /\ got'[x] = got[c] \cup (pos .. last) /\ lost'[x] = lost[c]
      BY <2>2, <1>1, <1>2, <1>3 DEF With, CursorsOK
    <3>3. /\ from[c] \in Nat /\ from[c] <= pos
          /\ got[c] \cup lost[c] = from[c] .. (pos - 1) /\ got[c] \cap lost[c] = {}
      BY <3>1, CursorTypes
    <3>4. (last + 1) - 1 = last  BY <1>6
    <3>5. (from[c] .. (pos - 1)) \cup (pos .. last) = from[c] .. last  BY <1>6, <3>3
    <3>6. (pos .. last) \cap lost[c] = {}
      <4>1. \A n \in pos .. last : n \notin from[c] .. (pos - 1)  BY <1>6, <3>3
      <4> QED  BY <4>1, <3>3
    <3> QED  BY <3>2, <3>3, <3>4, <3>5, <3>6, <1>6
  <2>3. CASE x # c
    <3>1. x \in DOMAIN cursors /\ x \in Cursors  BY <2>3, <1>5
    <3>2. /\ cursors'[x] = cursors[x] /\ from'[x] = from[x]
          /\ got'[x] = got[x] /\ lost'[x] = lost[x]
      BY <2>3, <3>1, <1>1, <1>3 DEF With, CursorsOK
    <3> QED  BY <3>1, <3>2, CursorTypes
  <2> QED  BY <2>1, <2>2, <2>3
<1>8. /\ \E S \in SUBSET Cursors : cursors' \in [S -> Nat]
      /\ from' \in [Cursors -> Nat]
      /\ got' \in [Cursors -> SUBSET Nat] /\ lost' \in [Cursors -> SUBSET Nat]
  <2>1. \A x \in DOMAIN cursors' : cursors'[x] \in Nat  BY <1>4, <1>7
  <2>2. cursors' \in [DOMAIN cursors' -> Nat]  BY <2>1, <1>1 DEF With
  <2>3. DOMAIN cursors' \in SUBSET Cursors  BY <1>2, <1>5
  <2>4. pos .. last \subseteq Nat  BY <1>6
  <2>5. got' \in [Cursors -> SUBSET Nat]  BY <2>4, <1>1, <1>2 DEF CursorsOK
  <2>6. from' \in [Cursors -> Nat] /\ lost' \in [Cursors -> SUBSET Nat]
    BY <1>3, <1>4 DEF CursorsOK
  <2> QED  BY <2>2, <2>3, <2>5, <2>6
<1>9. CursorsWithinRing' /\ StartsBeforeCursors' /\ ExactlyOnce'
  BY <1>4, <1>7 DEF CursorsWithinRing, StartsBeforeCursors, ExactlyOnce
<1> QED  BY <1>8, <1>9 DEF CursorsOK

LEMMA NothingYetCursors ==
    ASSUME RingOK, CursorsOK, NEW t \in Threads, NothingYet(t)
    PROVE  CursorsOK'
<1>1. UNCHANGED ring /\ CursorOf[t] \in Cursors  BY PositionFacts DEF NothingYet
<1>2. CASE Registers(t)
  <2>1. Oldest \in Oldest .. next_seq  BY HeldNumbers DEF RingOK
  <2> QED  BY <1>1, <1>2, <2>1, FreshCursor DEF NothingYet
<1>3. CASE ~Registers(t)
  <2>1. UNCHANGED <<cursors, history>>  BY <1>3 DEF NothingYet
  <2> QED  BY <1>1, <2>1, CursorsStay, RingUnchanged
<1> QED  BY <1>2, <1>3
-----------------------------------------------------------------------------
(* The invariant.                                                          *)

LEMMA InitIInv == Init => IInv
<1> SUFFICES ASSUME Init PROVE IInv
  OBVIOUS
<1>1. RingOK
  <2>1. buffer \in Seq(Chunk) /\ Len(buffer) = 0  BY DEF Init
  <2>2. buffer = <<>> /\ buffer_bytes = 0 /\ next_seq = 0 /\ produced = 0 /\ evicting = FALSE
    BY DEF Init
  <2>3. RingBudget  BY <2>2, SizesAssumption DEF RingBudget
  <2>4. RingContiguous /\ ChunksProduced  BY <2>1 DEF RingContiguous, ChunksProduced
  <2> QED  BY <2>1, <2>2, <2>3, <2>4 DEF RingOK
<1>2. CursorsOK
  <2>1. cursors \in [{} -> Nat] /\ DOMAIN cursors = {}  BY DEF Init
  <2> QED
    BY <2>1 DEF Init, CursorsOK, CursorsWithinRing, StartsBeforeCursors, ExactlyOnce
<1>3. ClientsOK
  BY DEF Init, ClientsOK
<1> QED  BY <1>1, <1>2, <1>3 DEF IInv

LEMMA NextIInv == IInv /\ [Next]_vars => IInv'
<1> SUFFICES ASSUME IInv, [Next]_vars PROVE IInv'
  OBVIOUS
<1>1. RingOK /\ CursorsOK /\ ClientsOK  BY DEF IInv
<1>2. ASSUME NEW len \in 1 .. ChunkBytes, AppendChunk(len) PROVE IInv'
  <2>1. UNCHANGED <<cursors, history, session, clients>>
    BY <1>2 DEF AppendChunk
  <2>2. RingOK'  BY <1>1, <1>2, AppendRing
  <2>3. CursorsOK'  BY <1>1, <1>2, <2>1, AppendRing, CursorsStay
  <2> QED  BY <1>1, <2>1, <2>2, <2>3 DEF IInv, ClientsOK, session, clients
<1>3. CASE Evict
  <2>1. UNCHANGED <<session, clients>>  BY <1>3 DEF Evict
  <2> QED
    BY <1>1, <1>3, <2>1, EvictRing, EvictCursors DEF IInv, ClientsOK, session, clients
<1>4. CASE AppendDone
  <2>1. UNCHANGED <<cursors, history, session, clients>>  BY <1>4 DEF AppendDone
  <2>2. RingOK'  BY <1>1, <1>4, AppendDoneRing
  <2>3. CursorsOK'  BY <1>1, <1>4, <2>1, AppendDoneRing, CursorsStay
  <2> QED  BY <1>1, <2>1, <2>2, <2>3 DEF IInv, ClientsOK, session, clients
<1>5. CASE Flush
  <2>1. UNCHANGED <<session, clients>>  BY <1>5 DEF Flush, Flushed
  <2> QED
    BY <1>1, <1>5, <2>1, FlushRing, FlushCursorsOK DEF IInv, ClientsOK, session, clients
<1>6. ASSUME UNCHANGED <<ring, cursors, history>> PROVE RingOK' /\ CursorsOK'
  BY <1>1, <1>6, RingUnchanged, CursorsStay
<1>7. CASE Pop \/ StatusChanges
  <2>1. UNCHANGED <<ring, cursors, history>> /\ ClientsOK'
    BY <1>1, <1>7 DEF Pop, StatusChanges, ClientsOK, clients
  <2> QED  BY <2>1, <1>6 DEF IInv
<1>8. ASSUME NEW c \in Cursors, CreateCursor(c) PROVE IInv'
  <2>1. UNCHANGED <<ring, session, clients>>  BY <1>8 DEF CreateCursor
  <2> QED
    BY <1>1, <1>8, <2>1, RingUnchanged, CreateCursorOK DEF IInv, ClientsOK, session, clients
<1>9. ASSUME NEW c \in Cursors, ReleaseCursor(c) PROVE IInv'
  <2>1. UNCHANGED <<ring, session, clients>>  BY <1>9 DEF ReleaseCursor
  <2> QED
    BY <1>1, <1>9, <2>1, RingUnchanged, ReleaseCursorOK DEF IInv, ClientsOK, session, clients
<1>10. ASSUME NEW t \in Threads, Call(t) \/ DeadlinePasses(t) PROVE IInv'
  <2>1. UNCHANGED <<ring, cursors, history>> /\ ClientsOK'
    BY <1>1, <1>10 DEF Call, DeadlinePasses, ClientsOK, session
  <2> QED  BY <2>1, <1>6 DEF IInv
<1>11. ASSUME NEW t \in Threads, Attempt(t) PROVE IInv'
  <2>1. UNCHANGED <<ring, session>> /\ ClientsOK'
    BY <1>1, <1>11
    DEF Attempt, Deliver, ReturnEmpty, Wait, NothingYet, Return, ClientsOK, session
  <2>2. CursorsOK'
    BY <1>1, <1>11, DeliverCursors, NothingYetCursors DEF Attempt, ReturnEmpty, Wait
  <2> QED  BY <1>1, <2>1, <2>2, RingUnchanged DEF IInv
<1>12. CASE UNCHANGED vars
  <2>1. UNCHANGED <<ring, cursors, history>> /\ UNCHANGED <<session, clients>>
    BY <1>12 DEF vars
  <2> QED  BY <1>1, <2>1, <1>6 DEF IInv, ClientsOK, session, clients
<1> QED
  BY <1>2, <1>3, <1>4, <1>5, <1>7, <1>8, <1>9, <1>10, <1>11, <1>12 DEF Next

LEMMA Invariance == Spec => []IInv
BY InitIInv, NextIInv, PTL DEF Spec

\* Every variable always has its type; in particular the byte counter of the
\* ring never goes below zero.
THEOREM TypeCorrect == Spec => []TypeOK
<1>1. IInv => TypeOK  BY DEF IInv, RingOK, CursorsOK, ClientsOK, TypeOK
<1> QED  BY <1>1, Invariance, PTL

\* The ring stays within its budget and counts its bytes right
\* (_append_stream_chunk, _clear_stream_buffer).
THEOREM RingKeepsBudget == Spec => []RingBudget
<1>1. IInv => RingBudget  BY DEF IInv, RingOK
<1> QED  BY <1>1, Invariance, PTL

\* The ring is always one gapless interval of the stream.
THEOREM RingIsContiguous == Spec => []RingContiguous
<1>1. IInv => RingContiguous  BY DEF IInv, RingOK
<1> QED  BY <1>1, Invariance, PTL

\* No cursor is ever outside the ring.
THEOREM CursorsStayWithinRing == Spec => []CursorsWithinRing
<1>1. IInv => CursorsWithinRing  BY DEF IInv, CursorsOK
<1> QED  BY <1>1, Invariance, PTL

\* The four together: what a run checks on a small instance.
THEOREM RingInvariant == Spec => []RingInv
BY TypeCorrect, RingKeepsBudget, RingIsContiguous, CursorsStayWithinRing, PTL DEF RingInv

\* Every chunk reaches every cursor exactly once or is dropped before it could
\* (_read_chunk_blocking against _append_stream_chunk and _clear_stream_buffer).
THEOREM DeliveredExactlyOnce == Spec => []ExactlyOnce
<1>1. IInv => ExactlyOnce  BY DEF IInv, CursorsOK
<1> QED  BY <1>1, Invariance, PTL

\* A read that waits while its cursor is released leaves it released.
THEOREM WaitingReadsReviveNothing == Spec => WaitingNeverRevives
<1>1. IInv /\ [Next]_vars =>
        [\A t \in Threads :
           (pc[t] = "waiting" /\ pc'[t] = "idle") => DOMAIN cursors' = DOMAIN cursors]_vars
  <2> SUFFICES ASSUME IInv, [Next]_vars,
                      NEW t \in Threads, pc[t] = "waiting", pc'[t] = "idle"
               PROVE  DOMAIN cursors' = DOMAIN cursors
    OBVIOUS
  <2>1. RingOK /\ CursorsOK  BY DEF IInv
  <2>2. pc' # pc /\ pc'[t] # pc[t]  OBVIOUS
  <2>3. PICK u \in Threads : Call(u) \/ Attempt(u)
    BY <2>2
    DEF Next, AppendChunk, Evict, AppendDone, Flush, Flushed, Pop,
        StatusChanges, CreateCursor, ReleaseCursor, DeadlinePasses, clients, vars
  <2>4. u = t /\ Attempt(t)
    BY <2>1, <2>2, <2>3
    DEF IInv, ClientsOK, Call, Attempt, Deliver, ReturnEmpty, Wait, Return
  <2>5. ~Registers(t)  BY DEF Registers
  <2>6. CASE Deliver(t)
    <3>1. CursorOf[t] \in DOMAIN cursors  BY <2>1, <2>5, <2>6, DeliverTakes
    <3>2. DOMAIN cursors' = DOMAIN cursors \cup {CursorOf[t]}
      BY <2>1, <2>6, DeliverTakes DEF With
    <3> QED  BY <3>1, <3>2
  <2>7. CASE ReturnEmpty(t) \/ Wait(t)
    BY <2>5, <2>7 DEF ReturnEmpty, Wait, NothingYet
  <2> QED  BY <2>4, <2>6, <2>7 DEF Attempt
<1> QED  BY <1>1, Invariance, PTL DEF Spec, WaitingNeverRevives

-----------------------------------------------------------------------------
(* The ring implements the lossy feed.                                     *)

LEMMA StepIsFeedStep == IInv /\ [Next]_vars => [Feed!Next]_Feed!vars
<1> SUFFICES ASSUME IInv, Next PROVE Feed!Next \/ UNCHANGED Feed!vars
  <2>1. UNCHANGED vars => UNCHANGED Feed!vars
    BY DEF vars, ring, history, Feed!vars
  <2> QED  BY <2>1
<1> DEFINE low == next_seq - Len(buffer)
<1>1. RingOK /\ CursorsOK  BY DEF IInv
<1>2. low = Oldest /\ low \in Nat /\ next_seq \in Nat /\ low <= next_seq
  BY <1>1, HeldNumbers DEF RingOK
<1>3. (next_seq - Len(buffer))' = next_seq' - Len(buffer')
  OBVIOUS
<1>4. RingOK'  BY NextIInv DEF IInv
<1>5. Len(buffer) \in Nat /\ Len(buffer') \in Nat  BY <1>1, <1>4 DEF RingOK
<1>6. ASSUME UNCHANGED <<ring, cursors, history>> PROVE UNCHANGED Feed!vars
  BY <1>6 DEF ring, history, Feed!vars
<1>7. ASSUME NEW len \in 1 .. ChunkBytes, AppendChunk(len) PROVE Feed!Publish
  <2>1. /\ next_seq' = next_seq + 1 /\ Len(buffer') = Len(buffer) + 1
        /\ UNCHANGED <<cursors, got>>
    BY <1>1, <1>7 DEF AppendChunk, history, RingOK
  <2>2. next_seq' - Len(buffer') = next_seq - Len(buffer)  BY <2>1, <1>2, <1>5
  <2> QED  BY <2>1, <2>2 DEF Feed!Publish
<1>8. CASE Evict
  <2>1. /\ Head(buffer).seq = low /\ low < next_seq /\ next_seq' = next_seq
        /\ Len(buffer') = Len(buffer) - 1
    BY <1>1, <1>2, <1>8, EvictRing DEF RingOK, Evict, OverBudget
  <2>2. next_seq' - Len(buffer') = low + 1  BY <2>1, <1>2, <1>5
  <2>3. /\ cursors' = [c \in DOMAIN cursors |-> IF cursors[c] <= low THEN low + 1 ELSE cursors[c]]
        /\ got' = got
    BY <1>8, <2>1 DEF Evict, BumpedCursors
  <2>4. cursors' = [c \in Feed!Subscribed |->
                      IF cursors[c] <= next_seq - Len(buffer)
                        THEN next_seq - Len(buffer) + 1 ELSE cursors[c]]
    BY <2>3 DEF Feed!Subscribed
  <2>5. next_seq - Len(buffer) < next_seq /\ next_seq' = next_seq
    BY <2>1
  <2>6. next_seq' - Len(buffer') = next_seq - Len(buffer) + 1
    BY <2>2
  <2> QED  BY <2>3, <2>4, <2>5, <2>6 DEF Feed!Expire, Feed!Next
<1>9. CASE Flush
  <2>1. /\ next_seq' = next_seq + 1 /\ Len(buffer') = 0
        /\ cursors' = [c \in DOMAIN cursors |-> next_seq + 1] /\ got' = got
    BY <1>9 DEF Flush, Flushed, FlushCursors
  <2>2. next_seq' - Len(buffer') = next_seq + 1  BY <2>1, <1>2
  <2>3. cursors' = [c \in Feed!Subscribed |-> next_seq + 1]  BY <2>1 DEF Feed!Subscribed
  <2> QED  BY <2>1, <2>2, <2>3 DEF Feed!Flush, Feed!Next
<1>10. ASSUME NEW c \in Cursors, CreateCursor(c) PROVE Feed!Subscribe(c)
  <2>1. UNCHANGED <<buffer, next_seq>>  BY <1>10 DEF CreateCursor, ring
  <2> QED
    BY <2>1, <1>2, <1>10 DEF CreateCursor, With, Feed!Subscribe, Feed!Subscribed
<1>11. ASSUME NEW c \in Cursors, ReleaseCursor(c) PROVE Feed!Unsubscribe(c)
  BY <1>11 DEF ReleaseCursor, ring, Feed!Unsubscribe, Feed!Subscribed
<1>12. ASSUME NEW t \in Threads, Deliver(t)
       PROVE  Feed!Deliver(CursorOf[t]) \/ Feed!SubscribeAndDeliver(CursorOf[t])
  <2> DEFINE c == CursorOf[t]
             pos == Position(t)
  <2>1. PICK last \in pos .. (next_seq - 1) :
           /\ cursors' = With(c, last + 1)
           /\ got' = [got EXCEPT ![c] = (IF Registers(t) THEN {} ELSE @) \cup (pos .. last)]
    BY <1>1, <1>12, DeliverTakes
  <2>2. /\ c \in DOMAIN cursors => pos = cursors[c] /\ ~Registers(t)
        /\ Registers(t) => c \notin DOMAIN cursors /\ pos = low
        /\ c \in DOMAIN cursors \/ Registers(t)
    BY <1>1, <1>2, <1>12, PositionFacts, DeliverTakes
  <2>3. UNCHANGED <<buffer, next_seq>>  BY <1>12 DEF Deliver, ring
  <2> HIDE DEF pos
  <2>4. CASE c \in DOMAIN cursors
    <3>1. cursors' = [cursors EXCEPT ![c] = last + 1]
      BY <1>1, <2>1, <2>4 DEF With, CursorsOK
    <3>2. got' = [got EXCEPT ![c] = @ \cup (cursors[c] .. last)]
      BY <2>1, <2>2, <2>4
    <3>3. last \in cursors[c] .. (next_seq - 1)  BY <2>1, <2>2, <2>4
    <3>4. Feed!Deliver(c)
      BY <2>3, <2>4, <3>1, <3>2, <3>3 DEF Feed!Deliver, Feed!Subscribed
    <3> QED  BY <3>4
  <2>5. CASE Registers(t)
    <3>1. got' = [got EXCEPT ![c] = low .. last]
      BY <2>1, <2>2, <2>5
    <3>2. last \in low .. (next_seq - 1) /\ c \notin DOMAIN cursors  BY <2>1, <2>2, <2>5
    <3>3. Feed!SubscribeAndDeliver(c)
      BY <2>1, <2>3, <3>1, <3>2 DEF With, Feed!SubscribeAndDeliver, Feed!Subscribed
    <3> QED  BY <3>3
  <2> QED  BY <2>2, <2>4, <2>5
<1>13. ASSUME NEW t \in Threads, NothingYet(t)
       PROVE  Feed!Subscribe(CursorOf[t]) \/ UNCHANGED Feed!vars
  <2>1. UNCHANGED <<buffer, next_seq>>  BY <1>13 DEF NothingYet, ring
  <2>2. CASE Registers(t)
    BY <2>1, <2>2, <1>2, <1>13
    DEF NothingYet, Registers, With, Feed!Subscribe, Feed!Subscribed
  <2>3. CASE ~Registers(t)
    BY <2>1, <2>3, <1>13 DEF NothingYet, history, Feed!vars
  <2> QED  BY <2>2, <2>3
<1>14. \A t \in Threads : CursorOf[t] \in Cursors  BY ReadersAssumption
<1>15. ASSUME NEW t \in Threads, Attempt(t) PROVE Feed!Next \/ UNCHANGED Feed!vars
  BY <1>12, <1>13, <1>14, <1>15 DEF Attempt, ReturnEmpty, Wait, Feed!Next
<1>16. ASSUME NEW t \in Threads, Call(t) \/ DeadlinePasses(t) PROVE UNCHANGED Feed!vars
  BY <1>16, <1>6 DEF Call, DeadlinePasses
<1>17. AppendDone \/ Pop \/ StatusChanges => UNCHANGED Feed!vars
  BY DEF AppendDone, Pop, StatusChanges, ring, history, Feed!vars
<1> QED
  BY <1>7, <1>8, <1>9, <1>10, <1>11, <1>15, <1>16, <1>17 DEF Next, Feed!Next

\* What the readers of a stream see is a lossy feed: never a chunk twice, never
\* backwards, and a chunk is skipped only when it was dropped.
THEOREM RingImplementsFeed == Spec => ImplementsFeed
<1>1. Init => Feed!Init
  <2> SUFFICES ASSUME Init PROVE Feed!Init
    OBVIOUS
  <2>1. next_seq = 0 /\ Len(buffer) = 0  BY DEF Init
  <2>2. next_seq - Len(buffer) = 0  BY <2>1
  <2>3. cursors = [s \in {} |-> 0] /\ got = [s \in Cursors |-> {}]  BY DEF Init
  <2> QED  BY <2>1, <2>2, <2>3 DEF Feed!Init
<1> QED  BY <1>1, Invariance, StepIsFeedStep, PTL DEF Spec, ImplementsFeed, Feed!Spec
=============================================================================
