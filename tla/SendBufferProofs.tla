--------------------------- MODULE SendBufferProofs ---------------------------
(***************************************************************************)
(* Proofs about SendBuffer for every number of threads, chunks and         *)
(* messages: the memory of a SendBuffer is never written while somebody    *)
(* refers to it.                                                           *)
(***************************************************************************)
EXTENDS SendBuffer, TLAPS

(* A chunk that may be handed out: in the pool or new. *)
Unused(c) == c \in PooledChunks \/ c \notin allocated

(* Chunks are filled by one thread from the bottom, and a chunk that may be   *)
(* handed out is referred to by nobody.                                       *)
ChunkInv ==
    /\ SendTypeOK
    /\ \A s, t \in Thread : local[s] = local[t] /\ local[s] # None => s = t
    /\ \A c \in Chunk : Unused(c) => ~Referenced(c)
    /\ \A i, j \in DOMAIN pool : pool[i] = pool[j] => i = j
    /\ \A i \in DOMAIN pool : pool[i] \in allocated
    /\ \A t \in Thread : making[t] # None =>
         /\ making[t].owner = local[t]
         /\ making[t].offset = usedSize[local[t]]
         /\ making[t].offset + making[t].allocSize <= ChunkSize
    /\ \A t \in Thread : local[t] # None => (open[local[t]] <=> making[t] # None)
    /\ process # "open"

(* The regions of the live SendBuffers lie below _usedSize and hold their     *)
(* packets.                                                                   *)
RegionInv ==
    \A b \in live :
        /\ b.offset + b.allocSize <= usedSize[b.owner]
        /\ \A i \in 0 .. b.allocSize - 1 :
             memory[b.owner][b.offset + i] = <<b.number, b.allocSize, i>>

SendInv == ChunkInv /\ RegionInv

LEMMA PacketSizeNat == \A b \in ByteSizes : PacketSize(b) \in Nat
<1> TAKE b \in ByteSizes
<1>1. b \in Nat /\ Word \in Nat /\ Word > 0 /\ Header \in Nat
  BY SendBufferAssumption, PacketsAssumption
<1>2. \A m \in Nat : m % Word \in 0 .. Word - 1
  BY <1>1
<1> QED
  BY <1>1, <1>2 DEF PacketSize, DataSize16

LEMMA SendInitInv == SendInit => SendInv
<1>1. Garbage \in Byte
  BY PacketsAssumption DEF Garbage, Byte
<1> QED
  BY <1>1, SendBufferAssumption DEF SendInit, SendInv, ChunkInv, RegionInv, SendTypeOK, Unused,
     Referenced, PooledChunks

(* A packet behind the last one of the thread's chunk *)
LEMMA OpenLocal ==
    ASSUME SendInv, NEW t \in Thread, NEW byteSize \in ByteSizes,
           making[t] = None, Fits(t, byteSize), PacketSize(byteSize) <= ChunkSize,
           OpenChunk(t, local[t], usedSize[local[t]], byteSize),
           UNCHANGED <<local, pool, allocated, usedSize, memory, live, process>>
    PROVE  SendInv'
<1> DEFINE c == local[t]
           b == [owner |-> c, offset |-> usedSize[c], allocSize |-> PacketSize(byteSize),
                 number |-> made + 1, byteSize |-> byteSize]
<1>1. c \in Chunk /\ usedSize[c] \in 0 .. ChunkSize /\ PacketSize(byteSize) \in Nat
  BY PacketSizeNat DEF SendInv, ChunkInv, SendTypeOK, Fits
<1>2. b \in Buffers /\ b # None
  BY <1>1, SendBufferAssumption DEF Buffers, SendInv, ChunkInv, SendTypeOK
<1>3. making' = [making EXCEPT ![t] = b] /\ open' = [open EXCEPT ![c] = TRUE] /\ made' = made + 1
  BY DEF OpenChunk
<1>4. SendTypeOK'
  BY <1>1, <1>2, <1>3 DEF SendInv, ChunkInv, SendTypeOK
<1>5. usedSize[c] + PacketSize(byteSize) <= ChunkSize
  BY <1>1, SendBufferAssumption DEF Fits, FreeSpace
<1>6. \A d \in Chunk : Unused(d)' => ~Referenced(d)'
  BY <1>1, <1>2, <1>3 DEF SendInv, ChunkInv, SendTypeOK, Unused, Referenced, PooledChunks
<1>7. /\ \A s \in Thread : making'[s] # None =>
           /\ making'[s].owner = local'[s]
           /\ making'[s].offset = usedSize'[local'[s]]
           /\ making'[s].offset + making'[s].allocSize <= ChunkSize
  BY <1>1, <1>3, <1>5 DEF SendInv, ChunkInv, SendTypeOK
<1>8. \A s \in Thread : local'[s] # None => (open'[local'[s]] <=> making'[s] # None)
  BY <1>1, <1>2, <1>3 DEF SendInv, ChunkInv, SendTypeOK
<1>9. ChunkInv'
  BY <1>4, <1>6, <1>7, <1>8 DEF SendInv, ChunkInv
<1> QED
  BY Zenon, <1>9 DEF SendInv, RegionInv

(* A packet at the bottom of a chunk that comes from Pop *)
LEMMA OpenPopped ==
    ASSUME SendInv, NEW t \in Thread, NEW byteSize \in ByteSizes, NEW c \in Chunk,
           making[t] = None, PacketSize(byteSize) <= ChunkSize, Popped(c),
           pool' = IF pool = <<>> THEN pool ELSE SubSeq(pool, 1, Len(pool) - 1),
           allocated' = allocated \cup {c},
           local' = [local EXCEPT ![t] = c],
           usedSize' = [usedSize EXCEPT ![c] = 0],
           OpenChunk(t, c, 0, byteSize),
           UNCHANGED <<memory, live, process>>
    PROVE  SendInv'
<1> DEFINE b == [owner |-> c, offset |-> 0, allocSize |-> PacketSize(byteSize),
                 number |-> made + 1, byteSize |-> byteSize]
<1>1. PacketSize(byteSize) \in Nat /\ 0 \in 0 .. ChunkSize
  BY PacketSizeNat, SendBufferAssumption
<1>2. b \in Buffers /\ b # None
  BY <1>1, SendBufferAssumption DEF Buffers, SendInv, ChunkInv, SendTypeOK
<1>3. making' = [making EXCEPT ![t] = b] /\ open' = [open EXCEPT ![c] = TRUE] /\ made' = made + 1
  BY DEF OpenChunk
<1>4. Unused(c)
  <2>1. CASE pool = <<>>
    BY <2>1 DEF Popped, Unused
  <2>2. CASE pool # <<>>
    <3>1. Len(pool) \in DOMAIN pool
      BY <2>2 DEF SendInv, ChunkInv, SendTypeOK
    <3> QED
      BY <2>2, <3>1 DEF Popped, Unused, PooledChunks
  <2> QED
    BY <2>1, <2>2
<1>5. ~Referenced(c)
  BY <1>4 DEF SendInv, ChunkInv
<1>6. /\ pool' \in Seq(Chunk) /\ c \notin PooledChunks' /\ PooledChunks' \subseteq PooledChunks
      /\ \A i \in DOMAIN pool' : i \in DOMAIN pool /\ pool'[i] = pool[i]
  <2>1. CASE pool = <<>>
    BY <2>1 DEF PooledChunks, SendInv, ChunkInv, SendTypeOK
  <2>2. CASE pool # <<>>
    <3>1. /\ pool' \in Seq(Chunk) /\ DOMAIN pool' = 1 .. Len(pool) - 1
          /\ \A i \in 1 .. Len(pool) - 1 : pool'[i] = pool[i]
      BY <2>2 DEF SendInv, ChunkInv, SendTypeOK
    <3>2. \A i \in 1 .. Len(pool) - 1 : i \in DOMAIN pool /\ pool[i] # c
      BY <2>2 DEF SendInv, ChunkInv, SendTypeOK, Popped
    <3> QED
      BY <3>1, <3>2 DEF PooledChunks
  <2> QED
    BY <2>1, <2>2
<1>7. SendTypeOK'
  BY <1>1, <1>2, <1>3, <1>6 DEF SendInv, ChunkInv, SendTypeOK
<1>8. \A s \in Thread : local[s] # c /\ (making[s] # None => making[s].owner # c)
  BY <1>5 DEF Referenced
<1>9. \A r, s \in Thread : local'[r] = local'[s] /\ local'[r] # None => r = s
  BY <1>8 DEF SendInv, ChunkInv, SendTypeOK
<1>10. \A d \in Chunk : Unused(d)' => ~Referenced(d)'
  <2> TAKE d \in Chunk
  <2> HAVE Unused(d)'
  <2>1. Unused(d) /\ d # c
    BY <1>6 DEF Unused
  <2>2. ~Referenced(d)
    BY <2>1 DEF SendInv, ChunkInv
  <2> QED
    BY <1>2, <1>3, <2>1, <2>2 DEF Referenced, SendInv, ChunkInv, SendTypeOK
<1>11. /\ \A i, j \in DOMAIN pool' : pool'[i] = pool'[j] => i = j
       /\ \A i \in DOMAIN pool' : pool'[i] \in allocated'
  BY <1>6 DEF SendInv, ChunkInv
<1>12. \A s \in Thread : making'[s] # None =>
           /\ making'[s].owner = local'[s]
           /\ making'[s].offset = usedSize'[local'[s]]
           /\ making'[s].offset + making'[s].allocSize <= ChunkSize
  <2> TAKE s \in Thread
  <2> HAVE making'[s] # None
  <2>1. CASE s = t
    BY <1>1, <1>3, <2>1 DEF SendInv, ChunkInv, SendTypeOK
  <2>2. CASE s # t
    <3>1. making'[s] = making[s] /\ local'[s] = local[s] /\ local[s] # c
      BY <1>3, <1>8, <2>2 DEF SendInv, ChunkInv, SendTypeOK
    <3>2. making[s] \in Buffers /\ making[s].owner = local[s]
      BY <3>1 DEF SendInv, ChunkInv, SendTypeOK
    <3>3. usedSize'[local[s]] = usedSize[local[s]]
      BY <3>1, <3>2 DEF Buffers, SendInv, ChunkInv, SendTypeOK
    <3> QED
      BY <3>1, <3>3 DEF SendInv, ChunkInv
  <2> QED
    BY <2>1, <2>2
<1>13. \A s \in Thread : local'[s] # None => (open'[local'[s]] <=> making'[s] # None)
  BY <1>2, <1>3, <1>8 DEF SendInv, ChunkInv, SendTypeOK
<1>14. ChunkInv'
  BY <1>7, <1>9, <1>10, <1>11, <1>12, <1>13 DEF SendInv, ChunkInv
<1>15. RegionInv'
  <2>1. \A r \in live : r.owner # c /\ r.owner \in Chunk
    BY <1>5 DEF Referenced, SendInv, ChunkInv, SendTypeOK, Buffers
  <2>2. \A d \in Chunk : d # c => usedSize'[d] = usedSize[d]
    BY DEF SendInv, ChunkInv, SendTypeOK
  <2> QED
    BY Zenon, <2>1, <2>2 DEF SendInv, RegionInv
<1> QED
  BY <1>14, <1>15 DEF SendInv

(* The packet of a thread becomes live: it lies behind the other live ones. *)
LEMMA CloseLive ==
    ASSUME SendInv, NEW t \in Thread, Close(t), process' = "running"
    PROVE  SendInv'
<1> DEFINE b == making[t]
           c == b.owner
<1>1. /\ b # None /\ b \in Buffers /\ c = local[t] /\ c \in Chunk /\ b.offset = usedSize[c]
      /\ b.offset \in Nat /\ b.allocSize \in Nat /\ b.offset + b.allocSize <= ChunkSize
      /\ b.number \in Nat
  BY DEF Close, SendInv, ChunkInv, SendTypeOK, Buffers
<1>2. /\ memory' = [memory EXCEPT ![c] =
                       [i \in DOMAIN memory[c] |->
                          IF i \in b.offset .. b.offset + b.allocSize - 1
                            THEN Packet(b.number, b.allocSize)[i - b.offset + 1] ELSE memory[c][i]]]
      /\ open' = [open EXCEPT ![c] = FALSE]
      /\ usedSize' = [usedSize EXCEPT ![c] = usedSize[c] + b.allocSize]
      /\ live' = live \cup {b}
      /\ making' = [making EXCEPT ![t] = None]
      /\ UNCHANGED <<local, pool, allocated, made, process>>
  BY DEF Close, CloseChunk, Crash
<1> HIDE DEF b, c
<1>3. DOMAIN memory[c] = 0 .. ChunkSize - 1 /\ DOMAIN memory = Chunk
  BY <1>1 DEF SendInv, ChunkInv, SendTypeOK
<1>4. \A i \in b.offset .. b.offset + b.allocSize - 1 :
        Packet(b.number, b.allocSize)[i - b.offset + 1] = <<b.number, b.allocSize, i - b.offset>>
  <2> TAKE i \in b.offset .. b.offset + b.allocSize - 1
  <2>1. i - b.offset + 1 \in 1 .. b.allocSize /\ (i - b.offset + 1) - 1 = i - b.offset
    BY <1>1
  <2> QED
    BY <2>1 DEF Packet
<1>5. /\ \A i \in b.offset .. b.offset + b.allocSize - 1 :
           memory'[c][i] = <<b.number, b.allocSize, i - b.offset>>
      /\ \A i \in 0 .. ChunkSize - 1 :
           i \notin b.offset .. b.offset + b.allocSize - 1 => memory'[c][i] = memory[c][i]
      /\ \A d \in Chunk : d # c => memory'[d] = memory[d]
      /\ memory'[c] \in [0 .. ChunkSize - 1 -> Byte]
  <2>1. memory'[c] = [i \in 0 .. ChunkSize - 1 |->
                          IF i \in b.offset .. b.offset + b.allocSize - 1
                            THEN Packet(b.number, b.allocSize)[i - b.offset + 1] ELSE memory[c][i]]
    BY Zenon, <1>1, <1>2, <1>3
  <2>2. \A i \in b.offset .. b.offset + b.allocSize - 1 : i \in 0 .. ChunkSize - 1
    BY <1>1, SendBufferAssumption
  <2>3. \A i \in b.offset .. b.offset + b.allocSize - 1 : <<b.number, b.allocSize, i - b.offset>> \in Byte
    BY <1>1, SendBufferAssumption, PacketsAssumption DEF Byte
  <2>4. \A i \in 0 .. ChunkSize - 1 : memory[c][i] \in Byte
    <3>1. memory \in [Chunk -> [0 .. ChunkSize - 1 -> Byte]]
      BY DEF SendInv, ChunkInv, SendTypeOK
    <3>2. memory[c] \in [0 .. ChunkSize - 1 -> Byte]
      BY <1>1, <3>1
    <3> QED
      BY Zenon, <3>2
  <2>5. \A d \in Chunk : d # c => memory'[d] = memory[d]
    BY <1>1, <1>2, <1>3
  <2>6. \A i \in b.offset .. b.offset + b.allocSize - 1 :
          memory'[c][i] = <<b.number, b.allocSize, i - b.offset>>
    BY Zenon, <1>4, <2>1, <2>2
  <2>7. \A i \in 0 .. ChunkSize - 1 :
          i \notin b.offset .. b.offset + b.allocSize - 1 => memory'[c][i] = memory[c][i]
    BY <2>1
  <2>8. \A i \in 0 .. ChunkSize - 1 : memory'[c][i] \in Byte
    BY Zenon, <2>3, <2>4, <2>6, <2>7
  <2>9. memory'[c] \in [0 .. ChunkSize - 1 -> Byte]
    BY <2>1, <2>8
  <2> QED
    BY <2>5, <2>6, <2>7, <2>9
<1>6. usedSize'[c] = usedSize[c] + b.allocSize /\ \A d \in Chunk : d # c => usedSize'[d] = usedSize[d]
  BY <1>1, <1>2 DEF SendInv, ChunkInv, SendTypeOK
<1>7. SendTypeOK'
  <2>1. memory' \in [Chunk -> [0 .. ChunkSize - 1 -> Byte]]
    BY Zenon, <1>2, <1>3, <1>5 DEF SendInv, ChunkInv, SendTypeOK
  <2>2. usedSize' \in [Chunk -> 0 .. ChunkSize]
    BY <1>1, <1>2 DEF SendInv, ChunkInv, SendTypeOK
  <2> QED
    BY <1>1, <1>2, <2>1, <2>2 DEF SendInv, ChunkInv, SendTypeOK
<1>8. \A d \in Chunk : Unused(d)' => ~Referenced(d)'
  BY <1>1, <1>2 DEF SendInv, ChunkInv, SendTypeOK, Unused, Referenced, PooledChunks, b, c
<1>9. \A s \in Thread : making'[s] # None =>
           /\ making'[s].owner = local'[s]
           /\ making'[s].offset = usedSize'[local'[s]]
           /\ making'[s].offset + making'[s].allocSize <= ChunkSize
  <2> TAKE s \in Thread
  <2> HAVE making'[s] # None
  <2>1. s # t /\ making'[s] = making[s]
    BY <1>2 DEF SendInv, ChunkInv, SendTypeOK
  <2>2. local[s] # c /\ local[s] \in Chunk
    <3>1. making[s] \in Buffers /\ making[s].owner = local[s]
      BY <2>1 DEF SendInv, ChunkInv, SendTypeOK
    <3>2. local[s] \in Chunk /\ local[s] # None
      BY <3>1, SendBufferAssumption DEF Buffers
    <3> QED
      BY <1>1, <2>1, <3>2 DEF SendInv, ChunkInv
  <2> QED
    BY <1>2, <1>6, <2>1, <2>2 DEF SendInv, ChunkInv
<1>10. \A s \in Thread : local'[s] # None => (open'[local'[s]] <=> making'[s] # None)
  BY <1>1, <1>2 DEF SendInv, ChunkInv, SendTypeOK
<1>11. ChunkInv'
  BY <1>2, <1>7, <1>8, <1>9, <1>10 DEF SendInv, ChunkInv
<1>12. RegionInv'
  <2> SUFFICES ASSUME NEW r \in live'
               PROVE  /\ r.offset + r.allocSize <= usedSize'[r.owner]
                      /\ \A i \in 0 .. r.allocSize - 1 :
                           memory'[r.owner][r.offset + i] = <<r.number, r.allocSize, i>>
    BY DEF RegionInv
  <2>1. CASE r = b
    <3>1. r.offset + r.allocSize <= usedSize'[r.owner] /\ r.owner = c
      BY <1>1, <1>6, <2>1 DEF c
    <3>2. ASSUME NEW i \in 0 .. r.allocSize - 1
          PROVE  memory'[r.owner][r.offset + i] = <<r.number, r.allocSize, i>>
      <4>1. b.offset + i \in b.offset .. b.offset + b.allocSize - 1 /\ (b.offset + i) - b.offset = i
        BY <1>1, <2>1
      <4> QED
        BY <1>5, <2>1, <3>1, <4>1
    <3> QED
      BY <3>1, <3>2
  <2>2. CASE r # b
    <3>0. r \in live
      BY <1>2, <2>2
    <3>1. /\ r.owner \in Chunk /\ r.offset \in Nat /\ r.allocSize \in Nat
          /\ r.offset + r.allocSize <= usedSize[r.owner]
          /\ \A i \in 0 .. r.allocSize - 1 :
               memory[r.owner][r.offset + i] = <<r.number, r.allocSize, i>>
      <4>1. r \in Buffers
        BY <3>0 DEF SendInv, ChunkInv, SendTypeOK
      <4>2. r.owner \in Chunk /\ r.offset \in Nat /\ r.allocSize \in Nat
        BY <4>1 DEF Buffers
      <4> QED
        BY <3>0, <4>2 DEF SendInv, RegionInv
    <3>2. CASE r.owner # c
      BY Zenon, <1>5, <1>6, <3>1, <3>2
    <3>3. CASE r.owner = c
      <4>1. \A i \in 0 .. r.allocSize - 1 :
              r.offset + i \in 0 .. ChunkSize - 1
              /\ r.offset + i \notin b.offset .. b.offset + b.allocSize - 1
        BY <1>1, <3>1, <3>3, SendBufferAssumption
      <4>2. r.offset + r.allocSize <= usedSize'[r.owner]
        BY <1>1, <1>6, <3>1, <3>3
      <4>3. \A i \in 0 .. r.allocSize - 1 : memory'[c][r.offset + i] = memory[c][r.offset + i]
        BY <1>5, <4>1
      <4> QED
        BY <3>1, <3>3, <4>2, <4>3
    <3> QED
      BY <3>2, <3>3
  <2> QED
    BY Zenon, <2>1, <2>2
<1> QED
  BY <1>11, <1>12 DEF SendInv

LEMMA SendNextInv == SendInv /\ [SendNext]_sendVars => SendInv'
<1> SUFFICES ASSUME SendInv, [SendNext]_sendVars PROVE SendInv'
  OBVIOUS
<1>1. CASE UNCHANGED sendVars
  BY <1>1 DEF sendVars, SendInv, ChunkInv, RegionInv, SendTypeOK, Unused, Referenced, PooledChunks
<1>2. ASSUME NEW assertion \in {"allocSize", "SerializeToArray"}, Crash(assertion) PROVE SendInv'
  BY <1>2 DEF Crash, SendInv, ChunkInv, RegionInv, SendTypeOK, Unused, Referenced, PooledChunks
<1>3. ASSUME NEW t \in Thread, Close(t) PROVE SendInv'
  <2>1. process' = "running" \/ Crash("SerializeToArray")
    BY <1>3 DEF Close
  <2> QED
    BY <1>2, <1>3, <2>1, CloseLive
<1>4. ASSUME NEW t \in Thread, NEW byteSize \in ByteSizes, Open(t, byteSize) PROVE SendInv'
  <2>1. making[t] = None /\ PacketSize(byteSize) \in Nat
    BY <1>4, PacketSizeNat DEF Open
  <2>2. ~(local[t] # None /\ open[local[t]])
    BY <2>1 DEF SendInv, ChunkInv
  <2>3. CASE PacketSize(byteSize) > ChunkSize
    <3>1. Crash("allocSize")
      BY <1>4, <2>2, <2>3 DEF Open
    <3> QED
      BY <1>2, <3>1
  <2>4. CASE ~(PacketSize(byteSize) > ChunkSize)
    <3>1. PacketSize(byteSize) <= ChunkSize
      BY <2>1, <2>4, SendBufferAssumption
    <3>2. CASE Fits(t, byteSize)
      <4>1. /\ OpenChunk(t, local[t], usedSize[local[t]], byteSize)
            /\ UNCHANGED <<local, pool, allocated, usedSize, memory, live, process>>
        BY <1>4, <2>2, <2>4, <3>2 DEF Open
      <4> QED
        BY <2>1, <3>1, <3>2, <4>1, OpenLocal
    <3>3. CASE ~Fits(t, byteSize)
      <4>1. PICK c \in Chunk :
              /\ Popped(c)
              /\ pool' = IF pool = <<>> THEN pool ELSE SubSeq(pool, 1, Len(pool) - 1)
              /\ allocated' = allocated \cup {c}
              /\ local' = [local EXCEPT ![t] = c]
              /\ usedSize' = [usedSize EXCEPT ![c] = 0]
              /\ OpenChunk(t, c, 0, byteSize)
              /\ UNCHANGED <<memory, live, process>>
        BY <1>4, <2>2, <2>4, <3>3 DEF Open
      <4> QED
        BY Zenon, <2>1, <3>1, <4>1, OpenPopped
    <3> QED
      BY <3>2, <3>3
  <2> QED
    BY <2>3, <2>4
<1>5. ASSUME NEW b \in live, Release(b) PROVE SendInv'
  <2>1. SendTypeOK'
    BY <1>5 DEF Release, SendInv, ChunkInv, SendTypeOK
  <2>2. \A d \in Chunk : (Unused(d)' <=> Unused(d)) /\ (Referenced(d)' => Referenced(d))
    BY <1>5 DEF Release, Unused, Referenced, PooledChunks
  <2>3. ChunkInv'
    BY <1>5, <2>1, <2>2 DEF Release, SendInv, ChunkInv
  <2> QED
    BY Zenon, <1>5, <2>3 DEF Release, SendInv, RegionInv
<1>6. ASSUME NEW c \in Chunk, PushGlobal(c) PROVE SendInv'
  <2>1. /\ DOMAIN pool' = 1 .. Len(pool) + 1 /\ pool' \in Seq(Chunk)
        /\ \A i \in 1 .. Len(pool) : pool'[i] = pool[i]
        /\ pool'[Len(pool) + 1] = c /\ Len(pool) \in Nat /\ DOMAIN pool = 1 .. Len(pool)
    BY <1>6 DEF PushGlobal, SendInv, ChunkInv, SendTypeOK
  <2>2. PooledChunks' = PooledChunks \cup {c} /\ c \notin PooledChunks /\ c \in allocated
    BY <1>6, <2>1 DEF PushGlobal, PooledChunks
  <2>3. /\ \A i, j \in DOMAIN pool' : pool'[i] = pool'[j] => i = j
        /\ \A i \in DOMAIN pool' : pool'[i] \in allocated'
    <3>1. \A i \in DOMAIN pool' : i \in DOMAIN pool \/ i = Len(pool) + 1
      BY <2>1
    <3>2. \A i \in DOMAIN pool : pool'[i] = pool[i] /\ pool[i] # c
      BY <2>1, <2>2 DEF PooledChunks
    <3>3. allocated' = allocated
      BY <1>6 DEF PushGlobal
    <3>4. /\ \A i, j \in DOMAIN pool : pool[i] = pool[j] => i = j
          /\ \A i \in DOMAIN pool : pool[i] \in allocated
      BY DEF SendInv, ChunkInv
    <3> QED
      BY <2>1, <2>2, <3>1, <3>2, <3>3, <3>4
  <2>4. \A d \in Chunk : Unused(d)' => ~Referenced(d)'
    BY <1>6, <2>2 DEF PushGlobal, Unused, Referenced, SendInv, ChunkInv
  <2>5. SendTypeOK'
    BY <1>6, <2>1 DEF PushGlobal, SendInv, ChunkInv, SendTypeOK
  <2>6. ChunkInv'
    BY <1>6, <2>3, <2>4, <2>5 DEF PushGlobal, SendInv, ChunkInv
  <2>7. RegionInv'
    BY <1>6 DEF PushGlobal, SendInv, RegionInv
  <2> QED
    BY <2>6, <2>7 DEF SendInv
<1> QED
  BY <1>1, <1>3, <1>4, <1>5, <1>6 DEF SendNext

LEMMA SendSafe == SendSpec => []SendInv
  BY SendInitInv, SendNextInv, PTL DEF SendSpec

(* While somebody refers to a SendBuffer, its region holds its packet: chunks *)
(* are reused only when no SendBuffer of theirs is left, and filled upwards.  *)
THEOREM BuffersIntact == SendSpec => []Intact
<1>1. SendInv => Intact
  <2> SUFFICES ASSUME SendInv, NEW b \in live
               PROVE  Contents(b) = Packet(b.number, b.allocSize)
    BY DEF Intact
  <2>1. b.offset \in Nat /\ b.allocSize \in Nat
    BY DEF SendInv, ChunkInv, SendTypeOK, Buffers
  <2>2. ASSUME NEW i \in 1 .. b.allocSize
        PROVE  memory[b.owner][b.offset + i - 1] = <<b.number, b.allocSize, i - 1>>
    <3>1. i - 1 \in 0 .. b.allocSize - 1 /\ b.offset + (i - 1) = b.offset + i - 1
      BY <2>1
    <3>2. memory[b.owner][b.offset + (i - 1)] = <<b.number, b.allocSize, i - 1>>
      BY <3>1 DEF SendInv, RegionInv
    <3> QED
      BY <3>1, <3>2
  <2> QED
    BY <2>2 DEF Contents, Packet
<1> QED
  BY <1>1, SendSafe, PTL

(* The assertions on _open hold, for messages of every length. *)
THEOREM OpenedOnce == SendSpec => []NeverOpenTwice
<1>1. SendInv => NeverOpenTwice
  BY DEF SendInv, ChunkInv, NeverOpenTwice
<1> QED
  BY <1>1, SendSafe, PTL
===============================================================================
