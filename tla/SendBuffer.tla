----------------------------- MODULE SendBuffer -------------------------------
(***************************************************************************)
(* The memory of outgoing packets: SendBuffer.cpp and MakeSendBuffer of    *)
(* the packet handlers.                                                    *)
(*                                                                         *)
(* Every thread fills a chunk of its own (LSendBufferChunk) from the       *)
(* bottom.  A SendBuffer is a region of a chunk and holds a reference to   *)
(* it; a chunk nobody refers to any more returns to the global pool        *)
(* through its deleter and is handed out again.  A SendBuffer lives until  *)
(* the last session it was given to has sent it; when that is, is up to    *)
(* the module that composes this one.                                      *)
(***************************************************************************)
EXTENDS Packets, FiniteSets

CONSTANTS
    Thread,     \* the threads that make packets
    Chunk,      \* bound on the chunks the process allocates
    ChunkSize,  \* SEND_BUFFER_CHUNK_SIZE, 6000
    ByteSizes,  \* ByteSizeLong() of the messages
    MaxMade,    \* bound on the packets made
    None

(* A SendBuffer: _owner, _buffer, _allocSize, the message it is made for. *)
Buffers ==
    [owner: Chunk, offset: 0 .. ChunkSize, allocSize: 0 .. ChunkSize,
     number: Nat, byteSize: ByteSizes]

(* The sum dataSize + sizeof(PacketHeader) does not wrap: see the README. *)
ASSUME SendBufferAssumption ==
    /\ ChunkSize \in Nat /\ ChunkSize < Word /\ MaxMade \in Nat
    /\ ByteSizes \subseteq Nat
    /\ \A b \in ByteSizes : (b % Word) + Header < Word
    /\ None \notin Chunk /\ None \notin Buffers

VARIABLES
    local,      \* LSendBufferChunk of every thread
    making,     \* the SendBuffer a thread has in MakeSendBuffer, None without one
    pool,       \* _sendBufferChunks
    allocated,  \* the chunks that exist
    usedSize, open, memory,  \* _usedSize, _open, _buffer of the chunks
    live,       \* SendBuffers that somebody still refers to, all closed
    made,       \* number of packets made so far
    process     \* "running", or the assertion that has ended it

sendVars == <<local, making, pool, allocated, usedSize, open, memory, live, made, process>>

SendInit ==
    /\ local = [t \in Thread |-> None] /\ making = [t \in Thread |-> None]
    /\ pool = <<>> /\ allocated = {}
    /\ usedSize = [c \in Chunk |-> 0] /\ open = [c \in Chunk |-> FALSE]
    /\ memory = [c \in Chunk |-> [i \in 0 .. ChunkSize - 1 |-> Garbage]]
    /\ live = {} /\ made = 0 /\ process = "running"

FreeSpace(c) == ChunkSize - usedSize[c]
PooledChunks == {pool[i] : i \in DOMAIN pool}

(* SendBuffers keep no reference to their chunk. *)
M_Referenced(c) == \E t \in Thread : local[t] = c

(* Who holds a shared_ptr to the chunk besides the pool *)
Referenced(c) ==
    \/ \E t \in Thread : local[t] = c \/ (making[t] # None /\ making[t].owner = c)
    \/ \E b \in live : b.owner = c
-------------------------------------------------------------------------------
(* dataSize and packetSize of MakeSendBuffer, both uint16_t *)
DataSize16(byteSize) == byteSize % Word
PacketSize(byteSize) == (DataSize16(byteSize) + Header) % Word

(* Pop: the last chunk of the pool, or a new one when the pool is empty; of   *)
(* the new ones any stands for all.                                           *)
Popped(c) == IF pool = <<>>
               THEN c \notin allocated /\ c = CHOOSE new \in Chunk : new \notin allocated
               ELSE c = pool[Len(pool)]

Crash(assertion) ==
    /\ process' = assertion
    /\ UNCHANGED <<local, making, pool, allocated, usedSize, open, memory, live, made>>

(* SendBufferChunk::Open, the returned SendBuffer held by the thread *)
OpenChunk(t, c, offset, byteSize) ==
    /\ open' = [open EXCEPT ![c] = TRUE]
    /\ made' = made + 1
    /\ making' = [making EXCEPT ![t] = [owner |-> c, offset |-> offset,
                                        allocSize |-> PacketSize(byteSize),
                                        number |-> made + 1, byteSize |-> byteSize]]

Fits(t, byteSize) == local[t] # None /\ FreeSpace(local[t]) >= PacketSize(byteSize)

(* MakeSendBuffer up to SendBufferManager::Open: the packet goes behind the   *)
(* last one, or into a chunk from Pop, which then replaces LSendBufferChunk.  *)
(* A new chunk also comes for a packet no chunk can hold, and Open asserts.   *)
Open(t, byteSize) ==
    /\ process = "running" /\ making[t] = None /\ made < MaxMade
    /\ IF local[t] # None /\ open[local[t]]
         THEN Crash("open")
       ELSE IF PacketSize(byteSize) > ChunkSize
         THEN Crash("allocSize")
       ELSE IF Fits(t, byteSize)
         THEN /\ OpenChunk(t, local[t], usedSize[local[t]], byteSize)
              /\ UNCHANGED <<local, pool, allocated, usedSize, memory, live, process>>
       ELSE \E c \in Chunk :
              /\ Popped(c)
              /\ pool' = IF pool = <<>> THEN pool ELSE SubSeq(pool, 1, Len(pool) - 1)
              /\ allocated' = allocated \cup {c}
              /\ local' = [local EXCEPT ![t] = c]
              /\ usedSize' = [usedSize EXCEPT ![c] = 0]
              /\ OpenChunk(t, c, 0, byteSize)
              /\ UNCHANGED <<memory, live, process>>

(* SendBufferChunk::Close leaves the chunk open. *)
M_CloseChunk(c, writeSize) ==
    /\ usedSize' = [usedSize EXCEPT ![c] = @ + writeSize]
    /\ UNCHANGED open

(* SendBufferChunk::Close *)
CloseChunk(c, writeSize) ==
    /\ open' = [open EXCEPT ![c] = FALSE]
    /\ usedSize' = [usedSize EXCEPT ![c] = @ + writeSize]

(* The rest of MakeSendBuffer: the header and SerializeToArray fill the       *)
(* region, Close.  SerializeToArray fails when the message needs more than    *)
(* dataSize bytes, which ASSERT_CRASH turns into a crash.                     *)
Close(t) ==
    /\ process = "running" /\ making[t] # None
    /\ LET b == making[t]
           bytes == Packet(b.number, b.allocSize)
       IN  IF b.byteSize > DataSize16(b.byteSize)
             THEN Crash("SerializeToArray")
             ELSE /\ memory' = [memory EXCEPT ![b.owner] =
                                  [i \in DOMAIN @ |->
                                     IF i \in b.offset .. b.offset + b.allocSize - 1
                                       THEN bytes[i - b.offset + 1] ELSE @[i]]]
                  /\ CloseChunk(b.owner, b.allocSize)
                  /\ live' = live \cup {b}
                  /\ making' = [making EXCEPT ![t] = None]
                  /\ UNCHANGED <<local, pool, allocated, made, process>>

(* The last reference to a SendBuffer is gone. *)
Release(b) ==
    /\ live' = live \ {b}
    /\ UNCHANGED <<local, making, pool, allocated, usedSize, open, memory, made, process>>

(* The deleter of a chunk whose last reference is gone, PushGlobal, Push.     *)
(* Nobody else can reach the chunk, so the step may come any time after the   *)
(* one that dropped the reference.                                            *)
PushGlobal(c) ==
    /\ process = "running"
    /\ c \in allocated \ PooledChunks /\ ~Referenced(c)
    /\ pool' = Append(pool, c)
    /\ UNCHANGED <<local, making, allocated, usedSize, open, memory, live, made, process>>

SendNext ==
    \/ \E t \in Thread : Close(t) \/ \E byteSize \in ByteSizes : Open(t, byteSize)
    \/ \E b \in live : Release(b)
    \/ \E c \in Chunk : PushGlobal(c)

SendSpec == SendInit /\ [][SendNext]_sendVars
-------------------------------------------------------------------------------
SendTypeOK ==
    /\ local \in [Thread -> Chunk \cup {None}]
    /\ making \in [Thread -> Buffers \cup {None}]
    /\ pool \in Seq(Chunk) /\ allocated \subseteq Chunk
    /\ usedSize \in [Chunk -> 0 .. ChunkSize] /\ open \in [Chunk -> BOOLEAN]
    /\ memory \in [Chunk -> [0 .. ChunkSize - 1 -> Byte]]
    /\ live \subseteq Buffers /\ made \in Nat
    /\ process \in {"running", "open", "allocSize", "SerializeToArray"}

(* What the network reads from a SendBuffer *)
Contents(b) == [i \in 1 .. b.allocSize |-> memory[b.owner][b.offset + i - 1]]

(* As long as somebody refers to a SendBuffer its region holds its packet:    *)
(* no thread opens the region again, neither through the chunk it fills nor   *)
(* through the pool.                                                          *)
Intact == \A b \in live : Contents(b) = Packet(b.number, b.allocSize)

(* Whatever the lengths of the messages, the assertions on _open never fail:  *)
(* a thread never opens a chunk another buffer is still open in.              *)
NeverOpenTwice == process # "open"
===============================================================================
