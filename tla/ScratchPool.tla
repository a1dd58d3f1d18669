----------------------------- MODULE ScratchPool -----------------------------
(***************************************************************************)
(* The scratch buffers of the compressor (compress_scratch.go, encoder.go, *)
(* huffman_encode.go).                                                     *)
(*                                                                         *)
(* Every encoder keeps a compressState with one byte buffer per stream.    *)
(* A block is compressed on a copy of that state, nextState; the copy      *)
(* replaces the state when the compressed block is kept, and its own       *)
(* buffers go to global pools when the block is written raw.  The pools    *)
(* are channels that all encoders share, one per power-of-two capacity.    *)
(* Goroutines interleave between any two pool operations.                  *)
(*                                                                         *)
(* A slice is the array under it and its capacity; bytes are left out.     *)
(***************************************************************************)
EXTENDS Integers, Sequences

CONSTANTS
  Encoders,  (* the encoders, each used by one goroutine                   *)
  Arrays,    (* identities of allocated arrays                             *)
  NoArray,   (* the array of the nil slice                                 *)
  NSlots,    (* buffers of a compressState                                 *)
  MaxSize,   (* largest block                                              *)
  Optional,  (* buffers of streams that a block may do without (literals   *)
             (* by position)                                               *)
  Need,      (* Need[n][s]: bytes slot s asks for a block of n bytes       *)
  PoolCaps,  (* capacities with a pool: 1, 2, 4, ..., 2^19                 *)
  PoolDepth, (* pooledSlicesPerClass: 16                                   *)
  GrowCaps,  (* capacities that append gives a stream that outgrows its    *)
             (* buffer                                                     *)
  NStreams,  (* streams of one Huffman code: 6                             *)
  TmpSizes,  (* sizes of the output buffers of Huffman streams             *)
  Growing,   (* a block may be larger than the one before it               *)
  Fallbacks  (* a block may be written raw                                 *)

Slots == 1 .. NSlots

(* The Huffman streams are numbered after the slots.                       *)
LastStream == NSlots + NStreams
Streams    == (NSlots + 1) .. LastStream

Sizes == 1 .. MaxSize

ASSUME ScratchPoolAssumption ==
  /\ NoArray \notin Arrays
  /\ NSlots \in Nat \ {0}
  /\ NStreams \in Nat \ {0}
  /\ MaxSize \in Nat \ {0}
  /\ Optional \subseteq Slots
  /\ Need \in [Sizes -> [Slots -> Nat]]
  /\ \A m, n \in Sizes, s \in Slots : m <= n => Need[m][s] <= Need[n][s]
  /\ PoolCaps \subseteq Nat \ {0}
  /\ PoolDepth \in Nat
  /\ GrowCaps \subseteq Nat \ {0}
  /\ TmpSizes \subseteq Nat \ {0}
  /\ Growing \in BOOLEAN /\ Fallbacks \in BOOLEAN

(* A size that some pool covers has a smallest such pool: 1 << bits.Len(   *)
(* size - 1) in acquireByteBuffer.                                         *)
Covers(p, size) == p >= size /\ \A q \in PoolCaps : q >= size => p <= q

Requests == TmpSizes \cup {Need[n][s] : n \in Sizes, s \in Slots}

ASSUME PoolCapsAssumption ==
  \A size \in Requests :
    (\E p \in PoolCaps : p >= size) => \E p \in PoolCaps : Covers(p, size)

VARIABLES
  pool,   (* pool[c]: the channel of free buffers of capacity c            *)
  held,   (* held[e]: the buffers of the encoder's compressState           *)
  next,   (* next[e]: the buffers of nextState while a block is worked     *)
  tmp,    (* tmp[e]: the output buffers of the Huffman streams             *)
  pc,     (* pc[e]: "rest", "fill", "write", "free", "drop" or "close"     *)
  turn,   (* turn[e]: the slot a loop over the buffers is at               *)
  block,  (* block[e]: the size of the encoder's current block             *)
  needed  (* needed[e]: the slots of the streams of that block             *)

vars == <<pool, held, next, tmp, pc, turn, block, needed>>

Slices == [array : Arrays, cap : Nat \ {0}]
Nil    == [array |-> NoArray, cap |-> 0]

NoBuffers == [s \in Slots |-> Nil]
NoOutputs == [i \in Streams |-> Nil]

InPool(a) == \E c \in PoolCaps : \E i \in 1 .. Len(pool[c]) : pool[c][i].array = a

(* Arrays no slice refers to: new ones, or the garbage collector has them. *)
Unreferenced ==
  {a \in Arrays :
     /\ ~InPool(a)
     /\ \A e \in Encoders :
          /\ \A i \in Streams : a # tmp[e][i].array
          /\ \A s \in Slots : a # held[e][s].array /\ a # next[e][s].array}

-----------------------------------------------------------------------------
(* releaseByteBuffer: only a power-of-two capacity has a pool, and a full  *)
(* pool drops the buffer.                                                  *)
Release(b) ==
  pool' = IF b.cap \in PoolCaps /\ Len(pool[b.cap]) < PoolDepth
          THEN [pool EXCEPT ![b.cap] = Append(@, b)]
          ELSE pool

Pooled(size) == \E p \in PoolCaps : p >= size

(* Faulty: the size is rounded down to a power of two. *)
PoolBelow(size) ==
  CHOOSE p \in PoolCaps : p <= size /\ \A r \in PoolCaps : r <= size => r <= p

PoolOf(size) == CHOOSE p \in PoolCaps : Covers(p, size)

New(c) == [array |-> CHOOSE a \in Unreferenced : TRUE, cap |-> c]

(* acquireByteBuffer: the oldest buffer of the smallest pool that covers   *)
(* the size, or a new one.                                                 *)
HasFree(size) == Pooled(size) /\ pool[PoolOf(size)] # <<>>

Acquired(size) ==
  IF HasFree(size) THEN Head(pool[PoolOf(size)])
  ELSE New(IF Pooled(size) THEN PoolOf(size) ELSE size)

(* Arrays is a bound: a new array needs one that is unreferenced.          *)
Acquire(size) ==
  /\ HasFree(size) \/ Unreferenced # {}
  /\ pool' = IF HasFree(size) THEN [pool EXCEPT ![PoolOf(size)] = Tail(@)]
                              ELSE pool

-----------------------------------------------------------------------------
(* nextState := *state, at the start of a block of n bytes with streams    *)
(* for the given slots.                                                    *)
BeginBlock(e, n, slots) ==
  /\ pc[e] = "rest"
  /\ Growing \/ n <= block[e]
  /\ Slots \ Optional \subseteq slots
  /\ next' = [next EXCEPT ![e] = held[e]]
  /\ block' = [block EXCEPT ![e] = n]
  /\ needed' = [needed EXCEPT ![e] = slots]
  /\ pc' = [pc EXCEPT ![e] = "fill"]
  /\ turn' = [turn EXCEPT ![e] = 1]
  /\ UNCHANGED <<pool, held, tmp>>

(* The slot the encoder is at and what its stream asks for.                *)
Slot(e)   == next[e][turn[e]]
Wanted(e) == Need[block[e]][turn[e]]

(* Faulty: the position is not reset for the next loop. *)
AdvancePast(e, after) ==
  /\ turn' = [turn EXCEPT ![e] = @ + 1]
  /\ pc' = [pc EXCEPT ![e] = IF turn[e] = NSlots THEN after ELSE @]

(* The next slot, or the step that follows the last one. *)
Advance(e, after) ==
  /\ turn' = [turn EXCEPT ![e] = IF @ = NSlots THEN 1 ELSE @ + 1]
  /\ pc' = [pc EXCEPT ![e] = IF turn[e] = NSlots THEN after ELSE @]

(* A stream that the block does without: keepCompressionStreamBuffers sets *)
(* its buffer to nil.                                                      *)
SkipSlot(e) ==
  /\ pc[e] = "fill"
  /\ turn[e] \notin needed[e]
  /\ next' = [next EXCEPT ![e][turn[e]] = Nil]
  /\ Advance(e, "write")
  /\ UNCHANGED <<pool, held, tmp, block, needed>>

(* compressionByteBuffer, a buffer that is large enough.                   *)
KeepSlot(e) ==
  /\ pc[e] = "fill"
  /\ turn[e] \in needed[e]
  /\ Slot(e).cap >= Wanted(e)
  /\ Advance(e, "write")
  /\ UNCHANGED <<pool, held, next, tmp, block, needed>>

(* Faulty: the stream goes on with the buffer that was released. *)
ReleaseInUse(e) ==
  /\ pc[e] = "fill"
  /\ turn[e] \in needed[e]
  /\ Slot(e) # Nil
  /\ Slot(e).cap < Wanted(e)
  /\ Release(Slot(e))
  /\ Advance(e, "write")
  /\ UNCHANGED <<held, next, tmp, block, needed>>

(* compressionByteBuffer, a buffer that is too small: it is released, then *)
(* another one is acquired.                                                *)
ReleaseSmall(e) ==
  /\ pc[e] = "fill"
  /\ turn[e] \in needed[e]
  /\ Slot(e) # Nil
  /\ Slot(e).cap < Wanted(e)
  /\ Release(Slot(e))
  /\ next' = [next EXCEPT ![e][turn[e]] = Nil]
  /\ UNCHANGED <<held, tmp, pc, turn, block, needed>>

FillSlot(e) ==
  /\ pc[e] = "fill"
  /\ turn[e] \in needed[e]
  /\ Slot(e) = Nil
  /\ Wanted(e) > 0
  /\ Acquire(Wanted(e))
  /\ next' = [next EXCEPT ![e][turn[e]] = Acquired(Wanted(e))]
  /\ Advance(e, "write")
  /\ UNCHANGED <<held, tmp, block, needed>>

(* append past the capacity of a stream: a larger array, whose capacity    *)
(* need not be a power of two.                                             *)
Grow(e, s, c) ==
  /\ pc[e] = "write" /\ tmp[e] = NoOutputs
  /\ s \in needed[e]
  /\ c > next[e][s].cap
  /\ Unreferenced # {}
  /\ next' = [next EXCEPT ![e][s] = New(c)]
  /\ UNCHANGED <<pool, held, tmp, pc, turn, block, needed>>

(* encodeHuffmanStreams: the streams take their output buffers from the    *)
(* last stream to the first.                                               *)
TakeTmp(e, i, size) ==
  /\ pc[e] = "write"
  /\ tmp[e][i] = Nil
  /\ \A j \in Streams : j > i => tmp[e][j] # Nil
  /\ Acquire(size)
  /\ tmp' = [tmp EXCEPT ![e][i] = Acquired(size)]
  /\ pc' = [pc EXCEPT ![e] = IF i = NSlots + 1 THEN "free" ELSE @]
  /\ UNCHANGED <<held, next, turn, block, needed>>

(* releaseEncodedHuffmanStreams, whether or not the streams pay: from the  *)
(* first stream to the last.                                               *)
DropTmp(e, i) ==
  /\ pc[e] = "free"
  /\ tmp[e][i] # Nil
  /\ \A j \in Streams : j < i => tmp[e][j] = Nil
  /\ Release(tmp[e][i])
  /\ tmp' = [tmp EXCEPT ![e][i] = Nil]
  /\ pc' = [pc EXCEPT ![e] = IF i = LastStream THEN "write" ELSE @]
  /\ UNCHANGED <<held, next, turn, block, needed>>

(* The compressed block is kept: *state = nextState.                       *)
Commit(e) ==
  /\ pc[e] = "write"
  /\ tmp[e] = NoOutputs
  /\ held' = [held EXCEPT ![e] = next[e]]
  /\ next' = [next EXCEPT ![e] = NoBuffers]
  /\ pc' = [pc EXCEPT ![e] = "rest"]
  /\ UNCHANGED <<pool, tmp, turn, block, needed>>

(* The raw block is written: releaseUnusedCompressState.                   *)
Fallback(e) ==
  /\ Fallbacks
  /\ pc[e] = "write"
  /\ tmp[e] = NoOutputs
  /\ pc' = [pc EXCEPT ![e] = "drop"]
  /\ turn' = [turn EXCEPT ![e] = 1]
  /\ UNCHANGED <<pool, held, next, tmp, block, needed>>

(* Faulty: a buffer that the state shares is released. *)
DropShared(e) ==
  /\ pc[e] = "drop"
  /\ Release(Slot(e))
  /\ next' = [next EXCEPT ![e][turn[e]] = Nil]
  /\ Advance(e, "rest")
  /\ UNCHANGED <<held, tmp, block, needed>>

(* releaseUnusedByteBuffer: a buffer that the state shares is not released.*)
DropSlot(e) ==
  /\ pc[e] = "drop"
  /\ Release(IF Slot(e).array = held[e][turn[e]].array THEN Nil ELSE Slot(e))
  /\ next' = [next EXCEPT ![e][turn[e]] = Nil]
  /\ Advance(e, "rest")
  /\ UNCHANGED <<held, tmp, block, needed>>

(* compressState.release, at the end of encodeFresh, by Close and when the *)
(* options or the source size change: the next block may have any size.    *)
Close(e) ==
  /\ pc[e] = "rest"
  /\ pc' = [pc EXCEPT ![e] = "close"]
  /\ turn' = [turn EXCEPT ![e] = 1]
  /\ UNCHANGED <<pool, held, next, tmp, block, needed>>

(* Faulty: a released buffer stays in the state. *)
CloseKeeps(e) ==
  /\ pc[e] = "close"
  /\ Release(held[e][turn[e]])
  /\ Advance(e, "rest")
  /\ block' = [block EXCEPT ![e] = IF turn[e] = NSlots THEN MaxSize ELSE @]
  /\ UNCHANGED <<held, next, tmp, needed>>

CloseSlot(e) ==
  /\ pc[e] = "close"
  /\ Release(held[e][turn[e]])
  /\ held' = [held EXCEPT ![e][turn[e]] = Nil]
  /\ Advance(e, "rest")
  /\ block' = [block EXCEPT ![e] = IF turn[e] = NSlots THEN MaxSize ELSE @]
  /\ UNCHANGED <<next, tmp, needed>>

Init ==
  /\ pool = [c \in PoolCaps |-> <<>>]
  /\ held = [e \in Encoders |-> NoBuffers]
  /\ next = [e \in Encoders |-> NoBuffers]
  /\ tmp = [e \in Encoders |-> NoOutputs]
  /\ pc = [e \in Encoders |-> "rest"]
  /\ turn = [e \in Encoders |-> 1]
  /\ block = [e \in Encoders |-> MaxSize]
  /\ needed = [e \in Encoders |-> Slots]

Next ==
  \E e \in Encoders :
    \/ \E n \in Sizes, slots \in SUBSET Slots : BeginBlock(e, n, slots)
    \/ SkipSlot(e)
    \/ KeepSlot(e)
    \/ ReleaseSmall(e)
    \/ FillSlot(e)
    \/ \E s \in Slots, c \in GrowCaps : Grow(e, s, c)
    \/ \E i \in Streams, size \in TmpSizes : TakeTmp(e, i, size)
    \/ \E i \in Streams : DropTmp(e, i)
    \/ Commit(e)
    \/ Fallback(e)
    \/ DropSlot(e)
    \/ Close(e)
    \/ CloseSlot(e)

Spec == Init /\ [][Next]_vars

-----------------------------------------------------------------------------
(* Properties.                                                             *)

TypeOK ==
  /\ pool \in [PoolCaps -> Seq(Slices)]
  /\ held \in [Encoders -> [Slots -> Slices \cup {Nil}]]
  /\ next \in [Encoders -> [Slots -> Slices \cup {Nil}]]
  /\ tmp \in [Encoders -> [Streams -> Slices \cup {Nil}]]
  /\ pc \in [Encoders -> {"rest", "fill", "write", "free", "drop", "close"}]
  /\ turn \in [Encoders -> Slots]
  /\ block \in [Encoders -> Sizes]
  /\ needed \in [Encoders -> SUBSET Slots]

(* The buffers an encoder reads or writes: those of the copy while a block *)
(* is worked on, those of the state between blocks, and the outputs of its *)
(* Huffman streams.                                                        *)
Places == 1 .. LastStream

Working(e) == pc[e] \in {"fill", "write", "free", "drop"}

Use(e, p) ==
  IF p \in Streams THEN tmp[e][p]
  ELSE IF Working(e) THEN next[e][p]
  ELSE held[e][p]

(* A buffer in use has one user, in one role (compress_scratch.go hands    *)
(* buffers between states and pools): no other stream, of this encoder or  *)
(* of another, writes it, and no pool can give it away.                    *)
ExclusiveUse ==
  \A e \in Encoders, p \in Places :
    Use(e, p) # Nil =>
      /\ ~InPool(Use(e, p).array)
      /\ \A f \in Encoders, q \in Places :
           Use(f, q).array = Use(e, p).array => f = e /\ q = p

(* No buffer is in a pool twice, or in the pool of another capacity.       *)
PoolDistinct ==
  \A c, d \in PoolCaps :
    \A i \in 1 .. Len(pool[c]), j \in 1 .. Len(pool[d]) :
      /\ pool[c][i].cap = c
      /\ pool[c][i].array = pool[d][j].array => c = d /\ i = j

(* While a block is compressed each stream has the capacity it asked for:  *)
(* newCompressionBlockLiterals and appendRun reslice without a check.      *)
RoomForBlock ==
  \A e \in Encoders : \A s \in needed[e] :
    pc[e] = "write" => next[e][s].cap >= Need[block[e]][s]

=============================================================================
