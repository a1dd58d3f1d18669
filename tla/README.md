# skanda-go in TLA+

skanda-go compresses a byte slice into a stream of blocks and decodes such a
stream back. This directory holds TLA+ models of its core, the TLC runs that
check them on small instances, and proofs that TLAPS checks for every instance.
`PROJECT.json` lists components, runs, hazards, theorems and, for every
definition that models code, the source lines it stands for.

## The system

| Component | Source | State | Operations | Correct when |
|---|---|---|---|---|
| Encode | `encoder.go` | position, output, `compressState` (recent distances, scratch) | short source; next block on a copy of the state; keep compressed / fall back to raw; progress callback; last bytes | output decodes to the source; a dropped block leaves no trace |
| Block compressors | `compressor_levels.go` | position, start of the literal run, streams of the block | emit a literal run and a match; tail literals; entropy-code the streams | what they emit stands for the source bytes of the block |
| Tokens and literals | `tokens.go`, `literals.go` | token, distance, length and literal streams | write run lengths, match lengths, distances; collect raw, delta, position literals | the decoder reads the same values |
| Decode | `decoder.go`, `lz_decode.go`, `distance.go` | output position, recent distances, cursors into the streams | header, raw block, block checks, token loops | accepts exactly what was encoded, in an output of its size |
| Encoder scratch | `compress_scratch.go`, `encoder.go` | one buffer per stream in the state and in its copy; global pools | get a buffer, keep, replace, commit, drop, close | a buffer has one user; a pool holds a buffer once |
| Entropy layer | `huffman_encode.go`, `huffman.go`, `entropy_decode.go` | histograms, code lengths, packages, bit streams | build codes (two ways), write and read the header and six streams | complete prefix code in the length limit; the decoder has the same codes and reads each from its place |
| Match finders | `match_finder.go`, `block_splitter.go` | hash tables, binary trees in a list that is used again, match buffer | add, find and add, fill the buffer, empty | only true matches; positions never ahead of the parser; trees stay ordered |
| Optimal parser | `optimal_parse.go` | arrivals per position of a chunk, recent distances, steps | expand a position, end a chunk, trace back, take the steps, greedy fallback, iterate | steps are true matches that tile the block; arrivals know the distances of their path; chunks move on |
| Block splitter | `block_splitter.go` | histograms kept between calls | choose the next block size | 1 .. limit; histograms belong to the bytes they describe |
| Options, levels, memory | `api.go`, `compressor_levels.go`, `memory.go` | none | clamp, look up | tables |

Encode and Decode meet only in the stream; both start with the recent distances
1, 1, 1 and update them on their own. Within Encode a block is compressed on
`nextState := *state`, a shallow copy whose buffers are shared with the state
until the block is kept or dropped. Encoders meet in the global pools.

What is hard: two sides that keep the same history without exchanging it, and
one of them rolling back; codes that change width; literals whose meaning
depends on the distance of a match; matches that copy bytes they write; buffers
owned by a state, its copy, or a pool, released from each; goroutines between
any two pool operations; match finders that outlive a block, a fallback or a
call; trees whose nodes get new owners; search results kept for later, cut,
moved to the left or replaced while others refer to them; bit windows that are
refilled after a fixed number of codes; loops that end only if the arithmetic
works out. There is no persistence, no network and no timer.

## Modules

**`LengthCode`** - the one, two or three byte code of run and match lengths, and
the fields of a token, including the two-token form of blocks without Huffman
codes. The widths (224 direct and 32 continuing values, fields of 3 bits) are
the constants `Direct`, `Radix`, `FieldCap`.

**`DistanceCode`** - standard distances (1 to 3 bytes, 0 for the last one) and
advanced ones (three recent distances or a distance token with extra bits), both
directions, and the recent distances after each. The encoder's and the decoder's
updates (`RepsWritten`, `RepsRead`) are separate definitions, translated from
separate functions.

**`TokenCodes`** - a driver that counts a length up and codes it and three
distances near it with the widths of the program.

**`SkandaCodec`** - one `Encode` and one `Decode`. The encoder's variables are
`pos`, `state` (`compressState.repOffsets`), `work` (the block being compressed
with its copy of the state), `stream`, `enc` and `stop`; the decoder's are
`size`, `dst`, `cpos`, `reps`, `cur` (the cursors of the token loop) and `dec`.

| Action | Code |
|---|---|
| `EncodeShort`, `BeginBlock`, `FinishStream` | `Encoder.Encode` before, at the head of, and after the block loop |
| `EmitMatch` | one literal run and one match, `appendRun`, `append...BlockDistance`, `appendMatchLengthWithMode` |
| `KeepCompressed`, `KeepRaw` | tail literals, the size test of the loop, the progress callback |
| `StartDecode`, `MissingHeader`, `DecodeRaw`, `OpenBlock` | `decodeWithState` |
| `DecodeToken` | one iteration of a token loop: literals, distance, length, copy |
| `CloseBlock` | the end of a token loop and `dpos = blockEnd` |

Choices stand for what the format does not depend on: which true matches a level
takes, whether the compressed block is smaller, which literal mode an estimate
prefers, where the splitter cuts. A stream holds symbols; entropy coding, header
bytes and the packing of extra bits are left out. Four fields of a block are
history, written but never read by an action: `start` and `base` (where the
encoder was, and with which recent distances, when it began the block),
`literals` (the literals before they went to their lanes) and `marks` (where it
was after each token). **`SkandaCodecInv`** is the inductive invariant, in a module
of its own so that TLC can check it.

**`LosslessChannel`** - what the pair promises, without blocks or tokens: output
is a prefix of the input, only the whole input in an output of its size is
accepted, only an interrupted stream or a wrong size is rejected. `SkandaCodec`
implements it: `Lossless` is `LosslessChannel!Spec` under the mapping at the end
of `SkandaCodec`, where the output is `dst`, the verdict is `dec`, and the
channel is cut when `enc` is "interrupted".

**`ScratchPool`** - encoders, their states and copies (`held`, `next`), the output
buffers of the six Huffman streams (`tmp`) and the pools. The streams take their
buffers from the last to the first (`TakeTmp`) and release them from the first to
the last (`DropTmp`), one pool operation at a time. A slice is an array identity
and a capacity. Every pool operation is a step of its own, since a channel
operation is all that is atomic in the code. `compressionByteBuffer` is therefore
two actions, `ReleaseSmall` and `FillSlot`; `compressState.release` and
`releaseUnusedCompressState` go slot by slot. `BeginBlock` also stands for
`encodeWorkspace` when it keeps the state; when it does not, it is `Close` first.

**`BlockSplitter`** - `getBlockSize` in the loop of `Encode`, one action for each
turn of its loops: `Begin`, `Fill` (the histogram of a subdivision), `First`,
`Add`, `Whole` (the undivided block), `Split` (the boundaries from the end),
`Settle` (histograms behind the boundary move to the front), `WriteBlock`, and
`Reuse`, the next source of the same encoder. A histogram is how often each byte
of each source is counted in it, so that it is known which bytes it stands for
after moves, sums and differences. Another source size or other options make a
new splitter, the initial state.

**`BlockSequence`** - what `Encode` needs from block sizes; `BlockSplitter`
implements it (`BlocksTile`), and the sizes `SkandaCodec` chooses from with
`Splitter` are those it allows.

**`DistanceBits`** - the extra bits of advanced distances: `AppendValue` and
`FinishWriting` are the encoder's bit writer, `Open`, `ReadValue` and `Refill` the
decoder's 64-bit word. A bit is its place in the stream; the word is the stream
bit in its lowest place, the number of bits counted as present, and by how much
a load put its bits in a wrong place.

**`PrefixCode`**, **`HuffmanHeader`**, **`HuffmanCodegen`** - the code lengths of
Huffman-coded data. `HuffmanCodegen` is a state machine: `AssignLengths`,
`Lengthen`, `Shorten` (with `SpaceFits`, `SpaceFull` to leave the loops) are
`fastHuffmanCodegen`, `StartMerge`, `MergePairs`, `TakePackages`
`packageMergeHuffmanCodegen` with its two buffers in turn; then the same for the
precode (`BeginPrecode`), and `WriteHeader`. `HuffmanHeader` has both directions of
the header as functions: runs of lengths as precode operations, the reading of
them, and the symbol whose length is left over. `PrefixCode` has canonical codes
and the decoder's table.

**`HuffmanStream`** - one of the six interleaved bit streams: the encoder's
stores of eight bytes into a buffer of a computed size, the decoder's window with
its marker bit and its refills.

**`SourceBytes`** - the source as match finders see it: common lengths, hashes,
what a true match is. **`BlockPlan`** - what the parsers of all levels share: the
block, the position, the recent distances and the steps (a plan), the extension
to the left.

**`MatchTables`** - hash tables with one or more positions per bucket, and the
three searches of the lazy levels. **`MatchTree`** - the binary trees and the
table by three bytes of the upper levels. A walk down a tree (`Visit`: report,
then `Descend` or `Replace`) is a fold with the two dangling links as its state;
`nodes` is used again every `TreeSize` positions.

**`LevelParse`** - levels 0 to 4 and the splitter's quick parse on
`MatchTables`, for two calls of one encoder on the same source.

| Action | Code |
|---|---|
| `GreedyRepeat`, `FastSearch`, `RecentAgain`, `OlderAgain`, `NotAgain` | the turns of `compressBlockLevel` and of its inner loop over repeats |
| `LongRepeat`, `LazyOlder`, `LazySearch` | `compressBlockLazyWithFinder` with `findLazy1`, `findLazy2` |
| `QuickRepeat`, `QuickOlder`, `QuickSearch` | `approximateSymbolHistogram` |
| `BeginBlock`, `BlockDone`, `NextCall` | the block loop: a finder made on the copy is lost with a raw block (`owned`), and emptied by the next call |

Whether a block is written raw is a choice, but one that a second call may not make
differently for the same steps after the same recent distances (`SameFate`): the
code decides by the size of what these encode.

**`OptimalParse`** - levels 5 and up: optimal1 on `MatchTables`, optimal2 and
optimal3 on `MatchTree`, directly or through the match buffer. It is its own
driver of blocks and iterations (`compressBlockOptimal`).

| Action | Code |
|---|---|
| `FillNext`, `FillDone` | `fillMatchBuffer` |
| `StartChunk`, `ExpandPosition`, `ChunkDone` | `multiArrivalOptimalParseDetailedWithAcceleration` |
| `SinglePosition` | `optimalParseDetailedWithAcceleration` |
| `TakeResult`, `GreedyStep` | the loop of `parseOptimalBlockInternalDetailed` |
| `BeginBlock`, `NextIteration`, `BlockDone` | `compressBlockOptimal`, the fallback of `Encode` |

Each block begins with a model of its own (`coding`, one of `Codings`): what its
symbols cost, and so whether it is parsed for streams without Huffman codes and how
often. Blocks with and without a match buffer follow each other on the same trees.
What a symbol costs by a model are constants, `LiteralSymbol` by the literal's place in
a group of four and its byte or delta, `TokenSymbol` by run, distance field and length,
`DistanceSymbol`, and `LengthSymbol` for the rest of a run or length; `LiteralCost` and `MatchCost` add these
as the code does, with the change that one more literal makes to the cost of its run,
which may be negative, and the small costs for decoding speed. What is abstracted is
how the symbols of one distance or length share its cost. The next iteration takes
any model.

In both, `Written` follows the writer's update of the recent distances, so a plan
can be compared with what the encoder will do with it, and `PlanTrue` is the
assumption under which `SkandaCodec` lets the parser choose any true matches.

**`SkandaCodecProofs`**, **`BlockSplitterProofs`**, **`LevelParseProofs`**,
**`OptimalParseProofs`**, **`StreamProofs`** (the streams of a block, of `TokenCodes`,
`DistanceBits` and `HuffmanStream`, and the buffers they are written to, of
`ScratchPool`) - the theorems. **`MatchTreeProofs`** - what a search and an update do to
a tree of `MatchTree`, and what they find; **`CodeLemmas`** - what the code of a length
or a distance writes is what it reads; **`NaturalLemmas`** - division, induction and
recursive functions on the naturals.

**`MCSkandaCodec`**, **`MCScratchPool`**, **`MCRealWidths`**, **`MCHuffman`**,
**`MCLevelParse`**, **`MCOptimalParse`** - constants for TLC.

## Runs

| Run | Question | Instance |
|---|---|---|
| `codec_standard` | `TypeOK`, `StreamsConsumed`, `Lossless` with standard distances, with and without Huffman codes (split tokens) | all binary sources up to 8 bytes, three of 9, all literal modes |
| `codec_advanced` | `Lockstep`, `Lossless` and the inductive invariant `IInv` with recent distances, delta and position literals | binary sources up to 6, three mixed ones of 12 |
| `codec_splitter` | `RepSync`, `Lossless` when blocks have any size and any fall back; `Answered` (liveness) | binary sources up to 4, two chained ones of 8, blocks up to 4 |
| `codec_progress` | expected violation of `StopHonoured` | binary sources up to 4 |
| `codes_real` | `LengthsRoundTrip`, `DistancesRoundTrip`, `ValuesInPlace`, `ReaderEndsWithWriter`, `StoresFit`, `CodesInPlace` | real widths, lengths 0 to 262143, five distances, streams around one and two rounds |
| `pool_slots` | `TypeOK`, `PoolDistinct`, `RoomForBlock`, `ExclusiveUse` | 2 encoders, one growing, one falling back, 2 streams and 2 Huffman streams each, 2 pools of depth 2 |
| `pool_fallback` | expected violation of `ExclusiveUse` | 2 encoders that do both |
| `splitter` | `TypeOK`, `HistogramsCurrent`, `SameBytesCompared`, `ModelOfBlock`, `BoundHolds`, `BlocksTile` | 4 subdivisions of 3 bytes, 2 sources, up to 23 bytes |
| `huffman` | `CompleteCode`, `OptimalCode`, `HeaderRestoresCode`, `CodegenEnds` (liveness) | 5 symbols with counts 0, 1, 3, 20, codes up to 3 bits |
| `levels` | `PlanTrue`, `TablesBehind`, `ReusedAlike`, `MovesOn` | all binary sources of 12 bytes, twice, 9 sets of options |
| `levels_reused` | expected violation of `Reproducible` | the same |
| `optimal` | `SearchOrder`, `FindsLongest`, `PlanTrue`, `FinderBehind`, `RepsFollowPath`, `NothingDropped`, `MovesOn` | all binary sources of 11 bytes, in one or two blocks, 3 sets of options, 2 cost models |

Bounds of the codec runs. A byte has three values (`Direct = 1`, `Radix = 2`), so
that two and three byte length codes occur in runs and matches of a few bytes; a
field holds at most 2, a digit of a distance has base 2, an advanced row two
distances. Sources are all binary words of the given length, hence all shapes of
repetition of two symbols; the mixed sources make more than three distances
follow each other. Raw tails are 1 byte instead of 31, `RawSlack` 1 instead of
32. `codes_real` closes the gap between these widths and the program's: there
every length a block can have, and the distances up to 262143, just below 2^24
and down from 2^31 - 8, go through the codes alone. (The last seven distances
below 2^31, the only ones with 28 extra bits, exceed TLC's integers.)

Bounds of the bit streams. Widths of 0, 1, 8, 27 and 28 bits and codes of 1 and
11 bits make words as empty and as full as they get; five distances are two
refills and an odd end, streams of 32 to 61 symbols have none, one or two full
rounds, with and without a remainder.

Bounds of the pool runs. Capacities are 1 and 4 (1 and 2), with one more for
arrays that `append` grew and no pool takes; `Arrays` bounds allocation, and an
array that nothing refers to is used again, as the garbage collector would. Two
Huffman streams instead of six are enough for both to be held, taken and released in
opposite orders while the other encoder uses the pools.
`PoolDepth` 1 or 2 instead of 16 makes full pools common. `ApartSpec` of
`pool_slots` lets one encoder grow and the other fall back, each free of the
defect that `pool_fallback` shows, on shared pools; the growing one uses all its
streams. No step depends on which
array is which: its `VIEW` tells states apart by which places share an array and
by the capacities, and leaves out the size and streams of a block that is done, but
for the size where the blocks behind it may not be larger. In `pool_fallback` encoders are symmetric.

Bounds of `huffman`. Counts from 1 to 20 spread the ideal lengths beyond the limit
of 3, so that both repair loops run; the precode of four lengths has one-symbol,
skipped and left-over cases. At least two symbols occur, as the callers ensure.

Bounds of `optimal` and `levels`. Two byte values and two buckets make long
matches, collisions and full buckets common; the 11 (`optimal`) or 12 (`levels`)
bytes exceed the window (8 or 10 positions), the node list, `NiceLength` 6, a chunk of 4 and a block of 6, so
nodes are used again, matches end chunks, cross chunk and block ends, and are cut
at them; `Base` 2 instead of 64 makes steps longer after a few misses, so that the
greedy fallback runs. The hash is a sum: which positions collide is not the
program's choice. The sets of options take different branches: each parser, with and
without recent distances, one and two iterations, few and many arrivals. By the two
cost models all symbols cost the same, or some literals nothing, other literals,
runs and lengths differently; a block is parsed without Huffman codes, by the first
model, or by the second, twice if the options say so. In one of the options of
`levels` a block has the whole source: only there the second and the third position
of a lazy search win (with `lazy`; with `lazyfast` they never do here, and only the
proofs cover them).

What these properties do not see: `FinderBehind` and `TablesBehind` bound the
positions in a finder from above, so a position that is left out or put in twice, which
costs a match, is not found; `FindsLongest` speaks of the positions that are in a tree.
`PlanTrue` says that the matches of the quick parse do not overlap, so that no byte is
counted twice; a byte that it forgot to count would not be found, as the histogram is
not in `LevelParse`.

Bounds of the splitter run. Subdivisions are 3 bytes instead of 4096 or 131072;
the full block is one byte less than all of them, as in the program. Limits just
below, at and above one and two full blocks are included, so that the last
subdivision is full, short because the source ends, or short because the block is
full. `HeaderSize`, `BoundShare` and `BoundFixed` make `CompressBound`
nearly tight; two sources show what a call leaves to the next.

`HistogramsCurrent` allows one byte: the last subdivision of a full block is a
byte short (64 * 4096 = `maxBlockSize` + 1), and when a split keeps its histogram
it later stands for the full subdivision. Estimates are then off by that byte.

Deadlock: Encode and Decode stutter once both have returned (`Returned`), so a
codec run that stopped elsewhere would be reported. `TokenCodes` ends after its
last length, the bit streams with the block, `HuffmanCodegen` with the header,
`LevelParse` and `OptimalParse` with the source: these say `CHECK_DEADLOCK FALSE`,
and that they do not stop before is what `MovesOn` and `CodegenEnds` are for.

Fairness: `FairSpec` has weak fairness of `Encode \/ Decode`. Neither call waits
for anything, so a call that is scheduled at all takes its next step. So does a
running `fastHuffmanCodegen`: `HuffmanCodegen` has weak fairness of its steps.

Each property has a mutant: an operator marked "Faulty" beside the definition it
replaces, a plausible slip in that code under which TLC finds the property
violated.

### What the three violations show

`pool_fallback`: `compressionByteBuffer` (`compress_scratch.go:132-141`) releases
the buffer that is too small to the global pool. It is called on `nextState`, and
the encoder's `state` still holds the same buffer. When the block is kept, the
state is overwritten and all is well. When it is written raw
(`encoder.go:116-119`), `state` keeps a buffer that the pool may give to another
stream or encoder, and that a later block or `Close` releases a second time.
It takes a block that is larger than the one its buffers are from. The block
splitter produces such blocks within a source, so the levels with an optimal parser
are exposed; at the others the first block of a reused `Encoder` is larger than the
short last block of its previous source, whose buffers the state has if the blocks
before that were written raw. An encoder that
only grows, or only falls back, is safe (`pool_slots`).

`codec_progress`: the callback's answer is dropped in the last call and for short
sources, whereas `api.go:17-18` promises `ErrInterrupted`.

`levels_reused`: at levels 0 to 4 the first block makes its match finder on
`nextState`; when the block is written raw the finder is released with the copy
(`compress_scratch.go:111-122`), and the second block starts with an empty one. A
reused encoder has a finder from its first call. `resetForEncode` empties it, but
the copy then shares it, so the positions of the raw first block stay and the
second block finds matches in it. Both outputs are correct; they differ, which
`TestEncoderReuseMatchesEncode` (`skanda_test.go:202`) reports as an error, for
sources that have no such block. `ReusedAlike` shows that nothing else makes a
second call differ.

## Proofs

What the runs check on small instances is proved here for all values of the
constants. Each group below names its assumptions and its argument.

| Module | Theorems |
|---|---|
| `SkandaCodecProofs` | `EncodeDecodeLossless` (refinement of `LosslessChannel`), `Invariant`, `SameDistances`, `TokenByToken`, `NothingLeft`, `SymbolsFit` |
| `LevelParseProofs` | `PlansTrue`, `NothingAhead`, `AlwaysForward`, `SameAgain` |
| `BlockSplitterProofs` | `SplitterTiles` (refinement of `BlockSequence`), `SplitterBound`, `HistogramsServe`, `SidesHaveBytes`, `CostsOfBlock`, `SplitterTypes` |
| `OptimalParseProofs` | `Inductive`, `PlanIsTrue`, `TreeInOrder`, `PathsCounted`, `FinderNeverAhead`, `StepsAreTaken`, `ChunksMoveOn`, `LongestFound`, on the lemmas of `MatchTreeProofs` |
| `StreamProofs` | `LengthsCoded`, `DistancesCoded` (of `TokenCodes`, `CodesSpec`); `ValuesRead`, `ReaderEnds`, `BitsTypes` (of `DistanceBits`); `EveryStoreFits`, `EveryCodeInPlace`, `StreamTypes` (of `HuffmanStream`); `ScratchExclusive`, `PoolsDistinct`, `StreamsHaveRoom`, `ScratchTypes` (of `ScratchPool`, `Spec`) |
| `CodeLemmas` | `LengthReadBack`, `FreshReadBack`, `RecentDistances` |

### The codec

`EncodeDecodeLossless`: `Spec => Lossless`. For any set of sources, block size,
window, code widths and modes, what `Decode` writes is a prefix of the source,
it accepts only the whole source, and it rejects only what was interrupted or an
output of another size. The other theorems of the module are the invariants the
runs check (`TypeOK`, `RepSync`, `Lockstep`, `StreamsConsumed`).

None of them is inductive: each speaks of the decoder, and what the decoder does
depends on what the encoder wrote long before. `IInv` therefore says what a stream
*means*:

- each token of a block says what the source holds between the mark before it and
  its own mark: a run of literals at their places in the lanes and, unless it is
  the last token, a match that is true in the source, with its codes at the marks'
  places of the distance and length streams (`TokenWritten`). This refers to the
  source and to the block only, so it stays true whatever follows (`StandsLonger`);
- nothing is left over behind the last mark (`TokensWritten`);
- blocks start where the one before them ends, with its recent distances,
  and only the last raw block of a finished call is the last (`StreamWritten`);
- the encoder's block in work is such a block so far (`WorkWritten`), and the state
  that a fallback returns to is the one at the end of the stream (`EncoderInv`);
- the decoder's output is a prefix of the source, and inside a block its cursors are
  those of the mark of its last token (`DecoderInv`, `AtMark`).

The encoder's actions keep the first four (one lemma per action; `WithMatch` and
`WithTail` add one `TokenWritten`, `MatchKeeps`). For the decoder one lemma says
that a token brings it from mark to mark (`TakesMatch`, `TakesTail`): the run is
read from its lanes (`RunFound`, by counting the literals of each lane), deltas are
undone byte after byte (`RunDecoded`, an induction over the run), lengths and
distances are read back (`CodeLemmas`), and a match that overlaps what it
writes yields the bytes of the source. The tests of the code that reject a
stream all fail on such a stream, which is where `Corrupt` is shown to need an
interruption or another size. Steps then map to steps of the channel
(`RefineStep`).

Assumed are `SkandaCodecAssumption` and that the codes reach: blocks of at most
`MaxCode + FieldCap` bytes (in the program 2^18 - 1 against 269,535 + 7) and
distances within what the rows accept (`windowLog` is at most 31). `IInv` is an
invariant of the run `codec_advanced`.

### The codes

`LengthReadBack`: every value up to `MaxCode` (what three bytes carry) is read back
from the bytes `EncodeLength` writes, wherever they stand in a stream.
`FreshReadBack`: an advanced distance is read back from its row, its low part and its
extra bits. `RecentDistances`: `RepsRead` after `AdvField` yields `RepsWritten`, with
the distance of the match first. `LengthsCoded` and `DistancesCoded` are the
invariants of `TokenCodes`, the first if `MaxLength <= MaxCode + FieldCap`: the third
byte is converted to a byte, so a longer length would be cut.

The argument for lengths splits a value by its number of bytes (`EncodeCases`),
bounds the third byte by the division lemmas, and finds the code again between its
neighbours (`Embedded`).

### The bit streams

`DistanceBits`, for any number of distances of a block, widths up to 28 bits and at
least 16 bytes of source behind them (the program has 31). `SideBySide` says that
each value begins where the one before it ends, and that together they fill the
emitted bytes but for part of the last. `WordInPlace` says that the word begins with
the next value to be read, that the next load starts where the counted bits end
(`8 * pos = low + count`; this is why no load misses, although the loads
overlap), and that at least 56 bits are counted before the first and 28 before the
second value of a pair. The bits never reach past the packed ones by a load, so
neither of the reader's checks fails; and once everything is read fewer than eight
bits of the last byte are left, so the end position is the writer's.

`HuffmanStream`, for any number of codes of 1 to 11 bits. `Chained` says that the
codes lie one behind the other up to where the encoder writes. `Round` is shared by
both sides: since the last whole bytes were let go, at most five codes were
handled on top of at most seven bits, so that 62 bits hold them and the reader's window
keeps its marker. Where the window starts before the stream it holds the rest of
it, and needs no refill.

### The block splitter

For any sources and subdivisions, and whatever the estimates say. Assumed are at
least two subdivisions, `HeaderSize * BoundShare <= SubSize` (in the program
3 * 1024 <= 4096) and room for two headers in the fixed part (6 <= 128).

For sizes, the invariant adds that a boundary still to be tried lies inside the
offered block and that the best block is the offered one or at least a
subdivision (`CallOK`); hence only the last block can be smaller, and
`blocks * SubSize <= pos + SubSize` (`FewBlocks`), from which the bound follows.

For histograms, `BytesInv` says which bytes each of them counts at each phase: the
parts are those of their subdivisions (`PartsAt`), and the two sides of the
boundary, although kept by sums, differences and a reset, always add up to the
first `n` of them (`Joined`, `BestIs`). It allows the one byte described under Runs.

### The parsers of levels 0 to 4

For any source, options, buckets, windows and lengths, and any hash collisions:

- `PlansTrue`: `Spec => []PlanTrue`, every match of a plan is in the source, within
  the window and its block, and behind the match before it
- `NothingAhead`: `Spec => []TablesBehind`
- `AlwaysForward`: `Spec => MovesOn`
- `SameAgain`: `Spec => []ReusedAlike`, a reused encoder takes the matches a new one
  took, when the first block was kept

`IInv` adds to the types: in a block the plan ends where the literals begin, the
tables hold only positions before the parser *and inside the block*
(`AtMost(pos, end)`: a match may end the block while the lazy levels still put
positions in), and while repeats are looked for, the last distance is within
reach; between blocks a finder that the state keeps has only positions before the
next block, which is what a raw block and the next call preserve.

The searches are folds over buckets and positions, written as recursive functions.
The lemmas about them are general: what holds of one candidate and is kept by the
next holds of what a search returns (`Longest`, `Worthiest`), and what one position
put into a table keeps, a list of them keeps (`PutAll`). `CommonLength` is shown to
be a number of bytes that agree, the extension to the left to take only literals
that agree, so that every match written is a `Run`. Then there are three
ways a turn ends (`AfterWrite`, `AfterFound`, `AfterNothing`) and one lemma per action.

`LevelParseAssumption` says what the code's levels have: the lazy levels match at least
four bytes, only they have several positions in a bucket, and the words that are
hashed (up to 8 bytes) are shorter than the last bytes of a source (31), so that
`findLazy1` and `findLazy2` may hash one and two positions behind a block's last.

`SameAgain` compares two calls, while a state of the model is one of a single call.
What makes the calls comparable is that no turn of a parser has a choice: `TurnOf(m)`
is what a turn makes of the parser's state `m`, and one lemma per parser (`FastNow`,
`AgainNow`, `LazyNow`, `QuickNow`) shows that every action of the loops is that
function. So a block ends in one state only, whatever it takes to get there
(`HaltsOnce`). `History(h, blocks)` says that `h[k]`, the tables, the recent distances
and the position behind block `k`, is what the parser makes of `h[k - 1]`, given
which blocks were written raw. The invariant `Alike` is that the written blocks
have a history that ends where the parser is: in the first call one of `written`, in
the second one of `first`, of which `written` is a prefix. It needs that the finder is
kept from the first block on (`Whole`), for otherwise the second block of the first
call begins with an empty finder and not with what block 1 left. What the
theorem takes over from the model is `SameFate`: equal steps after equal recent
distances have the same fate. As
`History` exists only in proofs, TLC has checked its parts on the instance of `levels`:
that each turn is `TurnOf`, that a block begins with `Begun`, and that `written` is a
prefix of `first`.

### The optimal parsers

For any source, options, cost models, buckets, window, tree depth and chunk size, and
any coding of each block:

- `PlanIsTrue`: `Spec => []PlanTrue`, every buffered match and every step of the plan
  is a match in the source, and the steps are in order
- `TreeInOrder`: `Spec => []SearchOrder`
- `PathsCounted`: `Spec => []RepsFollowPath`
- `FinderNeverAhead`: `Spec => []FinderBehind`
- `StepsAreTaken`: `Spec => []NothingDropped`
- `ChunksMoveOn`: `Spec => MovesOn`
- `LongestFound`: `Spec => []FindsLongest`

All follow from `IInv`, which `Inductive` shows to hold in every state. It says that

- whatever the finder in use, or the buffer, has for a position is a match of at least
  three bytes that begins there, ends in the block, is within reach and whose bytes
  are those at its distance (`Real`, `Fits`); the table and tree
  searches, the tails that `fillMatchBuffer` derives from a long match and the
  cut to the longest few all keep this (`FindFinds`, `FindAllFits`, `TailFits`);
- the trees are sorted and have lost nothing that can be found (`Sorted`, `Complete`, see
  below);
- the finders hold only positions before where the parser is, or before the end of
  the block when matches are buffered (`Reach`). The terminal overlap of a
  match is shown to stop where the match does, also for one moved to the left
  (`OverlappedKeeps`, `MatchEnds`);
- in a chunk each arrival at place `i` refers to an earlier place, by a literal or
  by a match of at least two bytes that ends at `i` and is one in the source, and costs
  at most what `i` bytes can cost, or `Infinite` (`Place`). Inserting an arrival moves
  others but never to another place (`InsertKeeps`), so that every path back tiles the
  bytes it leads over with true matches (`BackTiles`, an induction over the path);
- each arrival has the recent distances and the literal run of the one it refers
  to, updated by what leads from there (`Follows`), and that one is at the current
  position or before, where nothing changes any more (`Followed`, see below);
- the steps decided so far are true matches, in order, that end before the literals
  that follow them (`Plan`), also after a match moved to the left (`RealLeft`).

The last bound is what optimal1 needs to move on: when it gives up a chunk it goes
back to the last place with an arrival (`Settled`), and the literal it has just
tried gives the next place one, provided its cost is below the value that stands
for none (`RelaxedFits`). `CostAssumption` says so: in the program `Infinite` is the
largest `int`, 2^63 - 1, a chunk has at most 4,096 positions and `optimalCostScale`
is 4,096. A literal may lower the cost of its run, so costs need not grow along a path;
only their bound from above is used (`LiteralCosts`, `MatchCosts`). `FirstNice` is at least 2 (32 in the program or more): with 1,
half of it would be 0, and a chunk could end with an empty match. `NiceLength` is at
least 3: with 2 a search would stop at a match of two bytes, which none reports.

An arrival refers to its predecessor by place, and insertions move arrivals. That
the reference stays good rests on an order of events: arrivals are counted only
from the current position or, for optimal1, one to the left of it, and inserted
only to the right of it, so what is referred to has come to rest (`FollowedMade`,
`FollowedMove`). `BackFollows` then goes back along the path from any
arrival and finds that what the steps on the way add up to is what the arrival has
counted; `RepsAre` is the same for the steps of the parser, which `Written` and
`UpdatedReps` count alike (`RepsAgree`).

The order fails in one case, which `RepsFollowPath` therefore leaves out: optimal1
for streams without Huffman codes. There a match that was moved to the left is cut
to the longest short code (`noHuffmanStoredMatchLength`: 9 to 16 bytes become 8)
after its start has moved, so it may end where it was found or before, and the
arrival it replaces there may be one that others were counted from. Costs and
recent distances of these others are then estimates for a path that is no longer
theirs; the plan stays true and the writer counts afresh, so nothing that is
written is affected (`PlanIsTrue`, `StepsAreTaken` and the first part of
`RepsFollowPath` hold for these options too). No comment or test of the code says
otherwise.

The order of a tree is not inductive child by child, as `SearchOrder` states it: a
search that goes down from `x` must know the side of everything below it, and
nodes are used again by later positions. `Sorted` therefore says that *some*
assignment gives each position a set that its subtree may have, such that

- a position is the latest of its own set;
- the set of a child that a search may still visit is inside that of its parent, and
  on its side of the parent by the bytes that tell positions apart (`Placed`).

A search for `p` opens one slot on each side of `p`, and `Walking` is its loop invariant:
the tree is ordered but for the two open slots, and what is below the position to be
visited and on one side of `p` may also go below the slot open on that side
(`Bracketed`). The bytes known to agree on a side (`lesserFront`, `greaterFront`) are those
of the last position passed there, which is why the smaller of the two may be skipped
at the next (`VisitAgrees`): the search never compares these bytes, and `PlanIsTrue` needs
the order of the tree to know that what it finds is a match from its first byte. A visit then fills one slot and opens another, replaces
the position it cannot tell from `p`, or closes both (`Closes`). A node that is used again
belongs to a position below `TreeEnd` by then, which no search visits.

`LongestFound` needs more than the order: that a search misses nothing. `Complete` says
that there is a set of positions that searches come to - each the root of its tree or a
child of another (`Hung`), with its kin alone below it (`Related`) - and that for every
position in the window one of them `Stands`: the position itself, or a later one that
agrees with it in all bytes that tell positions apart, and has replaced it. Excepted are
positions that are `Lost`: too far away, or with as many later ones in their tree as a
search may visit. The second is what a search that is given up leaves, since it has
visited that many (`StopCombs`), and it stays so when more positions come (`LostMore`).
`Combing` is the loop invariant: what is still to be found stands below the position to
be visited, or was visited, or has no more in common with `p` than a match reported
already (`Prunes`). Where a search may visit the whole tree none is lost (`NoneLost`), so
what is reported is the longest match, up to `NiceLength` (`CompleteFinds`).

### The scratch pool

For any number of encoders, streams, pools, capacities and block sizes, and under
`~(Growing /\ Fallbacks)`. The condition is the exact line between the passing and
the failing runs: either blocks do not grow, or none falls back. The named
assumptions are those of `ScratchPool`: needs are monotone in the block size, and
the pool capacities have a smallest one above any size they cover.

`ExclusiveUse` is not inductive. While a block is compressed only the copy is in
use, but after a fallback the state is, so the state's buffers must have stayed
exclusive all along (`HeldExclusive`, needed only with fallbacks). That in turn
needs that no buffer is released as too small, i.e. that every buffer of the
state covers the need of the current block (`LargeEnough`, when blocks do not
grow). `Phases` says what the slot-by-slot loops have done so far: the copy is
empty outside a block, slots before `at` are filled, skipped or emptied.
`IInv` is their conjunction. Lemmas give the effect of a release and of an
acquisition on the pools, then one lemma per action shows that it keeps `IInv`.

### Only model-checked

- Liveness (`Answered`, `CodegenEnds`) and ENABLED are out of the prover's reach. `MovesOn`
  is the safety half of the parsers' termination and is proved for all levels.
- `HuffmanCodegen`, `PrefixCode` and `HuffmanHeader` are written with
  folds of the community modules. What a fold yields for every input cannot be
  proved: its definition passes an operator as an argument. For recursive
  functions the induction can be done (`UpTo` and `Recursion` of `NaturalLemmas`), as
  in all other modules.
- `OptimalCode` compares with all codes there are, and `HeaderRestoresCode` inverts a
  parser: these would be proofs of the two algorithms.
- The last seven distances below 2^31 exceed TLC's integers; the proofs cover
  them.

## Not modelled

- What symbols cost and which of two encodings is estimated to be smaller
  (`buildOptimalCostModel`, `estimateBlockSplitModel`, entropy estimates): floating
  point arithmetic that decides between results that are all allowed here. Costs
  are a few models, decisions are choices.
- Decoding of streams that no encoder writes, header bytes, the stream header of
  `entropy_decode.go`: a stream holds symbols and a block is a record.
- Decoder scratch (`decodeState.alloc`) and the shared encoder and decoder pools
  (`sync.Pool`): slices of one allocation inside one call, and states with one user
  at a time; nothing outlives a call.
- The pools of int tables, uint32 buffers and parse states: same code shape as
  the byte pools.
- Option clamping, level tables, `EstimateMemory`: no state.

## Plan

1. Done: codes of lengths and distances with their bits, codec with refinement,
   scratch pool, splitter, Huffman codes, header and streams, match finders, the
   parsers of all levels, reuse of encoders.
2. Done: proofs of every invariant of the codec, the codes, the bit streams, the
   splitter, the scratch pool and the parsers of levels 0 to 4, of both refinements, of
   the order of the match trees and of what they find, of where the optimal parsers and their finders are, of
   the plans they make and of what their arrivals count.
3. Left to prove: `CompleteCode` of `HuffmanCodegen`, for which its folds have to
   become recursive functions.
4. Left to model: a parser composed with the codec, so that the plan is
   written and decoded in one run; any sequence of blocks at the decoder, with no
   write outside the block.
