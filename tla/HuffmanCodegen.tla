--------------------------- MODULE HuffmanCodegen ---------------------------
(***************************************************************************)
(* The code lengths of Huffman-coded data (huffman_encode.go): first for   *)
(* the symbols of the data, then, from the header that describes them, for *)
(* the precode.  Fast levels round the ideal lengths and repair the code   *)
(* space in two loops (fastHuffmanCodegen); the others merge packages in   *)
(* two alternating buffers (packageMergeHuffmanCodegen).                   *)
(***************************************************************************)
EXTENDS HuffmanHeader

CONSTANT
  Histograms (* how often each symbol of the data occurs                   *)

ASSUME HuffmanCodegenAssumption ==
  /\ Histograms \subseteq [Symbol -> Nat]
  /\ \A h \in Histograms : Cardinality({s \in Symbol : h[s] > 0}) >= 2

VARIABLES
  fast,     (* useFastCodegen                                              *)
  level,    (* "data", then "precode"                                      *)
  phase,    (* "assign", "lengthen", "shorten", "merge", "coded", "done"   *)
  hist,     (* the histogram of this level                                 *)
  lens,     (* the lengths of this level                                   *)
  dataLens, (* the lengths of the data, once they are found                *)
  bucket,   (* where the loops over the rounding errors are                *)
  index,
  nodes,     (* the two buffers of packages                                *)
  merged,    (* the list of this depth: references to symbols and packages *)
  depth

fastVars  == <<bucket, index>>
mergeVars == <<nodes, merged, depth>>
vars      == <<fast, level, phase, hist, lens, dataLens, fastVars, mergeVars>>

Limit  == IF level = "data" THEN MaxCode ELSE MaxPre
Used == {s \in DOMAIN hist : hist[s] > 0}

-----------------------------------------------------------------------------
(* Fast code generation.  Logarithms have eight binary digits.             *)

FractionTable ==
  <<0, 11, 22, 33, 43, 53, 63, 73, 82, 91, 100, 109, 117, 125, 134, 141,
    149, 157, 164, 172, 179, 186, 193, 200, 206, 213, 219, 225, 232, 238, 244, 250>>

FixedLog2(v) == 256 * Log2(v) + FractionTable[(v * 32) \div 2^Log2(v) - 31]

Optimal(s) == FixedLog2(Sum(hist, DOMAIN hist)) - FixedLog2(hist[s])
Rounded(s) == (Optimal(s) + 128) \div 256

AtMost(a, b)  == IF a < b THEN a ELSE b
AtLeast(a, b) == IF a > b THEN a ELSE b

(* sortedErrors: the symbols of each of 16 ranges of rounding errors.      *)
Bucket(s) == AtMost((Optimal(s) - 256 * Rounded(s) + 128) \div 16, 15)

SortedErrors(b) == Ascending({s \in Used : Bucket(s) = b})

AssignLengths ==
  /\ phase = "assign" /\ fast
  /\ lens' = [s \in DOMAIN hist |->
                IF s \in Used THEN AtMost(AtLeast(Rounded(s), 1), Limit) ELSE Limit + 1]
  /\ bucket' = 15 /\ index' = 0
  /\ phase' = "lengthen"
  /\ UNCHANGED <<fast, level, hist, dataLens, mergeVars>>

(* Faulty: a code grows past the limit. *)
LengthenAny ==
  /\ phase = "lengthen"
  /\ SpaceUsed(lens, Limit) > 2^Limit
  /\ IF index >= Len(SortedErrors(bucket))
     THEN index' = 0 /\ bucket' = (bucket - 1) % 16 /\ UNCHANGED lens
     ELSE /\ index' = index + 1
          /\ lens' = [lens EXCEPT ![SortedErrors(bucket)[index + 1]] = @ + 1]
          /\ UNCHANGED bucket
  /\ UNCHANGED <<fast, level, phase, hist, dataLens, mergeVars>>

(* Codes take too much space: symbols whose length was rounded down most   *)
(* get a longer code, again and again from the first bucket on.            *)
Lengthen ==
  /\ phase = "lengthen"
  /\ SpaceUsed(lens, Limit) > 2^Limit
  /\ IF index >= Len(SortedErrors(bucket))
     THEN index' = 0 /\ bucket' = (bucket - 1) % 16 /\ UNCHANGED lens
     ELSE LET s == SortedErrors(bucket)[index + 1]
          IN  /\ index' = index + 1
              /\ lens' = IF lens[s] = Limit THEN lens ELSE [lens EXCEPT ![s] = @ + 1]
              /\ UNCHANGED bucket
  /\ UNCHANGED <<fast, level, phase, hist, dataLens, mergeVars>>

SpaceFits ==
  /\ phase = "lengthen"
  /\ SpaceUsed(lens, Limit) <= 2^Limit
  /\ phase' = "shorten"
  /\ UNCHANGED <<fast, level, hist, lens, dataLens, fastVars, mergeVars>>

Remaining == 2^Limit - SpaceUsed(lens, Limit)

(* Faulty: the search for a symbol does not go round. *)
ShortenOnce ==
  /\ phase = "shorten" /\ Remaining # 0
  /\ IF index = 0
     THEN /\ bucket' = AtMost(bucket + 1, 15)
          /\ index' = IF bucket = 15 THEN 0 ELSE Len(SortedErrors(bucket'))
          /\ UNCHANGED lens
     ELSE LET s == SortedErrors(bucket)[index]
          IN  /\ index' = index - 1
              /\ lens' = IF Share(lens[s], Limit) <= Remaining
                         THEN [lens EXCEPT ![s] = @ - 1] ELSE lens
              /\ UNCHANGED bucket
  /\ UNCHANGED <<fast, level, phase, hist, dataLens, mergeVars>>

(* Space is left: back from there, a symbol gets a shorter code if what it *)
(* takes more is there.                                                    *)
Shorten ==
  /\ phase = "shorten" /\ Remaining # 0
  /\ IF index = 0
     THEN /\ bucket' = (bucket + 1) % 16
          /\ index' = Len(SortedErrors(bucket'))
          /\ UNCHANGED lens
     ELSE LET s == SortedErrors(bucket)[index]
          IN  /\ index' = index - 1
              /\ lens' = IF Share(lens[s], Limit) <= Remaining
                         THEN [lens EXCEPT ![s] = @ - 1] ELSE lens
              /\ UNCHANGED bucket
  /\ UNCHANGED <<fast, level, phase, hist, dataLens, mergeVars>>

SpaceFull ==
  /\ phase = "shorten" /\ Remaining = 0
  /\ phase' = "coded"
  /\ UNCHANGED <<fast, level, hist, lens, dataLens, fastVars, mergeVars>>

-----------------------------------------------------------------------------
(* Package merge.  A node is a sum and how often each symbol is in it; the *)
(* list of a depth refers to the symbols, in place "own", and to packages  *)
(* in one of the two buffers.                                              *)

Single(s) == [sum |-> hist[s], counts |-> [t \in DOMAIN hist |-> IF t = s THEN 1 ELSE 0]]

Own == [i \in 1 .. Cardinality(Used) |-> [place |-> "own", at |-> i]]

Node(buffers, ref) ==
  IF ref.place = "own" THEN Single(Ascending(Used)[ref.at])
  ELSE buffers[ref.place][ref.at]

Joined(a, b) ==
  [sum    |-> a.sum + b.sum,
   counts |-> [s \in DOMAIN hist |-> a.counts[s] + b.counts[s]]]

StartMerge ==
  /\ phase = "assign" /\ ~fast
  /\ merged' = Own
  /\ depth' = 1
  /\ phase' = "merge"
  /\ UNCHANGED <<fast, level, hist, lens, dataLens, fastVars, nodes>>

(* sort.Slice leaves the order of equal sums open: they may keep their     *)
(* order or be reversed here.                                              *)
Sorted(list, reversed) ==
  LET sum(i) == Node(nodes, list[i]).sum
      order == SortSeq([i \in DOMAIN list |-> i],
                 LAMBDA i, j : \/ sum(i) < sum(j)
                               \/ sum(i) = sum(j) /\ (IF reversed THEN i > j ELSE i < j))
  IN  [k \in DOMAIN list |-> list[order[k]]]

(* Faulty: all packages are made in one buffer. *)
OneBuffer(d) == "first"

Target(d) == IF d % 2 = 1 THEN "first" ELSE "second"

(* Packages are made one after the other: the list may refer to a package  *)
(* that one of them replaces.                                              *)
MergePairs(reversed) ==
  /\ phase = "merge" /\ depth < Limit
  /\ LET list  == Sorted(merged, reversed)
         into  == Target(depth)
         pairs == Len(list) \div 2
         Make(buffers, i) ==
           [buffers EXCEPT ![into][i] =
              Joined(Node(buffers, list[2 * i - 1]), Node(buffers, list[2 * i]))]
     IN  /\ nodes' = FoldLeft(Make, nodes, [i \in 1 .. pairs |-> i])
         /\ merged' = Own \o [i \in 1 .. pairs |-> [place |-> into, at |-> i]]
  /\ depth' = depth + 1
  /\ UNCHANGED <<fast, level, phase, hist, lens, dataLens, fastVars>>

(* A code is as long as its symbol is often in the first 2n - 2 nodes.     *)
TakePackages ==
  /\ phase = "merge" /\ depth >= Limit
  /\ LET chosen == 1 .. AtMost(2 * Cardinality(Used) - 2, Len(merged))
     IN  lens' = [s \in DOMAIN hist |->
                    IF s \in Used
                    THEN MapThenSumSet(LAMBDA i : Node(nodes, merged[i]).counts[s], chosen)
                    ELSE Limit + 1]
  /\ phase' = "coded"
  /\ UNCHANGED <<fast, level, hist, dataLens, fastVars, mergeVars>>

-----------------------------------------------------------------------------
(* generateHuffmanHeaderData: the precode of the lengths just found.       *)
BeginPrecode ==
  /\ phase = "coded" /\ level = "data"
  /\ level' = "precode"
  /\ phase' = "assign"
  /\ dataLens' = lens
  /\ hist' = PrecodeHistogram(lens)
  /\ lens' = [p \in Precodes |-> 0]
  /\ UNCHANGED <<fast, fastVars, mergeVars>>

WriteHeader ==
  /\ phase = "coded" /\ level = "precode"
  /\ phase' = "done"
  /\ UNCHANGED <<fast, level, hist, lens, dataLens, fastVars, mergeVars>>

NoNode == [sum |-> 0, counts |-> <<>>]

Init ==
  /\ fast \in BOOLEAN
  /\ level = "data"
  /\ phase = "assign"
  /\ hist \in Histograms
  /\ lens = [s \in Symbol |-> 0]
  /\ dataLens = lens
  /\ bucket = 0 /\ index = 0
  /\ nodes = [place \in {"first", "second"} |->
                [i \in 1 .. AtLeast(NSymbols, Unused) |-> NoNode]]
  /\ merged = <<>>
  /\ depth = 0

FastCodegen ==
  \/ AssignLengths
  \/ Lengthen
  \/ SpaceFits
  \/ Shorten
  \/ SpaceFull

Next ==
  \/ FastCodegen
  \/ StartMerge
  \/ \E reversed \in BOOLEAN : MergePairs(reversed)
  \/ TakePackages
  \/ BeginPrecode
  \/ WriteHeader

(* The code is sequential and waits for nothing; the loops of package merge*)
(* and the header end by their bounds, so that fairness is stated for the  *)
(* fast generation only.                                                   *)
Spec == Init /\ [][Next]_vars /\ WF_vars(FastCodegen)

-----------------------------------------------------------------------------
(* Properties.                                                             *)

(* At both levels, for every histogram and both ways, the code is complete *)
(* and within its limit: the decoder's table has no gap and no overflow,   *)
(* and a length never leaves its byte (fastHuffmanCodegen,                 *)
(* packageMergeHuffmanCodegen, buildDecodeTable).                          *)
CompleteCode ==
  /\ phase \in {"lengthen", "shorten"} => \A s \in Used : lens[s] \in 1 .. Limit
  /\ phase \in {"coded", "done"} =>
       /\ \A s \in DOMAIN hist : IF s \in Used THEN lens[s] \in 1 .. Limit ELSE lens[s] = Limit + 1
       /\ SpaceUsed(lens, Limit) = 2^Limit

Cost(f) == MapThenSumSet(LAMBDA s : f[s] * hist[s], Used)

(* Package merge finds a code of least total length among all that keep    *)
(* the limit, although the list of the last depth is not sorted and the    *)
(* two buffers are used in turn (packageMergeHuffmanCodegen).              *)
OptimalCode ==
  (phase = "coded" /\ ~fast) =>
    LET codes == {f \in [Used -> 1 .. Limit] : SpaceUsed(f, Limit) <= 2^Limit}
    IN  /\ Restrict(lens, Used) \in codes
        /\ \A f \in codes : Cost(lens) <= Cost(f)

(* From the header and codes that the encoder wrote the decoder builds, at *)
(* both levels, a table that decodes each of these codes                   *)
(* (encodeHuffmanHeaderInto, createHuffmanCodes, decodeHuffmanHeader).     *)
HeaderRestoresCode ==
  phase = "done" =>
    LET header  == Header(dataLens, lens)
        precode == ReadPrecode(header)
        symbols == ReadLengths(header)
    IN  /\ precode # Corrupt /\ TableDecodes(DecodeTable(precode, MaxPre), lens, MaxPre)
        /\ symbols # Corrupt /\ TableDecodes(DecodeTable(symbols, MaxCode), dataLens, MaxCode)

(* Both loops of the fast generation end: whatever the rounding errors,    *)
(* some symbol can be lengthened while the codes take too much space and   *)
(* one shortened while space is left (fastHuffmanCodegen).                 *)
CodegenEnds == (fast /\ phase = "assign") ~> (phase = "coded")

=============================================================================
