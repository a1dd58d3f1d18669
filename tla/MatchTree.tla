----------------------------- MODULE MatchTree ------------------------------
(***************************************************************************)
(* The match finder of the upper levels (match_finder.go): a table of      *)
(* recent positions by three bytes, and for each hash of four bytes a      *)
(* binary tree of positions, ordered by the bytes that follow them, with   *)
(* the latest position at the root.  The nodes of the trees are an array   *)
(* that is used again every TreeSize positions; position 0 means none.     *)
(***************************************************************************)
EXTENDS SourceBytes

CONSTANTS
  Entries,    (* positions a bucket of the three-byte table keeps          *)
  Window,     (* size of the node list for sources that are longer         *)
  NiceLength, (* a match of this length ends a search                      *)
  DepthLimit  (* nodes a search visits: 1 << hashEntriesLog                *)

ASSUME MatchTreeAssumption ==
  /\ Entries \in Nat \ {0} /\ Window \in Nat \ {0}
  /\ NiceLength \in Nat \ {0, 1, 2} /\ DepthLimit \in Nat \ {0}

VARIABLES
  chain3,  (* the table of positions by three bytes, the latest first      *)
  lookup,  (* the root of the tree of each hash                            *)
  nodes,   (* the children of position p, at 2i and 2i + 1 for p's node i  *)
  inserted (* the positions put into a tree so far                         *)

treeVars == <<chain3, lookup, nodes, inserted>>
tree     == [chain3 |-> chain3, lookup |-> lookup, nodes |-> nodes, inserted |-> inserted]

TreeIs(t) ==
  /\ chain3' = t.chain3 /\ lookup' = t.lookup
  /\ nodes' = t.nodes /\ inserted' = t.inserted

-----------------------------------------------------------------------------
(* The node list: one node for each position of a short source, the last   *)
(* Window positions of a long one.                                         *)
TreeSize == AtMost(Len(src), Window)

NodeIndex(p) == p % TreeSize

(* Faulty: nodes that are used again are not left out of a search.         *)
NoEnd(p) == 0

(* btEnd: the nodes of positions up to here belong to others by now.       *)
TreeEnd(p) == IF p < TreeSize THEN 0 ELSE p - TreeSize

EmptyTree ==
  [chain3   |-> [b \in 0 .. (Buckets - 1) |-> [i \in 1 .. Entries |-> 0]],
   lookup   |-> [b \in 0 .. (Buckets - 1) |-> 0],
   nodes    |-> [i \in 0 .. (2 * TreeSize - 1) |-> 0],
   inserted |-> {}]

(* A search collects matches whose length never falls.                     *)
Report(w, p, back, length) ==
  [w EXCEPT !.matches  = Append(@, [length |-> length, distance |-> p - back]),
            !.expected = length]

(* The visit of the three-byte table.                                      *)
VisitChain(w, p, prev, blockEnd) ==
  LET length == CommonLength(p, prev, blockEnd)
  IN  IF /\ prev # 0 /\ prev < p /\ p - prev <= Farthest
         /\ p + w.expected - 1 < blockEnd
         /\ Byte(p + w.expected - 1) = Byte(prev + w.expected - 1)
         /\ length >= 3 /\ length >= w.expected
      THEN Report(w, p, prev, length) ELSE w

(* What the positions of a bucket add to w.                                *)
VisitAll(w, p, bucket, blockEnd) ==
  LET visit[i \in 0 .. Len(bucket)] ==
        IF i = 0 THEN w ELSE VisitChain(visit[i - 1], p, bucket[i], blockEnd)
  IN  visit[Len(bucket)]

Pushed(chain, p) == [chain EXCEPT ![Hash(p, 3)] = SubSeq(<<p>> \o @, 1, Entries)]

(* Faulty: what both sides have in common is overestimated. *)
LongerFront(w) == AtLeast(w.lesserFront, w.greaterFront)

(* Every position between the two sides shares what both have in common    *)
(* with p.                                                                 *)
SharedFront(w) == AtMost(w.lesserFront, w.greaterFront)

(* Faulty: the children of a replaced position are lost. *)
ReplaceAlone(w) == [w EXCEPT !.nodes[w.lesser] = 0, !.nodes[w.greater] = 0, !.ended = TRUE]

(* p takes the place of a position it cannot be told from.                 *)
Replace(w) ==
  LET child == 2 * NodeIndex(w.at)
  IN  [w EXCEPT !.nodes[w.lesser]  = w.nodes[child],
                !.nodes[w.greater] = w.nodes[child + 1],
                !.ended = TRUE]

(* Faulty: the two sides of a position are swapped. *)
SwapSides(w, front) ==
  LET child == 2 * NodeIndex(w.at)
  IN  IF Byte(front - (w.p - w.at)) >= Byte(front)
      THEN [w EXCEPT !.nodes[w.lesser] = w.at, !.lesser = child + 1,
                     !.at = w.nodes[child + 1], !.lesserFront = front]
      ELSE [w EXCEPT !.nodes[w.greater] = w.at, !.greater = child,
                     !.at = w.nodes[child], !.greaterFront = front]

(* The position visited goes to one side of p, the search to its child on  *)
(* the other.                                                              *)
Descend(w, front) ==
  LET child == 2 * NodeIndex(w.at)
  IN  IF Byte(front - (w.p - w.at)) < Byte(front)
      THEN [w EXCEPT !.nodes[w.lesser] = w.at, !.lesser = child + 1,
                     !.at = w.nodes[child + 1], !.lesserFront = front]
      ELSE [w EXCEPT !.nodes[w.greater] = w.at, !.greater = child,
                     !.at = w.nodes[child], !.greaterFront = front]

(* One turn of the loop for position w.p: compare up to limit, report      *)
(* matches up to blockEnd.                                                 *)
Visit(w, limit, blockEnd) ==
  LET shared  == SharedFront(w)
      front   == shared + CommonLength(shared, shared - (w.p - w.at), limit)
      length  == AtMost(front - w.p, blockEnd - w.p)
      visited == [(IF length >= w.expected THEN Report(w, w.p, w.at, length) ELSE w)
                    EXCEPT !.depth = @ - 1]
  IN  IF w.ended THEN w
      ELSE IF w.at <= TreeEnd(w.p) \/ w.depth = 0 \/ w.at >= w.p \/ w.p - w.at > Farthest
      THEN [w EXCEPT !.nodes[w.lesser] = 0, !.nodes[w.greater] = 0, !.ended = TRUE]
      ELSE IF front - w.p >= NiceLength \/ front >= limit THEN Replace(visited)
      ELSE Descend(visited, front)

(* The search for p starts at the root.                                    *)
AtRoot(t, p, expected, matches) ==
  [p |-> p, at |-> t.lookup[Hash(p, 4)], nodes |-> t.nodes,
   lesser |-> 2 * NodeIndex(p), greater |-> 2 * NodeIndex(p) + 1,
   lesserFront |-> p, greaterFront |-> p, depth |-> DepthLimit,
   expected |-> expected, matches |-> matches, ended |-> FALSE]

Search(t, p, limit, blockEnd, expected, matches) ==
  LET walk[i \in 0 .. (DepthLimit + 1)] ==
        IF i = 0 THEN AtRoot(t, p, expected, matches)
        ELSE Visit(walk[i - 1], limit, blockEnd)
  IN  walk[DepthLimit + 1]

WithRoot(t, p, w) ==
  [chain3   |-> Pushed(t.chain3, p),
   lookup   |-> [t.lookup EXCEPT ![Hash(p, 4)] = p],
   nodes    |-> w.nodes,
   inserted |-> t.inserted \union {p}]

(* findLZMatchesAndUpdate: the matches at p and the tree with p.           *)
Find(t, p, blockEnd, minimum) ==
  LET chained == VisitAll([expected |-> AtLeast(minimum, 3), matches |-> <<>>],
                          p, t.chain3[Hash(p, 3)], blockEnd)
      w == Search(t, p, CompressionLimit, blockEnd, chained.expected, chained.matches)
  IN  [tree |-> WithRoot(t, p, w), matches |-> w.matches]

(* updatePosition: the tree with p.                                        *)
Update(t, p) ==
  WithRoot(t, p, Search(t, p, AtMost(CompressionLimit, p + NiceLength), p, p + 1, <<>>))

(* All positions from .. to - 1, one after the other.                      *)
UpdateAll(t, from, to) ==
  LET update[i \in 0 .. AtLeast(to - from, 0)] ==
        IF i = 0 THEN t ELSE Update(update[i - 1], from + i - 1)
  IN  update[AtLeast(to - from, 0)]

-----------------------------------------------------------------------------
(* Properties.                                                             *)

Latest == IF inserted = {} THEN 0 ELSE CHOOSE p \in inserted : \A q \in inserted : q <= p

(* The bytes from p on, as far as trees tell positions apart.              *)
Before(p, q) ==
  LET n == CommonLength(AtLeast(p, q), AtMost(p, q), CompressionLimit)
  IN  n < NiceLength /\ AtLeast(p, q) + n < CompressionLimit /\ Byte(p + n) < Byte(q + n)

(* A node list that is used again still holds trees: every child that a    *)
(* search may yet visit was put in before its parent, still owns its node, *)
(* and is not on the side its bytes do not belong to                       *)
(* (findLZMatchesAndUpdate, updatePosition, btEnd).                        *)
SearchOrder ==
  \A p \in inserted : \A side \in {0, 1} :
    LET child == nodes[2 * NodeIndex(p) + side]
    IN  (p > TreeEnd(Latest) /\ child > TreeEnd(Latest)) =>
          /\ child \in inserted /\ child < p
          /\ IF side = 0 THEN ~Before(p, child) ELSE ~Before(child, p)

=============================================================================
