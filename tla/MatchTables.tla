---------------------------- MODULE MatchTables -----------------------------
(***************************************************************************)
(* The match finders of the lower levels (match_finder.go): hash tables    *)
(* of positions, by a few bytes and by many, with one or several positions *)
(* for each hash.  A table of zeros is empty: position 0 is never put into *)
(* one, and is looked at all the same.                                     *)
(***************************************************************************)
EXTENDS SourceBytes

CONSTANTS
  Long,  (* bytes of the second table: 8                                   *)
  Near,  (* a shortest match at this distance or more does not pay:        *)
         (* 1 << 16                                                        *)
  Refill (* positions of a match that the lazy levels put in: 16           *)

ASSUME MatchTablesAssumption ==
  Long \in Nat \ {0} /\ Near \in Nat /\ Refill \in Nat \ {0}

EmptyTable(entries) == [b \in 0 .. (Buckets - 1) |-> [i \in 1 .. entries |-> 0]]

(* add, push: a position, if its n bytes are inside the block, goes before *)
(* those of its bucket, and the last of them is lost.                      *)
Put(table, p, n, blockEnd) ==
  IF p + n > blockEnd THEN table
  ELSE [table EXCEPT ![Hash(p, n)] = SubSeq(<<p>> \o @, 1, Len(@))]

PutAll(table, positions, n, blockEnd) ==
  LET put[i \in 0 .. Len(positions)] ==
        IF i = 0 THEN table ELSE Put(put[i - 1], positions[i], n, blockEnd)
  IN  put[Len(positions)]

(* Faulty: one position too many. *)
IntervalPast(from, to) == [i \in 1 .. AtLeast(to - from + 2, 0) |-> from + i - 1]

Interval(from, to) == [i \in 1 .. AtLeast(to - from + 1, 0) |-> from + i - 1]

(* candidatesAndUpdate: the positions to look at for p, 0 - 1 for none.    *)
Candidates(table, p, n, blockEnd) ==
  LET bucket == table[Hash(p, n)]
  IN  [i \in DOMAIN bucket |->
         IF p + n <= blockEnd /\ bucket[i] < p /\ p - bucket[i] <= Farthest
         THEN bucket[i] ELSE 0 - 1]

(* matchEndEqual: the byte that would make a match longer agrees.          *)
MayBeat(p, prev, length) == prev >= 0 /\ Byte(p + length) = Byte(prev + length)

NoMatch == [at |-> 0, length |-> 0]

(* findRepeatDistanceMatch: the length at a recent distance, 0 for none.   *)
RepeatLength(p, distance, least, blockEnd) ==
  LET length == CommonLength(p, p - distance, blockEnd)
  IN  IF \/ distance <= 0 \/ distance > Farthest \/ distance > p
         \/ p + least > blockEnd \/ length < least
      THEN 0 ELSE length

-----------------------------------------------------------------------------
(* The lazy levels: tables t.short and t.long.                             *)

(* A candidate that is longer than what was found, and long enough.        *)
Better(w, p, prev, least, blockEnd) ==
  LET length == CommonLength(p, prev, blockEnd)
  IN  IF MayBeat(p, prev, w.length) /\ length >= least /\ length > w.length
      THEN [at |-> prev, length |-> length] ELSE w

(* The longest of w and what the candidates have.                          *)
Longest(w, p, candidates, least, blockEnd) ==
  LET best[i \in 0 .. Len(candidates)] ==
        IF i = 0 THEN w ELSE Better(best[i - 1], p, candidates[i], least, blockEnd)
  IN  best[Len(candidates)]

(* A match that is worth more than the repeat at the next position, and    *)
(* not a shortest one from afar.                                           *)
Worth(w, p, prev, short, repeat, blockEnd) ==
  LET better == Better(w, p, prev, AtLeast(short, repeat + 2), blockEnd)
  IN  IF better.length <= short /\ p - better.at >= Near THEN w ELSE better

Worthiest(p, candidates, short, repeat, blockEnd) ==
  LET best[i \in 0 .. Len(candidates)] ==
        IF i = 0 THEN NoMatch
        ELSE Worth(best[i - 1], p, candidates[i], short, repeat, blockEnd)
  IN  best[Len(candidates)]

(* find: the worthiest match of the first table, or a longer one of the    *)
(* second.                                                                 *)
FindLazy(t, p, blockEnd, short, repeat) ==
  LET found  == Worthiest(p, Candidates(t.short, p, short, blockEnd), short, repeat, blockEnd)
      second == Longest(found, p, Candidates(t.long, p, Long, blockEnd), Long, blockEnd)
      pushed == [t EXCEPT !.short = Put(@, p, short, blockEnd)]
  IN  IF found = NoMatch THEN [tables |-> pushed, match |-> NoMatch]
      ELSE [tables |-> [pushed EXCEPT !.long = Put(@, p, Long, blockEnd)], match |-> second]

(* findLazy1: a longer match at the next position, by both tables; of two  *)
(* candidates in one place the one by many bytes is taken.                 *)
NextLazy(t, p, blockEnd, short, match) ==
  LET few    == Candidates(t.short, p, short, blockEnd)
      many   == Candidates(t.long, p, Long, blockEnd)
      chosen == [i \in DOMAIN few |->
                   IF MayBeat(p, many[i], match.length) THEN many[i] ELSE few[i]]
  IN  [tables |-> [short |-> Put(t.short, p, short, blockEnd),
                   long  |-> Put(t.long, p, Long, blockEnd)],
       match  |-> Longest(match, p, chosen, short, blockEnd)]

(* findLazy2: a longer match after that, by many bytes.                    *)
LastLazy(t, p, blockEnd, short, match) ==
  [tables |-> [short |-> Put(t.short, p, short, blockEnd),
               long  |-> Put(t.long, p, Long, blockEnd)],
   match  |-> Longest(match, p, Candidates(t.long, p, Long, blockEnd), Long, blockEnd)]

=============================================================================
