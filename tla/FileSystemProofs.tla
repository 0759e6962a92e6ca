-------------------------- MODULE FileSystemProofs --------------------------
(***************************************************************************)
(* The four properties of FileSystem hold for every number of writers and  *)
(* sessions, all paths and every order of the keys.  The invariant says,   *)
(* for every provider, what the writers that have a file open know of it   *)
(* and where each session is in its listing.                               *)
(***************************************************************************)
EXTENDS FileSystem, FiniteSetTheorems, TLAPS

-----------------------------------------------------------------------------
(* The inductive invariant.                                                *)

\* Only the disk has directories and files that stay open; what is on the
\* disk, and what a writer is at, starts with a slash.
StoreInv ==
  /\ IsFiniteSet(Existing)
  /\ kind # "physical" =>
       dirs = {} /\ overlaid = {} /\ \A w \in Writers : writer[w] = Idle
  /\ kind = "physical" =>
       /\ \A k \in Existing : k.rooted
       /\ \A w \in Writers : writer[w] # Idle => writer[w].key.rooted

\* Who has a file open finds it; unless it is overlaid, nobody else has, and
\* nothing has been written to it.
WritersInv ==
  \A w \in Writers : \A k \in Keys : Writing(w, k) =>
    /\ k \in DOMAIN files
    /\ k \notin overlaid =>
         /\ files[k] = "empty"
         /\ \A v \in Writers : Writing(v, k) => v = w

Increasing(seq) == \A i, j \in DOMAIN seq : i < j => Precedes(seq[i], seq[j])

\* A session outside a call, or about to list, is at no entry.  The directory
\* it is about to enumerate, and the entry it is about to read, is there or
\* went during the call; it went if the call has failed.
Placed(x) ==
  /\ x.pc \in {"list", "enumerate", "listed", "done"} => x.todo = <<>>
  /\ x.pc = "enumerate" => kind = "physical" /\ x.dir \in dirs \cup x.gone
  /\ x.pc = "read" => x.todo # <<>> /\ x.op # "query" /\ Head(x.todo) \in Existing \cup x.gone
  /\ x.pc = "failed" => IF x.todo = <<>> THEN kind = "physical" /\ x.dir \in x.gone
                        ELSE Head(x.todo) \in x.gone \cup dirs
  /\ \A i \in DOMAIN x.entries : Belongs(x.entries[i], x.dir)
  /\ \A i \in DOMAIN x.todo : Belongs(x.todo[i], x.dir)
  /\ x.stable \subseteq Listing(x.dir)
  /\ \A i \in DOMAIN x.rows : x.rows[i].key \in x.stable => x.rows[i].exists

\* What a directory has left to go through is in order and after what it has
\* returned; what was there all the time is in one of the two.
DirectoryKept(x) == x.op # "query" =>
  /\ x.pc \in {"listed", "done", "check", "read"} => x.stable \subseteq Range(x.entries)
  /\ x.pc \in {"check", "read"} => x.stable \subseteq Returned(x) \cup Range(x.todo)
  /\ x.pc = "done" => x.stable \subseteq Returned(x)
  /\ \A i, j \in DOMAIN x.rows : i < j => Precedes(x.rows[i].key, x.rows[j].key)
  /\ \A i \in DOMAIN x.rows, j \in DOMAIN x.todo : Precedes(x.rows[i].key, x.todo[j])

\* The place of a key in the listing that a query would get now.
Rank(k, dir) == Cardinality(Before(k, Listing(dir)))
Cut(x, k) == \E l \in x.gone : Precedes(l, k)
Shifted(x, k) == \E l \in x.new : Precedes(l, k)

\* A page ends at this place of the listing.
End(x) == IF x.pc \in {"list", "enumerate"} THEN x.offset ELSE x.offset + Limit

\* What a query has not returned yet is still ahead of it, unless something
\* before it went; what it has returned is behind it, unless something before
\* it came.
Paging(x) ==
  /\ Len(x.rows) + Len(x.todo) <= End(x)
  /\ x.pc \in {"list", "enumerate"} => Len(x.rows) = x.offset
  /\ \A k \in x.stable \ (Returned(x) \cup Range(x.todo)) :
       \/ Cut(x, k)
       \/ Rank(k, x.dir) >= End(x) /\ Len(x.rows) + Len(x.todo) = End(x)
  /\ \A k \in Returned(x) \cup Range(x.todo) : Shifted(x, k) \/ Rank(k, x.dir) < End(x)
  /\ \A k \in Returned(x) \cap Range(x.todo) : Shifted(x, k)

QueryKept(x) == x.op = "query" =>
  /\ x.entries = <<>> /\ x.pc \notin {"listed", "read"}
  /\ x.pc \in {"list", "enumerate", "check"} => Paging(x)
  /\ x.pc = "done" => \A k \in x.stable \ Returned(x) : Cut(x, k)
  /\ \A i, j \in DOMAIN x.rows : i < j /\ x.rows[i].key = x.rows[j].key =>
       Shifted(x, x.rows[i].key)

SessionInv(x) ==
  /\ Increasing(x.entries) /\ Increasing(x.todo)
  /\ Placed(x) /\ DirectoryKept(x) /\ QueryKept(x)

IInv ==
  /\ TypeOK /\ FilesAreWhole /\ StoreInv /\ WritersInv
  /\ \A s \in Sessions : session[s] # Idle => SessionInv(session[s])

-----------------------------------------------------------------------------
(* Keys in order.                                                          *)

\* What comes before a key of a finite set is finite, and less than the set.
LEMMA BeforeFacts ==
  ASSUME NEW keys \in SUBSET Keys, IsFiniteSet(keys), NEW k
  PROVE  /\ IsFiniteSet(Before(k, keys)) /\ Cardinality(Before(k, keys)) \in Nat
         /\ k \in keys => Cardinality(Before(k, keys)) < Cardinality(keys)
<1>1. Before(k, keys) \in SUBSET keys
  BY DEF Before
<1>2. /\ IsFiniteSet(Before(k, keys)) /\ Cardinality(Before(k, keys)) \in Nat
      /\ Cardinality(keys) \in Nat /\ Cardinality(Before(k, keys)) <= Cardinality(keys)
      /\ Cardinality(Before(k, keys)) = Cardinality(keys) => Before(k, keys) = keys
  BY <1>1, FS_Subset, FS_CardinalityType
<1>3. k \in keys => k \notin Before(k, keys)
  BY FileSystemAssumption DEF Before, Precedes, Keys
<1>4. QED
  BY <1>2, <1>3

\* A key that precedes another one has fewer before it, in any set it is of.
LEMMA BeforeGrows ==
  ASSUME NEW keys \in SUBSET Keys, IsFiniteSet(keys), NEW k \in keys, NEW l \in Keys,
         Precedes(k, l)
  PROVE  Cardinality(Before(k, keys)) < Cardinality(Before(l, keys))
<1>1. Before(k, keys) \in SUBSET Before(l, keys)
  BY FileSystemAssumption DEF Before, Precedes, Keys
<1>2. k \in Before(l, keys) /\ k \notin Before(k, keys)
  BY FileSystemAssumption DEF Before, Precedes, Keys
<1>3. /\ IsFiniteSet(Before(l, keys)) /\ Cardinality(Before(l, keys)) \in Nat
      /\ Cardinality(Before(k, keys)) \in Nat
  BY BeforeFacts
<1>4. /\ Cardinality(Before(k, keys)) <= Cardinality(Before(l, keys))
      /\ Cardinality(Before(l, keys)) = Cardinality(Before(k, keys)) =>
           Before(l, keys) = Before(k, keys)
  BY <1>1, <1>3, FS_Subset
<1>5. QED
  BY <1>2, <1>3, <1>4

\* What has more before it than it had lost nothing: something came.
LEMMA BeforeChanges ==
  ASSUME NEW A \in SUBSET Keys, NEW B \in SUBSET Keys, IsFiniteSet(A), IsFiniteSet(B), NEW k,
         ~ \E l \in A \ B : Precedes(l, k)
  PROVE  Cardinality(Before(k, A)) <= Cardinality(Before(k, B))
<1>1. Before(k, A) \in SUBSET Before(k, B)
  BY DEF Before
<1>2. QED
  BY <1>1, BeforeFacts, FS_Subset

\* OrderBy lists every key once, at the place that its predecessors leave it.
LEMMA OrderByFacts ==
  ASSUME NEW keys \in SUBSET Keys, IsFiniteSet(keys)
  PROVE  /\ OrderBy(keys) \in Seq(keys) /\ Len(OrderBy(keys)) = Cardinality(keys)
         /\ Cardinality(keys) \in Nat
         /\ \A n \in 1..Cardinality(keys) :
              Cardinality(Before(OrderBy(keys)[n], keys)) = n - 1
         /\ \A k \in keys : /\ Cardinality(Before(k, keys)) + 1 \in 1..Cardinality(keys)
                            /\ OrderBy(keys)[Cardinality(Before(k, keys)) + 1] = k
<1> DEFINE size == Cardinality(keys)
           rank(k) == Cardinality(Before(k, keys))
           Place == [k \in keys |-> rank(k)]
<1>1. size \in Nat /\ \A k \in keys : rank(k) \in Nat /\ rank(k) < size
  BY BeforeFacts, FS_CardinalityType
<1>2. \A k, l \in keys : rank(k) = rank(l) => k = l
  <2> SUFFICES ASSUME NEW k \in keys, NEW l \in keys, rank(k) = rank(l), k # l PROVE FALSE
    OBVIOUS
  <2>1. Precedes(k, l) \/ Precedes(l, k)
    BY FileSystemAssumption DEF Precedes, Keys
  <2>2. rank(k) < rank(l) \/ rank(l) < rank(k)
    BY <2>1, BeforeGrows
  <2>3. QED
    BY <1>1, <2>2
<1>3. \A n \in 1..size : \E k \in keys : rank(k) = n - 1
  <2> HIDE DEF rank, size
  <2>1. Place \in Injection(keys, 0..(size - 1))
    BY <1>1, <1>2 DEF Injection, IsInjective
  <2>2. IsFiniteSet(0..(size - 1)) /\ Cardinality(0..(size - 1)) = size
    BY <1>1, FS_Interval
  <2>3. Cardinality(keys) = Cardinality(0..(size - 1))
    BY <2>2 DEF size
  <2>4. Place \in Surjection(keys, 0..(size - 1))
    BY <2>1, <2>2, <2>3, FS_Injection
  <2>5. \A m \in 0..(size - 1) : \E k \in keys : Place[k] = m
    BY <2>4 DEF Surjection
  <2>6. QED
    BY <1>1, <2>5
<1>4. OrderBy(keys) = [n \in 1..size |-> CHOOSE k \in keys : rank(k) = n - 1]
  BY DEF OrderBy
<1> HIDE DEF rank, size
<1>5. \A n \in 1..size : OrderBy(keys)[n] \in keys /\ rank(OrderBy(keys)[n]) = n - 1
  <2> TAKE n \in 1..size
  <2>1. OrderBy(keys)[n] = CHOOSE k \in keys : rank(k) = n - 1
    BY <1>4
  <2>2. QED
    BY <1>3, <2>1
<1>6. OrderBy(keys) \in Seq(keys) /\ Len(OrderBy(keys)) = size
  BY <1>1, <1>4, <1>5
<1>7. \A k \in keys : rank(k) + 1 \in 1..size /\ OrderBy(keys)[rank(k) + 1] = k
  <2> TAKE k \in keys
  <2>1. rank(k) + 1 \in 1..size
    BY <1>1
  <2>2. OrderBy(keys)[rank(k) + 1] \in keys /\ rank(OrderBy(keys)[rank(k) + 1]) = rank(k)
    BY <1>1, <1>5, <2>1
  <2>3. QED
    BY <1>2, <2>1, <2>2
<1>8. QED
  BY <1>1, <1>5, <1>6, <1>7 DEF rank, size

\* The list is in order and has just the keys of the set.
LEMMA OrderByIncreases ==
  ASSUME NEW keys \in SUBSET Keys, IsFiniteSet(keys)
  PROVE  Increasing(OrderBy(keys)) /\ Range(OrderBy(keys)) = keys
<1> DEFINE seq == OrderBy(keys)
<1>1. /\ DOMAIN seq = 1..Cardinality(keys) /\ Cardinality(keys) \in Nat
      /\ \A n \in DOMAIN seq : seq[n] \in keys /\ Cardinality(Before(seq[n], keys)) = n - 1
      /\ \A k \in keys : \E n \in DOMAIN seq : seq[n] = k
  <2>1. seq \in Seq(keys) /\ Len(seq) = Cardinality(keys) /\ Cardinality(keys) \in Nat
    BY OrderByFacts
  <2>2. DOMAIN seq = 1..Cardinality(keys) /\ \A n \in DOMAIN seq : seq[n] \in keys
    BY <2>1
  <2>3. \A k \in keys : /\ Cardinality(Before(k, keys)) + 1 \in DOMAIN seq
                        /\ seq[Cardinality(Before(k, keys)) + 1] = k
    BY <2>2, OrderByFacts
  <2>4. QED
    BY <2>1, <2>2, <2>3, OrderByFacts
<1> HIDE DEF seq
<1>2. ASSUME NEW i \in DOMAIN seq, NEW j \in DOMAIN seq, i < j
      PROVE  Precedes(seq[i], seq[j])
  <2>1. seq[i] \in Keys /\ seq[j] \in Keys /\ seq[i] # seq[j]
    BY <1>1, <1>2
  <2>2. CASE Precedes(seq[j], seq[i])
    <3>1. Cardinality(Before(seq[j], keys)) < Cardinality(Before(seq[i], keys))
      BY <1>1, <2>1, <2>2, BeforeGrows
    <3>2. QED
      BY <1>1, <1>2, <3>1
  <2>3. QED
    BY <2>1, <2>2, FileSystemAssumption DEF Precedes, Keys
<1>3. QED
  BY <1>1, <1>2 DEF Increasing, Range, seq

-----------------------------------------------------------------------------
(* Sequences: what is left to go through, and a page of a list.            *)

\* A sequence is its head and its tail.
LEMMA TailFacts ==
  ASSUME NEW S, NEW seq \in Seq(S), seq # <<>>
  PROVE  /\ Head(seq) \in S /\ Tail(seq) \in Seq(S) /\ Len(Tail(seq)) = Len(seq) - 1
         /\ Head(seq) = seq[1] /\ 1 \in DOMAIN seq
         /\ \A i \in DOMAIN Tail(seq) : Tail(seq)[i] = seq[i + 1] /\ i + 1 \in DOMAIN seq
         /\ Range(seq) = {Head(seq)} \cup Range(Tail(seq))
<1>1. /\ Head(seq) \in S /\ Tail(seq) \in Seq(S) /\ Len(Tail(seq)) = Len(seq) - 1
      /\ Head(seq) = seq[1] /\ 1 \in DOMAIN seq
      /\ \A i \in DOMAIN Tail(seq) : Tail(seq)[i] = seq[i + 1] /\ i + 1 \in DOMAIN seq
  OBVIOUS
<1>2. \A i \in DOMAIN seq : i = 1 \/ (i - 1 \in DOMAIN Tail(seq) /\ Tail(seq)[i - 1] = seq[i])
  BY <1>1
<1>3. Range(seq) \subseteq {Head(seq)} \cup Range(Tail(seq))
  <2> SUFFICES ASSUME NEW i \in DOMAIN seq PROVE seq[i] \in {Head(seq)} \cup Range(Tail(seq))
    BY DEF Range
  <2>1. QED
    BY <1>1, <1>2 DEF Range
<1>4. {Head(seq)} \cup Range(Tail(seq)) \subseteq Range(seq)
  BY <1>1 DEF Range
<1>5. QED
  BY <1>1, <1>3, <1>4

\* In a sequence that is in order the head comes before the whole tail.
LEMMA IncreasingTail ==
  ASSUME NEW seq \in Seq(Keys), seq # <<>>, Increasing(seq)
  PROVE  /\ Increasing(Tail(seq))
         /\ \A i \in DOMAIN Tail(seq) : Precedes(Head(seq), Tail(seq)[i])
         /\ Head(seq) \notin Range(Tail(seq))
<1>1. Increasing(Tail(seq)) /\ \A i \in DOMAIN Tail(seq) : Precedes(Head(seq), Tail(seq)[i])
  BY TailFacts DEF Increasing
<1>2. \A k \in Keys : ~Precedes(k, k)
  BY FileSystemAssumption DEF Precedes, Keys
<1>3. QED
  BY <1>1, <1>2, TailFacts DEF Range

\* The keys of a list from one place to another, as a query takes them.
Page(list, from) == SubSeq(list, from + 1, Min({from + Limit, Len(list)}))

\* A page is a piece of the list, as long as the limit if the list goes on.
LEMMA PageFacts ==
  ASSUME NEW list \in Seq(Keys), NEW from \in Nat
  PROVE  /\ Page(list, from) \in Seq(Keys)
         /\ Len(Page(list, from)) \in Nat /\ Len(Page(list, from)) <= Limit
         /\ Len(list) > from + Limit => Len(Page(list, from)) = Limit
         /\ \A i \in DOMAIN Page(list, from) :
              /\ Page(list, from)[i] = list[from + i]
              /\ from + i \in DOMAIN list /\ i <= Limit
         /\ \A n \in DOMAIN list : from < n /\ n <= from + Limit =>
              n - from \in DOMAIN Page(list, from) /\ Page(list, from)[n - from] = list[n]
<1> DEFINE bound == from + Limit
           to == Min({bound, Len(list)})
           page == SubSeq(list, from + 1, to)
<1>1. Limit \in Nat \ {0} /\ bound \in Nat /\ Len(list) \in Nat
  BY FileSystemAssumption
<1>2. to = IF bound <= Len(list) THEN bound ELSE Len(list)
  <2> DEFINE m == IF bound <= Len(list) THEN bound ELSE Len(list)
  <2>1. m \in {bound, Len(list)} /\ \A y \in {bound, Len(list)} : m <= y
    BY <1>1
  <2>2. \A x \in {bound, Len(list)} : (\A y \in {bound, Len(list)} : x <= y) => x = m
    BY <1>1, <2>1
  <2>3. QED
    BY <2>1, <2>2 DEF Min
<1>3. to \in Nat /\ to <= Len(list) /\ to <= bound
  BY <1>1, <1>2
<1>4. /\ page \in Seq(Keys)
      /\ Len(page) = IF from + 1 <= to THEN to - from ELSE 0
      /\ \A i \in 1..Len(page) : page[i] = list[from + i]
  <2> HIDE DEF to
  <2>1. page \in Seq(Keys) /\ Len(page) = IF from + 1 <= to THEN to - from ELSE 0
    BY <1>1, <1>3
  <2>2. ASSUME NEW i \in 1..Len(page) PROVE page[i] = list[from + i]
    <3>1. from + 1 <= to /\ i \in 1..(to - from)
      BY <1>3, <2>1
    <3>2. from + 1 \in 1..(Len(list) + 1) /\ from + 1 \in Int /\ to \in Int
      BY <1>1, <1>3, <3>1
    <3>3. page[i] = list[(from + 1) + i - 1]
      BY <1>3, <3>1, <3>2
    <3>4. (from + 1) + i - 1 = from + i
      BY <3>1
    <3>5. QED
      BY <3>3, <3>4
  <2>3. QED
    BY <2>1, <2>2
<1> HIDE DEF to, page, bound
<1>5. DOMAIN page = 1..Len(page)
  BY <1>4
<1>6. Len(page) <= Limit /\ (Len(list) > from + Limit => Len(page) = Limit)
  BY <1>1, <1>2, <1>3, <1>4 DEF bound
<1>7. \A i \in DOMAIN page :
        page[i] = list[from + i] /\ from + i \in DOMAIN list /\ i <= Limit
  BY <1>1, <1>3, <1>4, <1>5 DEF bound
<1>8. \A n \in DOMAIN list : from < n /\ n <= from + Limit =>
        n - from \in DOMAIN page /\ page[n - from] = list[n]
  BY <1>1, <1>2, <1>4, <1>5 DEF bound
<1>9. page = Page(list, from) /\ Len(page) \in Nat
  BY <1>4 DEF page, to, bound, Page
<1>10. QED
  BY <1>4, <1>6, <1>7, <1>8, <1>9

-----------------------------------------------------------------------------
(* The sessions while the store changes.                                   *)

\* Keys in a listing that shrinks or grows: who has fewer before it than it
\* had lost one to gone, and who has more got one from new.
LEMMA RankChanges ==
  ASSUME IsFiniteSet(Existing), IsFiniteSet(Existing)', Existing \subseteq Keys,
         (Existing \subseteq Keys)', kind' = kind,
         NEW dir, NEW k
  PROVE  /\ Rank(k, dir) \in Nat /\ Rank(k, dir)' \in Nat
         /\ \/ Rank(k, dir) <= Rank(k, dir)'
            \/ \E l \in Existing \ Existing' : Belongs(l, dir) /\ Precedes(l, k)
         /\ \/ Rank(k, dir)' <= Rank(k, dir)
            \/ \E l \in Existing' \ Existing : Belongs(l, dir) /\ Precedes(l, k)
<1> DEFINE A == Listing(dir)
           B == Listing(dir)'
<1>1. \A l : Belongs(l, dir)' <=> Belongs(l, dir)
  BY DEF Belongs, StartsWith
<1>2. A = {l \in Existing : Belongs(l, dir)} /\ B = {l \in Existing' : Belongs(l, dir)}
  BY <1>1 DEF Listing
<1>3. A \in SUBSET Keys /\ B \in SUBSET Keys /\ IsFiniteSet(A) /\ IsFiniteSet(B)
  <2> HIDE DEF A, B
  <2>1. A \in SUBSET Existing /\ B \in SUBSET Existing'
    BY <1>2
  <2>2. QED
    BY <2>1, FS_Subset
<1>4. \A S : Before(k, S)' = Before(k, S)
  BY DEF Before, Precedes
<1>5. Rank(k, dir) = Cardinality(Before(k, A)) /\ Rank(k, dir)' = Cardinality(Before(k, B))
  BY <1>4 DEF Rank, Before, Precedes
<1> HIDE DEF A, B
<1>6. Rank(k, dir) \in Nat /\ Rank(k, dir)' \in Nat
  BY <1>3, <1>5, BeforeFacts
<1>7. Rank(k, dir) <= Rank(k, dir)' \/ \E l \in A \ B : Precedes(l, k)
  BY <1>3, <1>5, BeforeChanges
<1>8. Rank(k, dir)' <= Rank(k, dir) \/ \E l \in B \ A : Precedes(l, k)
  BY <1>3, <1>5, BeforeChanges
<1>9. QED
  BY <1>2, <1>6, <1>7, <1>8

\* What Watch leaves of a session and what it adds.
LEMMA WatchFacts ==
  ASSUME Existing \subseteq Keys, (Existing \subseteq Keys)',
         NEW x \in SessionState, NEW y, y = Watch(x, files', dirs')
  PROVE  /\ y \in SessionState
         /\ y.pc = x.pc /\ y.op = x.op /\ y.dir = x.dir /\ y.entries = x.entries
         /\ y.todo = x.todo /\ y.rows = x.rows /\ y.offset = x.offset
         /\ y.stable = x.stable \cap Existing'
         /\ x.gone \subseteq y.gone /\ x.new \subseteq y.new
         /\ x.pc \notin {"listed", "done"} => \A k \in Existing \ Existing' :
              k = x.dir \/ Belongs(k, x.dir) => k \in y.gone
         /\ x.pc \notin {"listed", "done"} /\ x.op = "query" => \A k \in Existing' \ Existing :
              Belongs(k, x.dir) => k \in y.new
<1> DEFINE there == DOMAIN files' \cup dirs'
           lost == Relevant(x, Existing \ there)
           got == Relevant(x, there \ Existing)
           calling == x.pc \notin {"listed", "done"}
<1>1. there = Existing'
  BY DEF Existing
<1>2. lost \subseteq Keys /\ got \subseteq Keys
  BY <1>1 DEF Relevant
<1>3. /\ \A k \in Existing \ Existing' : k = x.dir \/ Belongs(k, x.dir) => k \in lost
      /\ \A k \in Existing' \ Existing : Belongs(k, x.dir) => k \in got
  BY <1>1 DEF Relevant
<1>4. y = [x EXCEPT !.stable = @ \cap there,
                    !.gone = IF calling THEN @ \cup lost ELSE @,
                    !.new = IF calling /\ x.op = "query" THEN @ \cup got ELSE @]
  BY DEF Watch
<1> HIDE DEF there, lost, got
<1>5. /\ y.pc = x.pc /\ y.op = x.op /\ y.dir = x.dir /\ y.entries = x.entries
      /\ y.todo = x.todo /\ y.rows = x.rows /\ y.offset = x.offset
      /\ y.stable = x.stable \cap there
      /\ y.gone = IF calling THEN x.gone \cup lost ELSE x.gone
      /\ y.new = IF calling /\ x.op = "query" THEN x.new \cup got ELSE x.new
  BY <1>4 DEF SessionState
<1>6. y \in SessionState
  <2> DEFINE stable == x.stable \cap there
             gone == IF calling THEN x.gone \cup lost ELSE x.gone
             new == IF calling /\ x.op = "query" THEN x.new \cup got ELSE x.new
  <2>1. stable \in SUBSET Keys /\ gone \in SUBSET Keys /\ new \in SUBSET Keys
    BY <1>2 DEF SessionState
  <2>2. y = [x EXCEPT !.stable = stable, !.gone = gone, !.new = new]
    BY <1>4
  <2> HIDE DEF stable, gone, new
  <2>3. QED
    BY <2>1, <2>2 DEF SessionState
<1>7. QED
  BY <1>1, <1>3, <1>5, <1>6

\* A session that watches the store change keeps its part of the invariant.
LEMMA WatchKeeps ==
  ASSUME IsFiniteSet(Existing), IsFiniteSet(Existing)', Existing \subseteq Keys,
         (Existing \subseteq Keys)', kind' = kind, dirs \cap DOMAIN files' = {},
         NEW x \in SessionState, SessionInv(x), NEW y, y = Watch(x, files', dirs')
  PROVE  y \in SessionState /\ SessionInv(y)'
<1>1. /\ y \in SessionState
      /\ y.pc = x.pc /\ y.op = x.op /\ y.dir = x.dir /\ y.entries = x.entries
      /\ y.todo = x.todo /\ y.rows = x.rows /\ y.offset = x.offset
      /\ y.stable = x.stable \cap Existing'
      /\ x.gone \subseteq y.gone /\ x.new \subseteq y.new
  BY WatchFacts
<1>2. /\ x.pc \notin {"listed", "done"} => \A k \in Existing \ Existing' :
           k = x.dir \/ Belongs(k, x.dir) => k \in y.gone
      /\ x.pc \notin {"listed", "done"} /\ x.op = "query" => \A k \in Existing' \ Existing :
           Belongs(k, x.dir) => k \in y.new
  BY WatchFacts
<1>3. \A k, dir : Belongs(k, dir)' <=> Belongs(k, dir)
  BY DEF Belongs, StartsWith
<1>4. Returned(y) = Returned(x) /\ Returned(y)' = Returned(x)
  BY <1>1 DEF Returned
<1>5. Placed(y)'
  <2>1. y.pc = "enumerate" => kind' = "physical" /\ y.dir \in dirs' \cup y.gone
    BY <1>1, <1>2 DEF SessionInv, Placed, Existing
  <2>2. y.pc = "read" =>
          y.todo # <<>> /\ y.op # "query" /\ Head(y.todo) \in Existing' \cup y.gone
    <3>1. SUFFICES ASSUME x.pc = "read" PROVE Head(x.todo) \in Existing' \cup y.gone
      BY <1>1 DEF SessionInv, Placed
    <3>2. x.todo \in Seq(Keys) /\ x.todo # <<>> /\ Head(x.todo) \in Existing \cup x.gone
      BY <3>1 DEF SessionInv, Placed, SessionState
    <3>3. Belongs(Head(x.todo), x.dir)
      BY <3>2, TailFacts DEF SessionInv, Placed
    <3>4. QED
      BY <1>1, <1>2, <3>1, <3>2, <3>3
  <2>3. y.stable \subseteq Listing(y.dir)'
    BY <1>1, <1>3 DEF SessionInv, Placed, Listing
  <2>4. /\ \A i \in DOMAIN y.entries : Belongs(y.entries[i], y.dir)'
        /\ \A i \in DOMAIN y.todo : Belongs(y.todo[i], y.dir)'
    BY <1>1, <1>3 DEF SessionInv, Placed
  <2>5. /\ y.pc \in {"list", "enumerate", "listed", "done"} => y.todo = <<>>
        /\ \A i \in DOMAIN y.rows : y.rows[i].key \in y.stable => y.rows[i].exists
    BY <1>1 DEF SessionInv, Placed
  <2>6. y.pc = "failed" => IF y.todo = <<>> THEN kind' = "physical" /\ y.dir \in y.gone
                           ELSE Head(y.todo) \in y.gone \cup dirs'
    <3>1. SUFFICES ASSUME x.pc = "failed", x.todo # <<>>
                   PROVE  Head(x.todo) \in y.gone \cup dirs'
      BY <1>1 DEF SessionInv, Placed
    <3>2. x.todo \in Seq(Keys) /\ Head(x.todo) \in x.gone \cup dirs
      BY <3>1 DEF SessionInv, Placed, SessionState
    <3>3. Belongs(Head(x.todo), x.dir)
      BY <3>1, <3>2, TailFacts DEF SessionInv, Placed
    <3>4. QED
      BY <1>1, <1>2, <3>1, <3>2, <3>3 DEF Existing
  <2>7. QED
    BY <2>1, <2>2, <2>3, <2>4, <2>5, <2>6 DEF Placed
<1>6. DirectoryKept(y)'
  BY <1>1, <1>4 DEF SessionInv, DirectoryKept, Precedes, Range
<1>7. QueryKept(y)'
  <2> SUFFICES ASSUME x.op = "query" PROVE QueryKept(y)'
    BY <1>1 DEF QueryKept
  <2>1. /\ \A k : Cut(x, k) => Cut(y, k)
        /\ \A k : Shifted(x, k) => Shifted(y, k)
        /\ \A k : Cut(y, k)' <=> Cut(y, k)
        /\ \A k : Shifted(y, k)' <=> Shifted(y, k)
    BY <1>1 DEF Cut, Shifted, Precedes
  <2>2. End(y)' = End(x)
    BY <1>1 DEF End
  <2>3. ASSUME x.pc \in {"list", "enumerate", "check"}
        PROVE  Paging(y)'
    <3>1. Paging(x)
      BY <2>3 DEF SessionInv, QueryKept
    <3>2. \A k : /\ Rank(k, x.dir) \in Nat /\ Rank(k, x.dir)' \in Nat
                 /\ Cut(y, k) \/ Rank(k, x.dir) <= Rank(k, x.dir)'
                 /\ Shifted(y, k) \/ Rank(k, x.dir)' <= Rank(k, x.dir)
      BY <1>2, <2>3, RankChanges DEF Cut, Shifted
    <3>3. End(x) \in Nat
      BY FileSystemAssumption DEF End, SessionState
    <3>4. /\ Len(y.rows) + Len(y.todo) <= End(y)'
          /\ y.pc \in {"list", "enumerate"} => Len(y.rows) = y.offset
      BY <1>1, <2>2, <3>1 DEF Paging
    <3>5. ASSUME NEW k \in y.stable \ (Returned(y) \cup Range(y.todo))
          PROVE  \/ Cut(y, k)
                 \/ Rank(k, y.dir)' >= End(y)' /\ Len(y.rows) + Len(y.todo) = End(y)'
      <4>1. Cut(x, k) \/ (Rank(k, x.dir) >= End(x) /\ Len(x.rows) + Len(x.todo) = End(x))
        BY <1>1, <1>4, <3>1, <3>5 DEF Paging
      <4>2. Cut(y, k) \/ Rank(k, x.dir) <= Rank(k, x.dir)'
        BY <3>2
      <4>3. Rank(k, y.dir)' = Rank(k, x.dir)' /\ Rank(k, x.dir) \in Nat /\ Rank(k, x.dir)' \in Nat
        BY <1>1, <3>2
      <4>4. CASE Cut(x, k)
        BY <2>1, <4>4
      <4>5. CASE Rank(k, x.dir) >= End(x) /\ Len(x.rows) + Len(x.todo) = End(x)
        <5>1. Cut(y, k) \/ Rank(k, y.dir)' >= End(y)'
          BY <2>2, <3>3, <4>2, <4>3, <4>5
        <5>2. Len(y.rows) + Len(y.todo) = End(y)'
          BY <1>1, <2>2, <4>5
        <5>3. QED
          BY <5>1, <5>2
      <4>6. QED
        BY <4>1, <4>4, <4>5
    <3>6. ASSUME NEW k \in Returned(y) \cup Range(y.todo)
          PROVE  Shifted(y, k) \/ Rank(k, y.dir)' < End(y)'
      <4>1. Shifted(x, k) \/ Rank(k, x.dir) < End(x)
        BY <1>1, <1>4, <3>1, <3>6 DEF Paging
      <4>2. Shifted(y, k) \/ Rank(k, x.dir)' <= Rank(k, x.dir)
        BY <3>2
      <4>3. Rank(k, y.dir)' = Rank(k, x.dir)'
        BY <1>1
      <4>4. QED
        BY <1>1, <2>1, <2>2, <3>2, <3>3, <4>1, <4>2, <4>3
    <3>7. \A k \in Returned(y) \cap Range(y.todo) : Shifted(y, k)
      BY <1>1, <1>4, <2>1, <3>1 DEF Paging
    <3>8. QED
      BY <1>1, <1>4, <2>1, <2>2, <3>4, <3>5, <3>6, <3>7 DEF Paging, Range
  <2>4. /\ y.entries = <<>> /\ y.pc \notin {"listed", "read"}
        /\ y.pc = "done" => \A k \in y.stable \ Returned(y) : Cut(y, k)
        /\ \A i, j \in DOMAIN y.rows : i < j /\ y.rows[i].key = y.rows[j].key =>
             Shifted(y, y.rows[i].key)
    BY <1>1, <1>4, <2>1 DEF SessionInv, QueryKept
  <2>5. QED
    BY <1>1, <1>4, <2>1, <2>3, <2>4 DEF QueryKept
<1>8. QED
  BY <1>1, <1>5, <1>6, <1>7 DEF SessionInv, Increasing, Precedes

-----------------------------------------------------------------------------
(* Steps of the sessions.                                                  *)

\* The files and directories have their types.
StoreType ==
  /\ kind \in Kinds
  /\ DOMAIN files \subseteq Keys /\ \A k \in DOMAIN files : files[k] \in {"whole", "empty", "torn"}
  /\ dirs \subseteq Keys /\ dirs \cap DOMAIN files = {}
  /\ kind = "physical" => \A k \in Existing \ {Root} : Parent(k) \in dirs
  /\ overlaid \subseteq DOMAIN files
  /\ writer \in [Writers -> WriterState]

\* A session at work is not idle.
LEMMA IdleFacts == Idle \notin SessionState /\ \A x \in SessionState : x.pc # "idle"
BY DEF Idle, SessionState

\* The part of a session in the invariant is about the store and nothing else.
LEMMA SessionFrame ==
  ASSUME kind' = kind, files' = files, dirs' = dirs
  PROVE  \A x : SessionInv(x)' <=> SessionInv(x)
<1>1. /\ Existing' = Existing
      /\ \A k, dir : Belongs(k, dir)' <=> Belongs(k, dir)
      /\ \A k, l : Precedes(k, l)' <=> Precedes(k, l)
  BY DEF Existing, Belongs, StartsWith, Precedes
<1>2. \A dir : Listing(dir)' = Listing(dir)
  BY <1>1 DEF Listing
<1>3. \A k, dir : Rank(k, dir)' = Rank(k, dir)
  BY <1>2 DEF Rank, Before, Precedes
<1>4. ASSUME NEW x PROVE Placed(x)' <=> Placed(x)
  BY <1>1, <1>2 DEF Placed
<1>5. ASSUME NEW x PROVE DirectoryKept(x)' <=> DirectoryKept(x)
  BY DEF DirectoryKept, Returned, Range, Precedes
<1>6. ASSUME NEW x PROVE QueryKept(x)' <=> QueryKept(x)
  <2>1. Paging(x)' <=> Paging(x)
    BY <1>3 DEF Paging, Returned, Range, Cut, Shifted, End, Precedes
  <2>2. QED
    BY <2>1 DEF QueryKept, Returned, Increasing, Cut, Shifted, Precedes
<1>7. QED
  BY <1>4, <1>5, <1>6 DEF SessionInv, Increasing, Precedes

\* A session that moves alone keeps the invariant if its new state does.
LEMMA SessionMoves ==
  ASSUME IInv, NEW s \in Sessions, NEW y, Become(s, y),
         y = Idle \/ (y \in SessionState /\ SessionInv(y))
  PROVE  IInv'
<1> USE DEF Become
<1>1. /\ StoreType /\ session \in [Sessions -> {Idle} \cup SessionState]
      /\ FilesAreWhole /\ StoreInv /\ WritersInv
      /\ \A t \in Sessions : session[t] # Idle => SessionInv(session[t])
  BY DEF IInv, TypeOK, StoreType
<1>2. (StoreType /\ FilesAreWhole /\ StoreInv /\ WritersInv)'
  BY <1>1 DEF StoreType, FilesAreWhole, StoreInv, WritersInv, Existing, Writing, WriterState
<1>3. session' \in [Sessions -> {Idle} \cup SessionState]
  BY <1>1
<1>4. \A x : SessionInv(x)' <=> SessionInv(x)
  BY SessionFrame
<1>5. \A t \in Sessions : session'[t] = IF t = s THEN y ELSE session[t]
  BY <1>1
<1>6. \A t \in Sessions : session'[t] # Idle => SessionInv(session'[t])
  BY <1>1, <1>5
<1>7. (\A t \in Sessions : session[t] # Idle => SessionInv(session[t]))'
  BY <1>4, <1>6
<1>8. TypeOK'
  BY <1>2, <1>3, <1>7 DEF TypeOK, StoreType, SessionInv, Increasing
<1>9. QED
  BY <1>2, <1>7, <1>8 DEF IInv

\* What the rows of a call may be.
Rows == [key : Keys, exists : BOOLEAN]

\* The rows of a session are a sequence, and their keys are keys.
LEMMA RowFacts ==
  ASSUME NEW x \in SessionState
  PROVE  /\ x.rows \in Seq(Rows) /\ Len(x.rows) \in Nat /\ DOMAIN x.rows = 1..Len(x.rows)
         /\ Returned(x) \subseteq Keys
<1>1. x.rows \in Seq(Rows)
  BY DEF SessionState, Rows
<1>2. \A r \in Rows : r.key \in Keys
  BY DEF Rows
<1>3. Len(x.rows) \in Nat /\ DOMAIN x.rows = 1..Len(x.rows)
  BY <1>1
<1>4. \A i \in DOMAIN x.rows : x.rows[i] \in Rows
  BY <1>1
<1>5. QED
  BY <1>1, <1>2, <1>3, <1>4 DEF Returned

\* A listing is a finite set of keys; List gives it in order, each key at its rank.
LEMMA ListFacts ==
  ASSUME IsFiniteSet(Existing), Existing \subseteq Keys, NEW dir
  PROVE  /\ Listing(dir) \in SUBSET Keys /\ IsFiniteSet(Listing(dir))
         /\ List(dir) \in Seq(Keys) /\ Increasing(List(dir)) /\ Range(List(dir)) = Listing(dir)
         /\ Len(List(dir)) = Cardinality(Listing(dir)) /\ Cardinality(Listing(dir)) \in Nat
         /\ \A n \in DOMAIN List(dir) : Rank(List(dir)[n], dir) = n - 1
         /\ \A k \in Listing(dir) :
              Rank(k, dir) + 1 \in DOMAIN List(dir) /\ List(dir)[Rank(k, dir) + 1] = k
<1>1. Listing(dir) \in SUBSET Existing
  BY DEF Listing
<1>2. Listing(dir) \in SUBSET Keys /\ IsFiniteSet(Listing(dir))
  BY <1>1, FS_Subset
<1>3. List(dir) \in Seq(Listing(dir)) /\ Len(List(dir)) = Cardinality(Listing(dir))
      /\ Cardinality(Listing(dir)) \in Nat
  BY <1>2, OrderByFacts DEF List
<1>4. List(dir) \in Seq(Keys) /\ DOMAIN List(dir) = 1..Cardinality(Listing(dir))
  BY <1>2, <1>3
<1>5. Increasing(List(dir)) /\ Range(List(dir)) = Listing(dir)
  BY <1>2, OrderByIncreases DEF List
<1>6. \A n \in DOMAIN List(dir) : Rank(List(dir)[n], dir) = n - 1
  BY <1>2, <1>4, OrderByFacts DEF List, Rank
<1>7. \A k \in Listing(dir) :
        Rank(k, dir) + 1 \in DOMAIN List(dir) /\ List(dir)[Rank(k, dir) + 1] = k
  BY <1>2, <1>4, OrderByFacts DEF List, Rank
<1>8. QED
  BY <1>2, <1>3, <1>4, <1>5, <1>6, <1>7

\* The session and its directory at the moment a listing arrives: the list is
\* that of the directory, or empty because there is no such directory on disk.
LEMMA ListedKeeps ==
  ASSUME IsFiniteSet(Existing), Existing \subseteq Keys,
         NEW x \in SessionState, SessionInv(x), x.pc \in {"list", "enumerate"},
         NEW list, list = List(x.dir) \/ (list = <<>> /\ Listing(x.dir) = {})
  PROVE  Listed(x, list) \in SessionState /\ SessionInv(Listed(x, list))
<1> DEFINE page == Page(list, x.offset)
           y == Listed(x, list)
<1>1. /\ list \in Seq(Keys) /\ Increasing(list) /\ Range(list) = Listing(x.dir)
      /\ Len(list) = Cardinality(Listing(x.dir)) /\ Len(list) \in Nat
      /\ \A n \in DOMAIN list : Rank(list[n], x.dir) = n - 1
      /\ \A k \in Listing(x.dir) : Rank(k, x.dir) + 1 \in DOMAIN list
                                   /\ list[Rank(k, x.dir) + 1] = k
  <2>1. CASE list = List(x.dir)
    BY <2>1, ListFacts
  <2>2. CASE list = <<>> /\ Listing(x.dir) = {}
    BY <2>2, FS_EmptySet DEF Increasing, Range
  <2>3. QED
    BY <2>1, <2>2
<1>2. \A i \in DOMAIN list : list[i] \in Keys /\ Belongs(list[i], x.dir)
  BY <1>1 DEF Range, Listing
<1>3. x.todo = <<>> /\ x.offset \in Nat /\ Limit \in Nat \ {0}
  BY FileSystemAssumption DEF SessionInv, Placed, SessionState
<1>4. CASE x.op # "query"
  <2>1. y = [x EXCEPT !.pc = "listed", !.entries = list]
    BY <1>4 DEF Listed
  <2>2. /\ y \in SessionState
        /\ y.pc = "listed" /\ y.entries = list /\ y.op = x.op /\ y.dir = x.dir /\ y.todo = <<>>
        /\ y.rows = x.rows /\ y.stable = x.stable
    BY <1>1, <1>3, <2>1 DEF SessionState
  <2> HIDE DEF y
  <2>3. Placed(y)
    BY <1>2, <2>2 DEF SessionInv, Placed
  <2>4. DirectoryKept(y)
    BY <1>1, <2>2 DEF SessionInv, Placed, DirectoryKept
  <2>5. QueryKept(y)
    BY <1>4, <2>2 DEF QueryKept
  <2>6. QED
    BY <1>1, <2>2, <2>3, <2>4, <2>5 DEF SessionInv, Increasing, y
<1>5. CASE x.op = "query"
  <2>1. y = [x EXCEPT !.pc = "check", !.todo = page]
    BY <1>5 DEF Listed, Page
  <2>2. /\ page \in Seq(Keys) /\ Len(page) <= Limit /\ Len(page) \in Nat
        /\ Len(list) > x.offset + Limit => Len(page) = Limit
        /\ \A i \in DOMAIN page : page[i] = list[x.offset + i]
                                  /\ x.offset + i \in DOMAIN list /\ i <= Limit
        /\ \A n \in DOMAIN list : x.offset < n /\ n <= x.offset + Limit =>
             n - x.offset \in DOMAIN page /\ page[n - x.offset] = list[n]
    BY <1>1, <1>3, PageFacts
  <2> HIDE DEF page
  <2>3. DOMAIN page = 1..Len(page)
    BY <2>2
  <2>4. /\ y \in SessionState
        /\ y.pc = "check" /\ y.entries = <<>> /\ y.op = x.op /\ y.dir = x.dir /\ y.todo = page
        /\ y.rows = x.rows /\ y.stable = x.stable /\ y.offset = x.offset
        /\ y.gone = x.gone /\ y.new = x.new
    BY <1>5, <2>1, <2>2 DEF SessionInv, QueryKept, SessionState
  <2> HIDE DEF y
  <2>5. Returned(y) = Returned(x) /\ End(y) = x.offset + Limit /\ End(x) = x.offset
    BY <2>4 DEF Returned, End
  <2>6. Placed(y)
    BY <1>2, <2>2, <2>4 DEF SessionInv, Placed
  <2>7. Increasing(page)
    BY <1>1, <1>3, <2>2, <2>3 DEF Increasing
  <2>8. Paging(x)
    BY <1>5 DEF SessionInv, QueryKept
  <2>9. \A k \in Keys : Rank(k, x.dir) \in Nat
    BY ListFacts, BeforeFacts DEF Rank
  <2>10. /\ \A k \in Range(page) :
              k \in Keys /\ x.offset <= Rank(k, x.dir) /\ Rank(k, x.dir) < x.offset + Limit
         /\ \A k \in Listing(x.dir) :
              x.offset <= Rank(k, x.dir) /\ Rank(k, x.dir) < x.offset + Limit =>
                k \in Range(page)
    <3>1. ASSUME NEW i \in DOMAIN page
          PROVE  /\ page[i] \in Keys
                 /\ x.offset <= Rank(page[i], x.dir)
                 /\ Rank(page[i], x.dir) < x.offset + Limit
      <4>1. i \in Nat /\ 1 <= i /\ i <= Limit
        BY <2>2, <2>3
      <4>2. /\ page[i] \in Keys /\ page[i] = list[x.offset + i]
            /\ x.offset + i \in DOMAIN list
        BY <2>2
      <4> DEFINE n == x.offset + i
      <4>3. Rank(page[i], x.dir) = n - 1
        <5> HIDE DEF n
        <5>1. page[i] = list[n] /\ n \in DOMAIN list
          BY <4>2 DEF n
        <5>2. QED
          BY <1>1, <5>1
      <4>4. QED
        BY <1>3, <4>1, <4>2, <4>3
    <3>2. ASSUME NEW k \in Listing(x.dir), x.offset <= Rank(k, x.dir),
                 Rank(k, x.dir) < x.offset + Limit
          PROVE  k \in Range(page)
      <4> DEFINE n == Rank(k, x.dir) + 1
      <4>1. n \in DOMAIN list /\ list[n] = k /\ Rank(k, x.dir) \in Nat
        BY <1>1, <2>9, ListFacts
      <4>2. n - x.offset \in DOMAIN page /\ page[n - x.offset] = k
        BY <1>3, <2>2, <3>2, <4>1
      <4>3. QED
        BY <4>2 DEF Range
    <3>3. QED
      BY <3>1, <3>2 DEF Range
  <2>11. Paging(y)
    <3>1. Len(y.rows) + Len(y.todo) <= End(y) /\ Len(x.rows) = x.offset
      BY <1>3, <2>2, <2>4, <2>5, <2>8 DEF Paging
    <3>2. ASSUME NEW k \in y.stable \ (Returned(y) \cup Range(y.todo))
          PROVE  Cut(y, k) \/ (Rank(k, y.dir) >= End(y) /\ Len(y.rows) + Len(y.todo) = End(y))
      <4>1. k \in Listing(x.dir) /\ k \notin Range(page) /\ k \notin Returned(x)
        BY <2>4, <2>5, <3>2 DEF SessionInv, Placed
      <4>2. Range(x.todo) = {}
        BY <1>3 DEF Range
      <4>3. Cut(x, k) \/ Rank(k, x.dir) >= x.offset
        BY <2>4, <2>5, <2>8, <3>2, <4>1, <4>2 DEF Paging
      <4>4. Rank(k, x.dir) \in Nat /\ Rank(k, x.dir) + 1 <= Len(list)
        BY <1>1, <2>9, <4>1, ListFacts
      <4>5. CASE Cut(x, k)
        BY <2>4, <4>5 DEF Cut
      <4>6. CASE Rank(k, x.dir) >= x.offset
        <5>1. Rank(k, x.dir) >= x.offset + Limit
          BY <1>3, <2>10, <4>1, <4>4, <4>6
        <5>2. Len(page) = Limit
          BY <1>1, <1>3, <2>2, <4>4, <5>1
        <5>3. QED
          BY <1>3, <2>4, <2>5, <3>1, <5>1, <5>2
      <4>7. QED
        BY <4>3, <4>5, <4>6
    <3>3. ASSUME NEW k \in Returned(x)
          PROVE  k \in Keys /\ (Shifted(x, k) \/ Rank(k, x.dir) < x.offset)
      BY <2>5, <2>8, <3>3, RowFacts DEF Paging
    <3>4. \A k : Shifted(y, k) <=> Shifted(x, k)
      BY <2>4 DEF Shifted
    <3>5. ASSUME NEW k \in Returned(y) \cup Range(y.todo)
          PROVE  Shifted(y, k) \/ Rank(k, y.dir) < End(y)
      <4>1. k \in Returned(x) \/ k \in Range(page)
        BY <2>4, <2>5, <3>5
      <4>2. QED
        BY <1>3, <2>4, <2>5, <2>9, <2>10, <3>3, <3>4, <4>1
    <3>6. ASSUME NEW k \in Returned(y) \cap Range(y.todo) PROVE Shifted(y, k)
      <4>1. k \in Returned(x) /\ k \in Range(page)
        BY <2>4, <2>5, <3>6
      <4>2. QED
        BY <1>3, <2>9, <2>10, <3>3, <3>4, <4>1
    <3>7. QED
      BY <2>4, <3>1, <3>2, <3>5, <3>6 DEF Paging
  <2>12. QueryKept(y)
    BY <1>5, <2>4, <2>11 DEF SessionInv, QueryKept, Shifted
  <2>13. DirectoryKept(y)
    BY <1>5, <2>4 DEF DirectoryKept
  <2>14. QED
    BY <2>4, <2>6, <2>7, <2>12, <2>13 DEF SessionInv, Increasing, y
<1>6. QED
  BY <1>4, <1>5

\* The entry a call is at becomes a row of what it returns.
LEMMA RowIsAdded ==
  ASSUME NEW x \in SessionState, SessionInv(x), x.pc \in {"check", "read"}, x.todo # <<>>,
         NEW e \in BOOLEAN, Head(x.todo) \in Existing => e,
         NEW y, y = [x EXCEPT !.pc = "check", !.todo = Tail(@),
                              !.rows = Append(@, Row(Head(x.todo), e))]
  PROVE  y \in SessionState /\ SessionInv(y)
<1> DEFINE key == Head(x.todo)
           row == Row(key, e)
           n == Len(x.rows) + 1
<1>1. /\ x.todo \in Seq(Keys) /\ key \in Keys /\ Tail(x.todo) \in Seq(Keys)
      /\ Len(Tail(x.todo)) = Len(x.todo) - 1 /\ Len(x.todo) \in Nat
      /\ key = x.todo[1] /\ 1 \in DOMAIN x.todo
      /\ \A i \in DOMAIN Tail(x.todo) : Tail(x.todo)[i] = x.todo[i + 1] /\ i + 1 \in DOMAIN x.todo
      /\ Range(x.todo) = {key} \cup Range(Tail(x.todo))
  <2>1. x.todo \in Seq(Keys)
    BY DEF SessionState
  <2>2. QED
    BY <2>1, TailFacts
<1>2. /\ Increasing(Tail(x.todo)) /\ key \notin Range(Tail(x.todo))
      /\ \A i \in DOMAIN Tail(x.todo) : Precedes(key, Tail(x.todo)[i])
  BY <1>1, IncreasingTail DEF SessionInv
<1>3. row \in Rows /\ row.key = key /\ row.exists = e
  BY <1>1 DEF Row, Rows
<1> HIDE DEF key, row
<1>4. /\ Append(x.rows, row) \in Seq(Rows) /\ DOMAIN Append(x.rows, row) = 1..n
      /\ DOMAIN x.rows = 1..(n - 1) /\ n \in Nat \ {0} /\ Len(Append(x.rows, row)) = n
      /\ \A i \in 1..(n - 1) : Append(x.rows, row)[i] = x.rows[i]
      /\ Append(x.rows, row)[n] = row
  BY <1>3, RowFacts
<1>5. y = [x EXCEPT !.pc = "check", !.todo = Tail(x.todo), !.rows = Append(x.rows, row)]
  BY DEF key, row, SessionState
<1>6. /\ y \in SessionState
      /\ y.pc = "check" /\ y.op = x.op /\ y.dir = x.dir /\ y.entries = x.entries
      /\ y.todo = Tail(x.todo) /\ y.rows = Append(x.rows, row) /\ y.offset = x.offset
      /\ y.stable = x.stable /\ y.gone = x.gone /\ y.new = x.new
  BY <1>1, <1>4, <1>5 DEF SessionState, Rows
<1> DEFINE rows == y.rows
<1>7. /\ DOMAIN rows = 1..n /\ rows[n] = row /\ Len(rows) = n
      /\ \A i \in 1..(n - 1) : rows[i] = x.rows[i]
  BY <1>4, <1>6
<1> HIDE DEF n, rows
<1>8. Returned(y) = Returned(x) \cup {key}
  <2>1. \A i \in DOMAIN rows : rows[i].key = key \/ rows[i].key \in Returned(x)
    BY <1>3, <1>4, <1>7 DEF Returned
  <2>2. key \in Returned(y) /\ \A i \in DOMAIN x.rows : x.rows[i].key \in Returned(y)
    BY <1>3, <1>4, <1>7 DEF Returned, rows
  <2>3. Returned(y) \subseteq Returned(x) \cup {key}
    BY <2>1 DEF Returned, rows
  <2>4. Returned(x) \subseteq Returned(y)
    BY <2>2 DEF Returned
  <2>5. QED
    BY <2>2, <2>3, <2>4
<1>9. \A i, j \in DOMAIN rows : i < j =>
        /\ i \in DOMAIN x.rows /\ rows[i] = x.rows[i]
        /\ \/ j \in DOMAIN x.rows /\ rows[j] = x.rows[j]
           \/ rows[j] = row
  BY <1>4, <1>7
<1>10. Placed(y)
  <2>1. \A i \in DOMAIN y.todo : Belongs(y.todo[i], y.dir)
    BY <1>1, <1>6 DEF SessionInv, Placed
  <2>2. \A i \in DOMAIN y.rows : y.rows[i].key \in y.stable => y.rows[i].exists
    <3> SUFFICES ASSUME NEW i \in DOMAIN rows, rows[i].key \in x.stable PROVE rows[i].exists
      BY <1>6 DEF rows
    <3>1. CASE i \in DOMAIN x.rows
      BY <1>4, <1>7, <3>1 DEF SessionInv, Placed
    <3>2. CASE i = n
      BY <1>3, <1>7, <3>2 DEF SessionInv, Placed, Listing, key
    <3>3. QED
      BY <1>4, <1>7, <3>1, <3>2
  <2>3. QED
    BY <1>6, <2>1, <2>2 DEF SessionInv, Placed
<1>11. DirectoryKept(y)
  <2> SUFFICES ASSUME x.op # "query" PROVE DirectoryKept(y)
    BY <1>6 DEF DirectoryKept
  <2>1. y.stable \subseteq Range(y.entries) /\ y.stable \subseteq Returned(y) \cup Range(y.todo)
    BY <1>1, <1>6, <1>8 DEF SessionInv, DirectoryKept
  <2>2. \A i \in DOMAIN x.rows : Precedes(x.rows[i].key, key)
    BY <1>1 DEF SessionInv, DirectoryKept
  <2>3. \A i, j \in DOMAIN y.rows : i < j => Precedes(y.rows[i].key, y.rows[j].key)
    BY <1>3, <1>9, <2>2 DEF SessionInv, DirectoryKept, rows
  <2>4. \A i \in DOMAIN y.rows, j \in DOMAIN y.todo : Precedes(y.rows[i].key, y.todo[j])
    <3>1. \A i \in DOMAIN x.rows, j \in DOMAIN Tail(x.todo) :
            Precedes(x.rows[i].key, Tail(x.todo)[j])
      BY <1>1 DEF SessionInv, DirectoryKept
    <3>2. \A i \in DOMAIN rows : rows[i].key = key \/
            \E m \in DOMAIN x.rows : rows[i].key = x.rows[m].key
      BY <1>3, <1>4, <1>7
    <3>3. QED
      BY <1>2, <1>6, <3>1, <3>2 DEF rows
  <2>5. QED
    BY <1>6, <2>1, <2>3, <2>4 DEF DirectoryKept
<1>12. QueryKept(y)
  <2> SUFFICES ASSUME x.op = "query" PROVE QueryKept(y)
    BY <1>6 DEF QueryKept
  <2>1. Paging(x) /\ x.pc = "check"
    BY DEF SessionInv, QueryKept
  <2>2. /\ \A k : Cut(y, k) <=> Cut(x, k)
        /\ \A k : Shifted(y, k) <=> Shifted(x, k)
        /\ End(y) = End(x)
    BY <1>6, <2>1 DEF Cut, Shifted, End
  <2>3. Len(y.rows) + Len(y.todo) = Len(x.rows) + Len(x.todo)
    <3>1. Len(x.rows) \in Nat
      BY RowFacts
    <3>2. Len(y.rows) = Len(x.rows) + 1 /\ Len(y.todo) = Len(x.todo) - 1
      BY <1>1, <1>6, <1>7 DEF rows, n
    <3>3. Len(x.todo) \in Nat
      BY <1>1
    <3> DEFINE a == Len(x.rows)
               b == Len(x.todo)
               c == Len(y.rows)
               d == Len(y.todo)
    <3>4. a \in Nat /\ b \in Nat /\ c = a + 1 /\ d = b - 1
      BY <3>1, <3>2, <3>3
    <3> HIDE DEF a, b, c, d
    <3>5. c + d = a + b
      BY <3>4
    <3>6. QED
      BY <3>5 DEF a, b, c, d
  <2>4. Returned(y) \cup Range(y.todo) = Returned(x) \cup Range(x.todo)
    BY <1>1, <1>6, <1>8
  <2>5. \A k \in Returned(y) \cap Range(y.todo) : k \in Returned(x) \cap Range(x.todo)
    BY <1>1, <1>2, <1>6, <1>8
  <2>6. Paging(y)
    BY <1>6, <2>1, <2>2, <2>3, <2>4, <2>5 DEF Paging
  <2>7. ASSUME NEW i \in DOMAIN rows, NEW j \in DOMAIN rows, i < j, rows[i].key = rows[j].key
        PROVE  Shifted(y, rows[i].key)
    <3>1. i \in DOMAIN x.rows /\ rows[i] = x.rows[i]
      BY <1>9, <2>7
    <3>2. CASE j \in DOMAIN x.rows /\ rows[j] = x.rows[j]
      BY <2>2, <2>7, <3>1, <3>2 DEF SessionInv, QueryKept
    <3>3. CASE rows[j] = row
      <4>1. rows[i].key \in Returned(x) \cap Range(x.todo)
        BY <1>1, <1>3, <2>7, <3>1, <3>3 DEF Returned
      <4>2. QED
        BY <2>1, <2>2, <4>1 DEF Paging
    <3>4. QED
      BY <1>9, <2>7, <3>2, <3>3
  <2>8. QED
    BY <1>6, <2>6, <2>7 DEF SessionInv, QueryKept, rows
<1>13. QED
  BY <1>2, <1>6, <1>10, <1>11, <1>12 DEF SessionInv

\* A file that has gone is left out.
LEMMA EntryIsLeftOut ==
  ASSUME NEW x \in SessionState, SessionInv(x), x.pc = "check", x.todo # <<>>,
         x.op # "query", Head(x.todo) \notin Existing,
         NEW y, y = [x EXCEPT !.todo = Tail(@)]
  PROVE  y \in SessionState /\ SessionInv(y)
<1>1. /\ x.todo \in Seq(Keys) /\ Tail(x.todo) \in Seq(Keys)
      /\ \A i \in DOMAIN Tail(x.todo) : Tail(x.todo)[i] = x.todo[i + 1] /\ i + 1 \in DOMAIN x.todo
      /\ Range(x.todo) = {Head(x.todo)} \cup Range(Tail(x.todo))
  <2>1. x.todo \in Seq(Keys)
    BY DEF SessionState
  <2>2. QED
    BY <2>1, TailFacts
<1>2. /\ y \in SessionState
      /\ y.pc = "check" /\ y.op = x.op /\ y.dir = x.dir /\ y.entries = x.entries
      /\ y.todo = Tail(x.todo) /\ y.rows = x.rows /\ y.stable = x.stable
  BY <1>1 DEF SessionState
<1>3. Increasing(y.todo)
  BY <1>1, <1>2, IncreasingTail DEF SessionInv
<1>4. Head(x.todo) \notin x.stable
  BY DEF SessionInv, Placed, Listing
<1>5. Placed(y)
  BY <1>1, <1>2 DEF SessionInv, Placed
<1>6. Returned(y) = Returned(x)
  BY <1>2 DEF Returned
<1>7. DirectoryKept(y)
  <2>1. y.stable \subseteq Range(y.entries) /\ y.stable \subseteq Returned(y) \cup Range(y.todo)
    BY <1>1, <1>2, <1>4, <1>6 DEF SessionInv, DirectoryKept
  <2>2. \A i \in DOMAIN y.rows, j \in DOMAIN y.todo : Precedes(y.rows[i].key, y.todo[j])
    BY <1>1, <1>2 DEF SessionInv, DirectoryKept
  <2>3. QED
    BY <1>2, <2>1, <2>2 DEF SessionInv, DirectoryKept
<1>8. QueryKept(y)
  BY <1>2 DEF QueryKept
<1>9. QED
  BY <1>2, <1>3, <1>5, <1>7, <1>8 DEF SessionInv

\* A call throws for the entry it is at, which is no file any more, or because
\* the directory it was about to enumerate is no directory any more.
LEMMA FailureKeeps ==
  ASSUME NEW x \in SessionState, SessionInv(x),
         \/ x.pc = "enumerate" /\ x.dir \notin dirs
         \/ x.pc = "read" /\ Head(x.todo) \notin DOMAIN files,
         NEW y, y = [x EXCEPT !.pc = "failed"]
  PROVE  y \in SessionState /\ SessionInv(y)
<1>1. /\ y \in SessionState
      /\ y.pc = "failed" /\ y.op = x.op /\ y.dir = x.dir /\ y.entries = x.entries
      /\ y.todo = x.todo /\ y.rows = x.rows /\ y.stable = x.stable
      /\ y.gone = x.gone /\ y.new = x.new
  BY DEF SessionState
<1>2. Placed(y)
  BY <1>1 DEF SessionInv, Placed, Existing
<1>3. DirectoryKept(y)
  BY <1>1 DEF SessionInv, DirectoryKept
<1>4. QueryKept(y)
  BY <1>1 DEF SessionInv, QueryKept, Shifted
<1>5. QED
  BY <1>1, <1>2, <1>3, <1>4 DEF SessionInv

\* Every step of a session keeps the invariant.
LEMMA SessionsKeep ==
  ASSUME IInv, NEW s \in Sessions,
         \/ \E path \in Folders[kind], op \in {"directory", "query"} : Begin(s, path, op)
         \/ \E op \in {"files", "entries"} : Call(s, op)
         \/ \E name \in Names : GetSubdirectory(s, name)
         \/ ListStep(s) \/ Enumerate(s) \/ CheckEntry(s) \/ ReadEntry(s)
         \/ Finish(s) \/ Close(s)
  PROVE  IInv'
<1> DEFINE x == session[s]
<1>1. /\ x # Idle => x \in SessionState /\ SessionInv(x)
      /\ IsFiniteSet(Existing) /\ Existing \subseteq Keys /\ kind \in Kinds
      /\ kind = "physical" => \A k \in Existing \ {Root} : Parent(k) \in dirs
  BY DEF IInv, TypeOK, StoreInv, Existing
<1>2. x # Idle => /\ x.todo \in Seq(Keys) /\ x.entries \in Seq(Keys)
                  /\ x.offset \in Nat /\ Limit \in Nat \ {0}
  BY <1>1, FileSystemAssumption DEF SessionState
<1> USE <1>1
<1> HIDE DEF x
<1>3. ASSUME NEW path \in Folders[kind], NEW op \in {"directory", "query"}, Begin(s, path, op)
      PROVE  IInv'
  <2> DEFINE dir == TrimEnd(Normalize(path))
             y == [pc |-> "list", op |-> op, dir |-> dir,
                   entries |-> <<>>, todo |-> <<>>, rows |-> <<>>, offset |-> 0,
                   stable |-> Listing(dir), gone |-> {}, new |-> {}]
  <2>1. Become(s, y)
    BY <1>3 DEF Begin, x
  <2>2. dir \in [rooted : BOOLEAN, segs : Seq(STRING)]
    <3>1. path.rooted \in BOOLEAN /\ path.segs \in Seq(STRING)
      BY FileSystemAssumption
    <3>2. Normalize(path) \in [rooted : BOOLEAN, segs : Seq(STRING)]
      BY <3>1 DEF Normalize, KeyOf, Key, Root
    <3>3. \A q \in Seq(STRING) : q # <<>> => Front(q) \in Seq(STRING)
      BY DEF Front
    <3>4. QED
      BY <3>2, <3>3 DEF TrimEnd
  <2> HIDE DEF dir
  <2>3. Listing(dir) \in SUBSET Keys
    BY DEF Listing
  <2>4. y \in SessionState
    BY <1>3, <2>2, <2>3 DEF SessionState
  <2>5. Increasing(y.entries) /\ Increasing(y.todo) /\ Placed(y) /\ DirectoryKept(y)
    BY <1>3 DEF Increasing, Placed, DirectoryKept
  <2>6. Returned(y) = {} /\ Range(y.todo) = {}
    BY DEF Returned, Range
  <2>7. \A k : Rank(k, dir) \in Nat
    <3>1. IsFiniteSet(Listing(dir))
      BY ListFacts
    <3>2. QED
      BY <2>3, <3>1, BeforeFacts DEF Rank
  <2>8. Paging(y)
    <3>1. /\ End(y) = 0 /\ Len(y.rows) = 0 /\ Len(y.todo) = 0 /\ y.offset = 0 /\ y.dir = dir
      BY DEF End
    <3>2. \A k : Rank(k, dir) >= 0
      BY <2>7
    <3> HIDE DEF y
    <3>3. QED
      BY <2>6, <3>1, <3>2 DEF Paging
  <2>9. QueryKept(y)
    BY <2>8 DEF QueryKept
  <2>10. SessionInv(y)
    BY <2>5, <2>9 DEF SessionInv
  <2> HIDE DEF y
  <2>11. QED
    BY <2>1, <2>4, <2>10, SessionMoves
<1>4. ASSUME NEW op \in {"files", "entries"}, Call(s, op)
      PROVE  IInv'
  <2> DEFINE y == [x EXCEPT !.pc = "check", !.op = op, !.todo = x.entries, !.rows = <<>>,
                            !.gone = {}]
  <2>1. x # Idle /\ x.op # "query" /\ x.pc \in {"listed", "done"}
        /\ x \in SessionState /\ SessionInv(x)
    <3>1. x.op # "query" /\ x.pc \in {"listed", "done"}
      BY <1>4 DEF Call, x
    <3>2. x # Idle
      BY <3>1 DEF Idle
    <3>3. QED
      BY <1>1, <3>1, <3>2
  <2>2. Become(s, y)
    BY <1>4 DEF Call, x
  <2>3. /\ y \in SessionState
        /\ y.pc = "check" /\ y.op = op /\ y.dir = x.dir /\ y.entries = x.entries
        /\ y.todo = x.entries /\ y.rows = <<>> /\ y.stable = x.stable
    <3> DEFINE entries == x.entries
    <3>1. entries \in Seq(Keys) /\ op \in {"directory", "files", "entries", "query"}
      BY <1>2, <2>1
    <3> DEFINE none == <<>>
    <3>2. y = [x EXCEPT !.pc = "check", !.op = op, !.todo = entries, !.rows = none, !.gone = {}]
      OBVIOUS
    <3>3. none \in Seq([key : Keys, exists : BOOLEAN])
      OBVIOUS
    <3> HIDE DEF y, entries, none
    <3>4. /\ y \in SessionState
          /\ y.pc = "check" /\ y.op = op /\ y.dir = x.dir /\ y.entries = x.entries
          /\ y.todo = entries /\ y.rows = none /\ y.stable = x.stable
      BY <2>1, <3>1, <3>2, <3>3 DEF SessionState
    <3>5. QED
      BY <3>4 DEF entries, none
  <2> HIDE DEF y
  <2>4. Placed(y) /\ Increasing(y.entries) /\ Increasing(y.todo)
    BY <2>1, <2>3 DEF SessionInv, Placed
  <2>5. DirectoryKept(y) /\ QueryKept(y)
    BY <1>4, <2>1, <2>3 DEF SessionInv, DirectoryKept, QueryKept
  <2>6. QED
    BY <2>2, <2>3, <2>4, <2>5, SessionMoves DEF SessionInv
<1>5. ASSUME NEW name \in Names, GetSubdirectory(s, name)
      PROVE  IInv'
  <2> DEFINE y == [x EXCEPT !.pc = "listed", !.dir.segs = Append(@, name), !.entries = <<>>,
                            !.rows = <<>>, !.stable = {}]
  <2>1. x # Idle /\ x.op # "query" /\ x.pc \in {"listed", "done"}
        /\ x \in SessionState /\ SessionInv(x)
    <3>1. x.op # "query" /\ x.pc \in {"listed", "done"}
      BY <1>5 DEF GetSubdirectory, x
    <3>2. x # Idle
      BY <3>1 DEF Idle
    <3>3. QED
      BY <1>1, <3>1, <3>2
  <2>2. Become(s, y)
    BY <1>5 DEF GetSubdirectory, x
  <2>3. name \in STRING
    BY FileSystemAssumption
  <2>4. /\ y \in SessionState
        /\ y.pc = "listed" /\ y.op = x.op /\ y.entries = <<>>
        /\ y.todo = x.todo /\ y.rows = <<>> /\ y.stable = {}
    <3> DEFINE dir == [x.dir EXCEPT !.segs = Append(@, name)]
    <3>1. dir \in [rooted : BOOLEAN, segs : Seq(STRING)]
      <4>1. x.dir \in [rooted : BOOLEAN, segs : Seq(STRING)]
        BY <2>1 DEF SessionState
      <4>2. \A d \in [rooted : BOOLEAN, segs : Seq(STRING)] :
              [d EXCEPT !.segs = Append(@, name)] \in [rooted : BOOLEAN, segs : Seq(STRING)]
        BY <2>3
      <4>3. QED
        BY <4>1, <4>2
    <3> DEFINE none == <<>>
    <3>2. y = [x EXCEPT !.pc = "listed", !.dir = dir, !.entries = none, !.rows = none,
                        !.stable = {}]
      BY <2>1 DEF SessionState
    <3>3. none \in Seq(Keys) /\ none \in Seq([key : Keys, exists : BOOLEAN])
      OBVIOUS
    <3> HIDE DEF y, dir, none
    <3>4. /\ y \in SessionState
          /\ y.pc = "listed" /\ y.op = x.op /\ y.entries = none
          /\ y.todo = x.todo /\ y.rows = none /\ y.stable = {}
      BY <2>1, <3>1, <3>2, <3>3 DEF SessionState
    <3>5. QED
      BY <3>4 DEF none
  <2>5. x.todo = <<>>
    BY <2>1 DEF SessionInv, Placed
  <2> HIDE DEF y
  <2>6. Placed(y) /\ Increasing(y.entries) /\ Increasing(y.todo)
    BY <2>1, <2>4, <2>5 DEF Increasing, Placed
  <2>7. DirectoryKept(y) /\ QueryKept(y)
    BY <2>1, <2>4 DEF DirectoryKept, QueryKept
  <2>8. QED
    BY <2>2, <2>4, <2>6, <2>7, SessionMoves DEF SessionInv
<1>6. CASE ListStep(s)
  <2>1. x # Idle /\ x.pc = "list"
        /\ x \in SessionState /\ SessionInv(x)
    <3>1. x.pc = "list"
      BY <1>6 DEF ListStep, x
    <3>2. x # Idle
      BY <3>1 DEF Idle
    <3>3. QED
      BY <1>1, <3>1, <3>2
  <2>2. CASE kind # "physical"
    <3>1. Become(s, Listed(x, List(x.dir)))
      BY <1>6, <2>2 DEF ListStep, x
    <3>2. QED
      BY <2>1, <3>1, ListedKeeps, SessionMoves
  <2>3. CASE kind = "physical" /\ x.dir \notin dirs
    <3>1. Become(s, Listed(x, <<>>))
      BY <1>6, <2>3 DEF ListStep, x
    <3>2. Listing(x.dir) = {}
      BY <2>3 DEF Listing, Belongs
    <3>3. QED
      BY <2>1, <3>1, <3>2, ListedKeeps, SessionMoves
  <2>4. CASE kind = "physical" /\ x.dir \in dirs
    <3> DEFINE y == [x EXCEPT !.pc = "enumerate"]
    <3>1. Become(s, y)
      BY <1>6, <2>4 DEF ListStep, x
    <3>2. /\ y \in SessionState
          /\ y.pc = "enumerate" /\ y.op = x.op /\ y.dir = x.dir /\ y.entries = x.entries
          /\ y.todo = x.todo /\ y.rows = x.rows /\ y.stable = x.stable /\ y.offset = x.offset
          /\ y.gone = x.gone /\ y.new = x.new
      BY <2>1 DEF SessionState
    <3> HIDE DEF y
    <3>3. Placed(y)
      BY <2>1, <2>4, <3>2 DEF SessionInv, Placed
    <3>4. DirectoryKept(y)
      BY <2>1, <3>2 DEF SessionInv, DirectoryKept
    <3>5. QueryKept(y)
      BY <2>1, <3>2 DEF SessionInv, QueryKept, Paging, Returned, Cut, Shifted, End
    <3>6. QED
      BY <2>1, <3>1, <3>2, <3>3, <3>4, <3>5, SessionMoves DEF SessionInv
  <2>5. QED
    BY <2>2, <2>3, <2>4
<1>7. CASE Enumerate(s)
  <2>1. x # Idle /\ x.pc = "enumerate"
        /\ x \in SessionState /\ SessionInv(x)
    <3>1. x.pc = "enumerate"
      BY <1>7 DEF Enumerate, x
    <3>2. x # Idle
      BY <3>1 DEF Idle
    <3>3. QED
      BY <1>1, <3>1, <3>2
  <2>2. CASE x.dir \in dirs
    <3>1. Become(s, Listed(x, List(x.dir)))
      BY <1>7, <2>2 DEF Enumerate, x
    <3>2. QED
      BY <2>1, <3>1, ListedKeeps, SessionMoves
  <2>3. CASE x.dir \notin dirs
    <3> DEFINE y == [x EXCEPT !.pc = "failed"]
    <3>1. Become(s, y)
      BY <1>7, <2>3 DEF Enumerate, x
    <3>2. y = [x EXCEPT !.pc = "failed"]
      OBVIOUS
    <3> HIDE DEF y
    <3>3. y \in SessionState /\ SessionInv(y)
      BY <2>1, <2>3, <3>2, FailureKeeps
    <3>4. QED
      BY <3>1, <3>3, SessionMoves
  <2>4. QED
    BY <2>2, <2>3
<1>8. CASE CheckEntry(s)
  <2> DEFINE key == Head(x.todo)
  <2>1. x # Idle /\ x.pc = "check" /\ x.todo # <<>>
        /\ x \in SessionState /\ SessionInv(x)
    <3>1. x.pc = "check" /\ x.todo # <<>>
      BY <1>8 DEF CheckEntry, x
    <3>2. x # Idle
      BY <3>1 DEF Idle
    <3>3. QED
      BY <1>1, <3>1, <3>2
  <2>2. CASE key \in Existing /\ x.op # "query"
    <3> DEFINE y == [x EXCEPT !.pc = "read"]
    <3>1. Become(s, y)
      BY <1>8, <2>2 DEF CheckEntry, x
    <3>2. /\ y \in SessionState
          /\ y.pc = "read" /\ y.op = x.op /\ y.dir = x.dir /\ y.entries = x.entries
          /\ y.todo = x.todo /\ y.rows = x.rows /\ y.stable = x.stable
      BY <2>1 DEF SessionState
    <3> HIDE DEF y
    <3>3. Placed(y)
      BY <2>1, <2>2, <3>2 DEF SessionInv, Placed
    <3>4. DirectoryKept(y) /\ QueryKept(y)
      BY <2>1, <2>2, <3>2 DEF SessionInv, DirectoryKept, QueryKept, Returned
    <3>5. QED
      BY <2>1, <3>1, <3>2, <3>3, <3>4, SessionMoves DEF SessionInv
  <2>3. CASE key \notin Existing /\ x.op = "files"
    <3> DEFINE y == [x EXCEPT !.todo = Tail(@)]
    <3>1. Become(s, y)
      <4>1. [x EXCEPT !.todo = Tail(@), !.rows = @] = y
        BY <2>1 DEF SessionState
      <4>2. QED
        BY <1>8, <2>3, <4>1 DEF CheckEntry, x
    <3>2. y = [x EXCEPT !.todo = Tail(@)]
      OBVIOUS
    <3> HIDE DEF y
    <3>3. y \in SessionState /\ SessionInv(y)
      BY <2>1, <2>3, <3>2, EntryIsLeftOut
    <3>4. QED
      BY <3>1, <3>3, SessionMoves
  <2>4. CASE ~(key \in Existing /\ x.op # "query") /\ x.op # "files"
    <3> DEFINE e == key \in Existing
               y == [x EXCEPT !.pc = "check", !.todo = Tail(@), !.rows = Append(@, Row(key, e))]
    <3>1. Become(s, y)
      <4>1. [x EXCEPT !.todo = Tail(@), !.rows = Append(@, Row(key, e))] = y
        BY <2>1 DEF SessionState
      <4>2. QED
        BY <1>8, <2>4, <4>1 DEF CheckEntry, x
    <3>2. /\ e \in BOOLEAN /\ (key \in Existing => e)
          /\ y = [x EXCEPT !.pc = "check", !.todo = Tail(@), !.rows = Append(@, Row(key, e))]
      OBVIOUS
    <3> HIDE DEF y, e
    <3>3. y \in SessionState /\ SessionInv(y)
      BY <2>1, <3>2, RowIsAdded
    <3>4. QED
      BY <3>1, <3>3, SessionMoves
  <2>5. QED
    BY <2>2, <2>3, <2>4
<1>9. CASE ReadEntry(s)
  <2> DEFINE key == Head(x.todo)
  <2>1. x # Idle /\ x.pc = "read"
        /\ x \in SessionState /\ SessionInv(x)
    <3>1. x.pc = "read"
      BY <1>9 DEF ReadEntry, x
    <3>2. x # Idle
      BY <3>1 DEF Idle
    <3>3. QED
      BY <1>1, <3>1, <3>2
  <2>2. x.todo # <<>> /\ x.op # "query"
    BY <2>1 DEF SessionInv, Placed
  <2>3. CASE key \in DOMAIN files
    <3> DEFINE y == [x EXCEPT !.pc = "check", !.todo = Tail(@),
                              !.rows = Append(@, Row(key, TRUE))]
    <3>1. Become(s, y)
      BY <1>9, <2>3 DEF ReadEntry, x
    <3>2. y = [x EXCEPT !.pc = "check", !.todo = Tail(@), !.rows = Append(@, Row(key, TRUE))]
      OBVIOUS
    <3> HIDE DEF y
    <3>3. y \in SessionState /\ SessionInv(y)
      BY <2>1, <2>2, <3>2, RowIsAdded
    <3>4. QED
      BY <3>1, <3>3, SessionMoves
  <2>4. CASE key \notin DOMAIN files
    <3> DEFINE y == [x EXCEPT !.pc = "failed"]
    <3>1. Become(s, y)
      BY <1>9, <2>4 DEF ReadEntry, x
    <3>2. y = [x EXCEPT !.pc = "failed"]
      OBVIOUS
    <3> HIDE DEF y
    <3>3. y \in SessionState /\ SessionInv(y)
      BY <2>1, <2>4, <3>2, FailureKeeps
    <3>4. QED
      BY <3>1, <3>3, SessionMoves
  <2>5. QED
    BY <2>3, <2>4
<1>10. CASE Finish(s)
  <2>1. x # Idle /\ x.pc = "check" /\ x.todo = <<>>
        /\ x \in SessionState /\ SessionInv(x)
    <3>1. x.pc = "check" /\ x.todo = <<>>
      BY <1>10 DEF Finish, x
    <3>2. x # Idle
      BY <3>1 DEF Idle
    <3>3. QED
      BY <1>1, <3>1, <3>2
  <2>2. Range(x.todo) = {} /\ Len(x.todo) = 0
    BY <2>1 DEF Range
  <2>3. Len(x.rows) \in Nat
    BY <2>1, RowFacts
  <2>4. CASE x.op = "query" /\ Len(x.rows) = x.offset + Limit
    <3> DEFINE y == [x EXCEPT !.pc = "list", !.offset = @ + Limit]
    <3>1. Become(s, y)
      BY <1>10, <2>4 DEF Finish, x
    <3>2. /\ y \in SessionState
          /\ y.pc = "list" /\ y.op = x.op /\ y.dir = x.dir /\ y.entries = x.entries
          /\ y.todo = x.todo /\ y.rows = x.rows /\ y.stable = x.stable
          /\ y.offset = x.offset + Limit /\ y.gone = x.gone /\ y.new = x.new
      <4> DEFINE offset == x.offset + Limit
      <4>1. offset \in Nat
        BY <1>2, <2>1
      <4>2. y = [x EXCEPT !.pc = "list", !.offset = offset]
        BY <2>1 DEF SessionState
      <4> HIDE DEF y, offset
      <4>3. /\ y \in SessionState
            /\ y.pc = "list" /\ y.op = x.op /\ y.dir = x.dir /\ y.entries = x.entries
            /\ y.todo = x.todo /\ y.rows = x.rows /\ y.stable = x.stable
            /\ y.offset = offset /\ y.gone = x.gone /\ y.new = x.new
        BY <2>1, <4>1, <4>2 DEF SessionState
      <4>4. QED
        BY <4>3 DEF offset
    <3> HIDE DEF y
    <3>3. Placed(y)
      BY <2>1, <3>2 DEF SessionInv, Placed
    <3>4. DirectoryKept(y)
      BY <2>4, <3>2 DEF DirectoryKept
    <3>5. Paging(y)
      BY <2>1, <2>4, <3>2 DEF SessionInv, QueryKept, Paging, Returned, Cut, Shifted, End
    <3>6. QueryKept(y)
      BY <2>1, <2>4, <3>2, <3>5 DEF SessionInv, QueryKept, Shifted
    <3>7. QED
      BY <2>1, <3>1, <3>2, <3>3, <3>4, <3>6, SessionMoves DEF SessionInv
  <2>5. CASE ~(x.op = "query" /\ Len(x.rows) = x.offset + Limit)
    <3> DEFINE y == [x EXCEPT !.pc = "done"]
    <3>1. Become(s, y)
      BY <1>10, <2>5 DEF Finish, x
    <3>2. /\ y \in SessionState
          /\ y.pc = "done" /\ y.op = x.op /\ y.dir = x.dir /\ y.entries = x.entries
          /\ y.todo = x.todo /\ y.rows = x.rows /\ y.stable = x.stable
          /\ y.gone = x.gone /\ y.new = x.new
      BY <2>1 DEF SessionState
    <3> HIDE DEF y
    <3>3. Placed(y)
      BY <2>1, <3>2 DEF SessionInv, Placed
    <3>4. Returned(y) = Returned(x)
      BY <3>2 DEF Returned
    <3>5. DirectoryKept(y)
      BY <2>1, <2>2, <3>2, <3>4 DEF SessionInv, DirectoryKept
    <3>6. ASSUME x.op = "query", NEW k \in x.stable \ Returned(x) PROVE Cut(x, k)
      <4>1. Paging(x) /\ End(x) = x.offset + Limit
        BY <2>1, <3>6 DEF SessionInv, QueryKept, End
      <4>2. Len(x.rows) + Len(x.todo) # End(x)
        BY <1>2, <2>1, <2>2, <2>3, <2>5, <3>6, <4>1
      <4>3. QED
        BY <2>2, <3>6, <4>1, <4>2 DEF Paging
    <3>7. QueryKept(y)
      BY <2>1, <3>2, <3>4, <3>6 DEF SessionInv, QueryKept, Shifted, Cut
    <3>8. QED
      BY <2>1, <3>1, <3>2, <3>3, <3>5, <3>7, SessionMoves DEF SessionInv
  <2>6. QED
    BY <2>4, <2>5
<1>11. CASE Close(s)
  BY <1>11, SessionMoves DEF Close, x
<1>12. QED
  BY <1>3, <1>4, <1>5, <1>6, <1>7, <1>8, <1>9, <1>10, <1>11

-----------------------------------------------------------------------------
(* Steps that change the store.                                            *)

\* Every session that is not idle watches the store become what it is now.
SessionsWatch ==
  session' = [s \in Sessions |->
    IF session[s].pc = "idle" THEN Idle ELSE Watch(session[s], files', dirs')]

\* Store is what SessionsWatch says, and the new files and directories.
LEMMA StoreWatches == \A f, d : Store(f, d) => files' = f /\ dirs' = d /\ SessionsWatch
BY DEF Store, SessionsWatch

\* A step that changes the store keeps the invariant if it keeps that of the store.
LEMMA StoreKeeps ==
  ASSUME IInv, kind' = kind, SessionsWatch, dirs \cap DOMAIN files' = {},
         (StoreType /\ FilesAreWhole /\ StoreInv /\ WritersInv)'
  PROVE  IInv'
<1>1. /\ IsFiniteSet(Existing) /\ IsFiniteSet(Existing)' /\ Existing \subseteq Keys
      /\ (Existing \subseteq Keys)'
      /\ session \in [Sessions -> {Idle} \cup SessionState]
      /\ \A s \in Sessions : session[s] # Idle => SessionInv(session[s])
  BY DEF IInv, TypeOK, StoreType, StoreInv, Existing
<1>2. ASSUME NEW s \in Sessions, NEW y, y = session'[s]
      PROVE  y \in {Idle} \cup SessionState /\ (y # Idle => SessionInv(y)')
  <2>1. CASE session[s] = Idle
    BY <1>1, <1>2, <2>1 DEF SessionsWatch, Idle
  <2>2. CASE session[s] # Idle
    <3>1. session[s] \in SessionState /\ SessionInv(session[s])
      BY <1>1, <2>2
    <3>2. y = Watch(session[s], files', dirs')
      BY <1>1, <1>2, <3>1, IdleFacts DEF SessionsWatch
    <3>3. QED
      BY <1>1, <3>1, <3>2, WatchKeeps
  <2>3. QED
    BY <2>1, <2>2
<1>3. session' \in [Sessions -> {Idle} \cup SessionState]
  BY <1>2 DEF SessionsWatch
<1>4. (\A s \in Sessions : session[s] # Idle => SessionInv(session[s]))'
  BY <1>2
<1>5. TypeOK'
  BY <1>3, <1>4 DEF TypeOK, StoreType, SessionInv, Increasing
<1>6. QED
  BY <1>4, <1>5 DEF IInv

\* What the invariant says of the store.
LEMMA StoreFacts == IInv => StoreType /\ FilesAreWhole /\ StoreInv /\ WritersInv
BY DEF IInv, TypeOK, StoreType

\* What a path stands for, and the directories above it, are keys, finitely many.
LEMMA PathKeys ==
  ASSUME IInv, NEW path \in Paths[kind] \cup Folders[kind]
  PROVE  /\ KeyOf(path) \in Keys /\ Normalize(path) \in Keys
         /\ Ancestors(KeyOf(path)) \subseteq Keys
         /\ IsFiniteSet(Ancestors(KeyOf(path)))
         /\ kind = "physical" => KeyOf(path).rooted
<1> DEFINE r == path.rooted
           q == path.segs
<1>1. /\ kind \in Kinds /\ r \in BOOLEAN /\ q \in Seq(STRING) /\ KeysOf(path) \subseteq Keys
      /\ kind = "physical" => r
      /\ Root \in Keys
  BY FileSystemAssumption DEF IInv, TypeOK
<1>2. \A b \in BOOLEAN, n \in 0..Len(q) : Key(b, SubSeq(q, 1, n)) \in Keys
  BY <1>1 DEF KeysOf
<1>3. SubSeq(q, 1, Len(q)) = q /\ Len(q) \in Nat
  BY <1>1
<1>4. \A b \in BOOLEAN : Key(b, q) \in Keys
  <2> TAKE b \in BOOLEAN
  <2>1. Len(q) \in 0..Len(q)
    BY <1>3
  <2>2. Key(b, SubSeq(q, 1, Len(q))) \in Keys
    BY <1>2, <2>1
  <2>3. QED
    BY <1>3, <2>2
<1>5. KeyOf(path) = Key(r, q) /\ KeyOf(path).rooted = r /\ KeyOf(path).segs = q
  BY DEF KeyOf, Key
<1>6. KeyOf(path) \in Keys /\ Normalize(path) \in Keys
  BY <1>1, <1>4, <1>5 DEF Normalize
<1>7. Ancestors(KeyOf(path)) = {Key(r, SubSeq(q, 1, n)) : n \in 0..(Len(q) - 1)}
  BY <1>5 DEF Ancestors
<1>8. Ancestors(KeyOf(path)) \subseteq Keys
  BY <1>1, <1>2, <1>3, <1>7
<1>9. IsFiniteSet(Ancestors(KeyOf(path)))
  <2> DEFINE numbers == 0..(Len(q) - 1)
             f == [n \in numbers |-> Key(r, SubSeq(q, 1, n))]
  <2>1. IsFiniteSet(numbers)
    BY <1>3, FS_Interval
  <2>2. f \in Surjection(numbers, Ancestors(KeyOf(path)))
    BY <1>7 DEF Surjection
  <2>3. QED
    BY <2>1, <2>2, FS_Surjection
<1>10. QED
  BY <1>1, <1>5, <1>6, <1>8, <1>9

\* A store that gains finitely many names stays finite.
LEMMA FiniteStore ==
  ASSUME IsFiniteSet(Existing), NEW S, IsFiniteSet(S), (Existing)' \subseteq Existing \cup S
  PROVE  IsFiniteSet(Existing)'
BY FS_Union, FS_Subset

\* In memory and in an archive a file is there or not.
LEMMA MemoryKeeps ==
  ASSUME IInv, kind \in {"memory", "zip"}, UNCHANGED <<kind, overlaid, writer>>,
         NEW path \in Paths[kind] \cup Folders[kind],
         \/ Store(With(Normalize(path), "whole"), dirs)
         \/ Store(Without({Normalize(path)}), dirs)
  PROVE  IInv'
<1> DEFINE key == Normalize(path)
<1>1. StoreType /\ FilesAreWhole /\ StoreInv /\ WritersInv /\ key \in Keys
  BY StoreFacts, PathKeys
<1>2. dirs' = dirs /\ SessionsWatch /\ (files' = With(key, "whole") \/ files' = Without({key}))
  BY StoreWatches
<1> HIDE DEF key
<1>3. /\ DOMAIN files' \subseteq DOMAIN files \cup {key}
      /\ \A k \in DOMAIN files' :
           files'[k] = "whole" \/ (k \in DOMAIN files /\ files'[k] = files[k])
  BY <1>2 DEF With, Without
<1>4. dirs = {} /\ overlaid = {} /\ \A w \in Writers : writer[w] = Idle
  BY <1>1 DEF StoreInv
<1>5. \A w \in Writers : \A k : ~Writing(w, k) /\ ~Writing(w, k)'
  BY <1>4 DEF Writing, Idle
<1>6. StoreType'
  BY <1>1, <1>2, <1>3, <1>4 DEF StoreType, WriterState, Idle
<1>7. FilesAreWhole'
  BY <1>1, <1>3, <1>4, <1>5 DEF FilesAreWhole
<1>8. StoreInv'
  <2>1. IsFiniteSet(Existing)'
    BY <1>1, <1>2, <1>3, FiniteStore, FS_Singleton DEF StoreInv, Existing
  <2>2. QED
    BY <1>2, <1>4, <2>1 DEF StoreInv
<1>9. WritersInv'
  BY <1>5 DEF WritersInv
<1>10. QED
  BY <1>2, <1>4, <1>6, <1>7, <1>8, <1>9, StoreKeeps

\* A writer that opens and cuts nothing leaves everything else alone.
LEMMA WriterMoves ==
  ASSUME IInv, kind = "physical", UNCHANGED <<kind, files, dirs, overlaid, session>>,
         NEW w \in Writers, NEW next \in WriterState, Move(w, next), next.pc # "opened",
         next # Idle => next.key.rooted, writer[w].pc # "opened"
  PROVE  IInv'
<1>1. /\ StoreType /\ FilesAreWhole /\ StoreInv /\ WritersInv
      /\ session \in [Sessions -> {Idle} \cup SessionState]
      /\ \A s \in Sessions : session[s] # Idle => SessionInv(session[s])
  BY StoreFacts DEF IInv, TypeOK
<1>2. writer' = [writer EXCEPT ![w] = next] /\ writer \in [Writers -> WriterState]
  BY <1>1 DEF Move, StoreType
<1>3. \A v \in Writers : \A k : Writing(v, k)' <=> Writing(v, k)
  BY <1>2 DEF Writing
<1>4. StoreType'
  BY <1>1, <1>2 DEF StoreType, Existing, WriterState
<1>5. FilesAreWhole' /\ WritersInv'
  BY <1>1, <1>3 DEF FilesAreWhole, WritersInv
<1>6. StoreInv'
  BY <1>1, <1>2 DEF StoreInv, Existing
<1>7. \A x : SessionInv(x)' <=> SessionInv(x)
  BY SessionFrame
<1>8. (\A s \in Sessions : session[s] # Idle => SessionInv(session[s]))'
  BY <1>1, <1>7
<1>9. TypeOK'
  BY <1>1, <1>4, <1>8 DEF TypeOK, StoreType, SessionInv, Increasing
<1>10. QED
  BY <1>4, <1>5, <1>6, <1>8, <1>9 DEF IInv

\* Keys of the disk and the directories they lie in.
LEMMA ParentFacts ==
  ASSUME NEW k \in Keys, k.rooted, k # Root
  PROVE  StartsWith(k, Parent(k)) /\ Parent(k) # k
<1>1. k = Key(TRUE, k.segs) /\ k.segs \in Seq(STRING)
  BY FileSystemAssumption DEF Key
<1>2. k.segs # <<>>
  BY <1>1 DEF Root
<1> DEFINE q == k.segs
           p == SubSeq(q, 1, Len(q) - 1)
<1>3. /\ Len(q) \in Nat /\ Len(q) >= 1 /\ p \in Seq(STRING) /\ Len(p) = Len(q) - 1
      /\ SubSeq(p, 1, Len(p)) = SubSeq(q, 1, Len(p)) /\ p # q
  <2>1. Len(q) \in Nat /\ Len(q) >= 1
    BY <1>1, <1>2
  <2>2. p \in Seq(STRING)
    BY <1>1, <2>1
  <2>3. Len(p) = Len(q) - 1
    BY <1>1, <2>1
  <2>4. p # q
    BY <2>1, <2>3
  <2> HIDE DEF q
  <2>5. SubSeq(p, 1, Len(p)) = p
    BY <2>2
  <2>6. QED
    BY <2>1, <2>2, <2>3, <2>4, <2>5
<1>4. Parent(k) = Key(TRUE, p)
  BY <1>1 DEF Parent, Front, Key
<1> HIDE DEF p, q
<1>5. IsStrictPrefix(p, q)
  BY <1>3 DEF IsStrictPrefix, IsPrefix
<1>6. Parent(k).segs = p /\ Parent(k).rooted = TRUE
  BY <1>4 DEF Key
<1>7. StartsWith(k, Parent(k))
  BY <1>5, <1>6 DEF StartsWith, q
<1>8. QED
  BY <1>3, <1>6, <1>7 DEF q

\* The directory of a directory above a key is above that key, too.
LEMMA AncestorFacts ==
  ASSUME NEW k \in Keys, k.rooted
  PROVE  /\ \A a \in Ancestors(k) : a.rooted /\ (a = Root \/ Parent(a) \in Ancestors(k))
         /\ k = Root \/ Parent(k) \in Ancestors(k)
<1> DEFINE q == k.segs
           cut(n) == Key(TRUE, SubSeq(q, 1, n))
<1>1. k = Key(TRUE, q) /\ q \in Seq(STRING) /\ Len(q) \in Nat /\ k.rooted = TRUE
  BY FileSystemAssumption DEF Key
<1>2. Ancestors(k) = {cut(n) : n \in 0..(Len(q) - 1)}
  BY <1>1 DEF Ancestors
<1>3. ASSUME NEW n \in 1..Len(q) PROVE Parent(cut(n)) = cut(n - 1)
  <2> DEFINE s == SubSeq(q, 1, n)
  <2>1. Len(s) = n
    BY <1>1
  <2>2. SubSeq(s, 1, n - 1) = SubSeq(q, 1, n - 1)
    BY <1>1
  <2>3. cut(n).segs = s /\ cut(n).rooted = TRUE
    BY DEF Key
  <2> HIDE DEF s, q
  <2>4. Parent(cut(n)) = Key(TRUE, SubSeq(s, 1, n - 1))
    BY <2>1, <2>3 DEF Parent, Front
  <2>5. QED
    BY <2>2, <2>4
<1>4. cut(0) = Root
  <2>1. SubSeq(q, 1, 0) = <<>>
    BY <1>1
  <2>2. QED
    BY <2>1 DEF Root
<1>5. ASSUME NEW n \in 0..(Len(q) - 1)
      PROVE  cut(n).rooted = TRUE /\ (cut(n) = Root \/ Parent(cut(n)) \in Ancestors(k))
  <2>1. CASE n = 0
    BY <1>4, <2>1 DEF Key
  <2>2. CASE n # 0
    <3>1. n \in 1..Len(q) /\ n - 1 \in 0..(Len(q) - 1)
      BY <1>1, <2>2
    <3>2. Parent(cut(n)) \in Ancestors(k)
      BY <1>2, <1>3, <3>1
    <3>3. QED
      BY <3>2 DEF Key
  <2>3. QED
    BY <2>1, <2>2
<1>6. k = Root \/ Parent(k) \in Ancestors(k)
  <2>1. CASE Len(q) = 0
    <3>1. q = <<>>
      BY <1>1, <2>1
    <3>2. QED
      BY <1>1, <3>1 DEF Root
  <2>2. CASE Len(q) # 0
    <3>1. SubSeq(q, 1, Len(q)) = q
      BY <1>1
    <3>2. k = cut(Len(q))
      BY <1>1, <3>1
    <3>3. Len(q) \in 1..Len(q) /\ Len(q) - 1 \in 0..(Len(q) - 1)
      BY <1>1, <2>2
    <3>4. Parent(k) = cut(Len(q) - 1)
      BY <1>3, <3>2, <3>3
    <3>5. QED
      BY <1>2, <3>3, <3>4
  <2>3. QED
    BY <2>1, <2>2
<1> HIDE DEF cut
<1>7. QED
  BY <1>2, <1>5, <1>6

\* WriteText makes the directories on the way.
LEMMA MakeDirectoryKeeps ==
  ASSUME IInv, NEW w \in Writers, NEW path \in Paths[kind], MakeDirectory(w, path)
  PROVE  IInv'
<1> DEFINE key == KeyOf(path)
           above == Ancestors(key)
           next == [pc |-> "made", key |-> key]
<1>1. StoreType /\ FilesAreWhole /\ StoreInv /\ WritersInv
  BY StoreFacts
<1>2. kind = "physical" /\ writer[w] = Idle
  BY DEF MakeDirectory
<1>3. key \in Keys /\ above \subseteq Keys /\ IsFiniteSet(above) /\ key.rooted
  BY <1>2, PathKeys
<1>4. /\ \A a \in above : a.rooted /\ (a = Root \/ Parent(a) \in above)
      /\ above \cap DOMAIN files = {}
  BY <1>3, AncestorFacts DEF MakeDirectory
<1>5. /\ files' = files /\ dirs' = dirs \cup above /\ SessionsWatch
      /\ kind' = kind /\ overlaid' = overlaid /\ writer' = [writer EXCEPT ![w] = next]
  BY StoreWatches DEF MakeDirectory, Move
<1> HIDE DEF key, above
<1>6. next \in WriterState /\ next # Idle /\ next.key = key /\ next.pc = "made"
  BY <1>3 DEF WriterState, Idle
<1> HIDE DEF next
<1>7. writer \in [Writers -> WriterState]
  BY <1>1 DEF StoreType
<1>8. \A v \in Writers : \A k : Writing(v, k)' <=> Writing(v, k)
  BY <1>2, <1>5, <1>6, <1>7 DEF Writing, Idle
<1>9. StoreType'
  <2>1. writer' \in [Writers -> WriterState]
    BY <1>5, <1>6, <1>7
  <2>2. (WriterState)' = WriterState
    BY DEF WriterState
  <2>3. QED
    BY <1>1, <1>2, <1>3, <1>4, <1>5, <2>1, <2>2 DEF StoreType, Existing
<1>10. FilesAreWhole' /\ WritersInv'
  BY <1>1, <1>5, <1>8 DEF FilesAreWhole, WritersInv
<1>11. StoreInv'
  <2>1. IsFiniteSet(Existing)'
    BY <1>1, <1>3, <1>5, FiniteStore DEF StoreInv, Existing
  <2>2. QED
    BY <1>1, <1>2, <1>3, <1>4, <1>5, <1>6, <1>7, <2>1 DEF StoreInv, Existing
<1>12. dirs \cap DOMAIN files' = {}
  BY <1>1, <1>5 DEF StoreType
<1>13. QED
  BY <1>5, <1>9, <1>10, <1>11, <1>12, StoreKeeps

\* The file is cut and nobody has it open, or it becomes overlaid.
LEMMA TruncateKeeps ==
  ASSUME IInv, NEW w \in Writers, Truncate(w)
  PROVE  IInv'
<1> DEFINE key == writer[w].key
           others == {v \in Writers \ {w} : Writing(v, key)}
           next == [writer[w] EXCEPT !.pc = "opened"]
<1>1. StoreType /\ FilesAreWhole /\ StoreInv /\ WritersInv
  BY StoreFacts
<1>2. writer[w] \in [pc : {"made", "opened", "unlinked"}, key : Keys] /\ writer[w].pc = "made"
  BY <1>1 DEF Truncate, StoreType, WriterState, Idle
<1>3. kind = "physical" /\ key.rooted /\ key \in Keys
  BY <1>1, <1>2 DEF StoreInv, Idle
<1>4. CASE ~(Parent(key) \in dirs /\ key \notin dirs)
  <2>1. Move(w, Idle) /\ UNCHANGED <<kind, files, dirs, overlaid, session>>
    BY <1>4 DEF Truncate
  <2>2. Idle \in WriterState /\ Idle.pc # "opened"
    BY DEF WriterState, Idle
  <2>3. QED
    BY <1>2, <1>3, <2>1, <2>2, WriterMoves
<1>5. CASE Parent(key) \in dirs /\ key \notin dirs
  <2>1. /\ files' = With(key, "empty") /\ dirs' = dirs /\ SessionsWatch /\ kind' = kind
        /\ overlaid' = IF others = {} THEN overlaid \ {key} ELSE overlaid \cup {key}
        /\ writer' = [writer EXCEPT ![w] = next]
    BY <1>5, StoreWatches DEF Truncate, Move
  <2>2. next \in WriterState /\ next # Idle /\ next.key = key /\ next.pc = "opened"
    BY <1>2 DEF WriterState, Idle
  <2>3. \A v \in others : v \in Writers /\ v # w /\ Writing(v, key)
    OBVIOUS
  <2>4. \A v \in Writers : v # w /\ Writing(v, key) => v \in others
    OBVIOUS
  <2> HIDE DEF key, next, others
  <2>5. writer \in [Writers -> WriterState]
    BY <1>1 DEF StoreType
  <2>6. /\ DOMAIN files' = DOMAIN files \cup {key} /\ files'[key] = "empty"
        /\ \A k \in DOMAIN files : k # key => files'[k] = files[k]
    BY <2>1 DEF With
  <2>7. \A v \in Writers : \A k : Writing(v, k)' <=> IF v = w THEN k = key ELSE Writing(v, k)
    BY <2>1, <2>2, <2>5 DEF Writing
  <2>8. \A k \in Keys : ~Writing(w, k)
    BY <1>2 DEF Writing
  <2>9. StoreType'
    <3>1. writer' \in [Writers -> WriterState]
      BY <2>1, <2>2, <2>5
    <3>2. (WriterState)' = WriterState
      BY DEF WriterState
    <3>3. /\ DOMAIN files' \subseteq Keys
          /\ \A k \in DOMAIN files' : files'[k] \in {"whole", "empty", "torn"}
      BY <1>1, <1>3, <2>6 DEF StoreType
    <3>4. dirs' \subseteq Keys /\ dirs' \cap DOMAIN files' = {} /\ overlaid' \subseteq DOMAIN files'
      BY <1>1, <1>5, <2>1, <2>6 DEF StoreType
    <3>5. \A k \in (Existing)' \ {Root} : Parent(k) \in dirs'
      BY <1>1, <1>3, <1>5, <2>1, <2>6 DEF StoreType, Existing
    <3>6. QED
      BY <1>1, <2>1, <3>1, <3>2, <3>3, <3>4, <3>5 DEF StoreType
  <2>10. FilesAreWhole'
    <3> SUFFICES ASSUME NEW k \in DOMAIN files'
                 PROVE  /\ files'[k] = "empty" => \E v \in Writers : Writing(v, k)'
                        /\ files'[k] = "torn" => k \in overlaid'
      BY DEF FilesAreWhole
    <3>1. CASE k = key
      BY <2>6, <2>7, <3>1
    <3>2. CASE k # key
      <4>1. k \in DOMAIN files /\ files'[k] = files[k] /\ k \in Keys
        BY <1>1, <2>6, <3>2 DEF StoreType
      <4>2. \A v \in Writers : Writing(v, k) => Writing(v, k)'
        BY <2>7, <2>8, <4>1
      <4>3. k \in overlaid => k \in overlaid'
        BY <2>1, <3>2
      <4>4. QED
        BY <1>1, <4>1, <4>2, <4>3 DEF FilesAreWhole
    <3>3. QED
      BY <3>1, <3>2
  <2>11. WritersInv'
    <3> SUFFICES ASSUME NEW v \in Writers, NEW k \in Keys, Writing(v, k)'
                 PROVE  /\ k \in DOMAIN files'
                        /\ k \notin overlaid' =>
                             /\ files'[k] = "empty"
                             /\ \A u \in Writers : Writing(u, k)' => u = v
      BY DEF WritersInv
    <3>1. CASE k = key
      BY <2>1, <2>3, <2>4, <2>6, <2>7, <3>1
    <3>2. CASE k # key
      <4>1. v # w /\ Writing(v, k) /\ \A u \in Writers : Writing(u, k)' <=> u # w /\ Writing(u, k)
        BY <2>7, <3>2
      <4>2. k \in overlaid' <=> k \in overlaid
        BY <2>1, <3>2
      <4>3. QED
        BY <1>1, <2>6, <3>2, <4>1, <4>2 DEF WritersInv
    <3>3. QED
      BY <3>1, <3>2
  <2>12. StoreInv'
    <3>1. (Existing)' \subseteq Existing \cup {key}
      BY <2>1, <2>6 DEF Existing
    <3>2. IsFiniteSet(Existing)'
      BY <1>1, <3>1, FiniteStore, FS_Singleton DEF StoreInv
    <3>3. QED
      BY <1>1, <1>3, <2>1, <2>2, <2>5, <3>1, <3>2 DEF StoreInv
  <2>13. dirs \cap DOMAIN files' = {}
    BY <1>1, <1>5, <2>6 DEF StoreType
  <2>14. QED
    BY <2>1, <2>9, <2>10, <2>11, <2>12, <2>13, StoreKeeps
<1>6. QED
  BY <1>4, <1>5

\* Who had the file open fills it; if somebody else had, too, it is overlaid.
LEMMA WriteAllTextKeeps ==
  ASSUME IInv, NEW w \in Writers, WriteAllText(w)
  PROVE  IInv'
<1> DEFINE key == writer[w].key
<1>1. StoreType /\ FilesAreWhole /\ StoreInv /\ WritersInv
  BY StoreFacts
<1>2. /\ writer[w] \in [pc : {"made", "opened", "unlinked"}, key : Keys]
      /\ writer[w].pc \in {"opened", "unlinked"}
  BY <1>1 DEF WriteAllText, StoreType, WriterState, Idle
<1>3. kind = "physical" /\ key.rooted /\ key \in Keys
  BY <1>1, <1>2 DEF StoreInv, Idle
<1>4. Idle \in WriterState /\ Idle.pc = "idle"
  BY DEF WriterState, Idle
<1>5. CASE writer[w].pc = "unlinked"
  <2>1. Move(w, Idle) /\ UNCHANGED <<kind, files, dirs, overlaid, session>>
    BY <1>5 DEF WriteAllText
  <2>2. QED
    BY <1>3, <1>4, <1>5, <2>1, WriterMoves
<1>6. CASE writer[w].pc = "opened"
  <2>1. Writing(w, key)
    BY <1>6 DEF Writing
  <2>2. key \in DOMAIN files
    BY <1>1, <1>3, <2>1 DEF WritersInv
  <2>3. PICK text \in IF files[key] = "empty" THEN {"whole"} ELSE {"whole", "torn"} :
          Store(With(key, text), dirs)
    BY <1>6 DEF WriteAllText
  <2>4. /\ files' = With(key, text) /\ dirs' = dirs /\ SessionsWatch
        /\ kind' = kind /\ overlaid' = overlaid /\ writer' = [writer EXCEPT ![w] = Idle]
    BY <2>3, StoreWatches DEF WriteAllText, Move
  <2> HIDE DEF key
  <2>5. /\ DOMAIN files' = DOMAIN files /\ files'[key] = text
        /\ \A k \in DOMAIN files : k # key => files'[k] = files[k]
    BY <2>2, <2>4 DEF With
  <2>6. writer \in [Writers -> WriterState]
    BY <1>1 DEF StoreType
  <2>7. \A v \in Writers : \A k : Writing(v, k)' <=> v # w /\ Writing(v, k)
    BY <1>4, <2>4, <2>6 DEF Writing
  <2>8. text \in {"whole", "torn"} /\ (text = "torn" => key \in overlaid)
    BY <1>1, <1>3, <2>1 DEF WritersInv
  <2>9. \A k : k # key => ~Writing(w, k)
    BY DEF Writing, key
  <2>10. StoreType'
    <3>1. writer' \in [Writers -> WriterState]
      BY <1>4, <2>4, <2>6
    <3>2. (WriterState)' = WriterState
      BY DEF WriterState
    <3>3. \A k \in DOMAIN files' : files'[k] \in {"whole", "empty", "torn"}
      BY <1>1, <2>5, <2>8 DEF StoreType
    <3>4. QED
      BY <1>1, <2>4, <2>5, <3>1, <3>2, <3>3 DEF StoreType, Existing
  <2>11. FilesAreWhole'
    BY <1>1, <2>2, <2>4, <2>5, <2>7, <2>8, <2>9 DEF FilesAreWhole
  <2>12. WritersInv'
    <3> SUFFICES ASSUME NEW v \in Writers, NEW k \in Keys, Writing(v, k)'
                 PROVE  /\ k \in DOMAIN files'
                        /\ k \notin overlaid' =>
                             /\ files'[k] = "empty"
                             /\ \A u \in Writers : Writing(u, k)' => u = v
      BY DEF WritersInv
    <3>1. v # w /\ Writing(v, k) /\ \A u \in Writers : Writing(u, k)' => Writing(u, k)
      BY <2>7
    <3>2. k = key => key \in overlaid
      BY <1>1, <1>3, <2>1, <3>1 DEF WritersInv
    <3>3. QED
      BY <1>1, <2>4, <2>5, <3>1, <3>2 DEF WritersInv
  <2>13. StoreInv'
    <3>1. Existing' = Existing
      BY <2>4, <2>5 DEF Existing
    <3>2. QED
      BY <1>1, <1>3, <1>4, <2>4, <2>6, <3>1 DEF StoreInv
  <2>14. dirs \cap DOMAIN files' = {}
    BY <1>1, <2>5 DEF StoreType
  <2>15. QED
    BY <2>4, <2>10, <2>11, <2>12, <2>13, <2>14, StoreKeeps
<1>7. QED
  BY <1>2, <1>5, <1>6

\* Keys that vanish from the disk: nothing that stays lies in one of them.
LEMMA UnlinkKeeps ==
  ASSUME IInv, kind = "physical", kind' = kind, NEW w \in Writers,
         writer[w].pc \in {"file", "directory"}, NEW keys \in SUBSET Existing,
         \A l \in Existing \ keys : l # Root => Parent(l) \notin keys,
         NEW next, next = Idle \/ next = writer[w], Unlink(w, keys, next)
  PROVE  IInv'
<1>1. StoreType /\ FilesAreWhole /\ StoreInv /\ WritersInv
  BY StoreFacts
<1>2. /\ files' = Without(keys) /\ dirs' = dirs \ keys /\ SessionsWatch
      /\ overlaid' = overlaid \ keys
  BY StoreWatches DEF Unlink
<1>3. /\ DOMAIN files' = DOMAIN files \ keys
      /\ \A k \in DOMAIN files' : files'[k] = files[k]
  BY <1>2 DEF Without
<1>4. writer \in [Writers -> WriterState]
  BY <1>1 DEF StoreType
<1>5. /\ next \in WriterState /\ next.pc # "opened"
      /\ next # Idle => next.key.rooted
  BY <1>1, <1>4 DEF WriterState, Idle, StoreInv
<1>6. ASSUME NEW v \in Writers
      PROVE  /\ writer'[v] \in WriterState
             /\ writer'[v] # Idle => writer'[v].key.rooted
             /\ \A k : Writing(v, k)' <=> Writing(v, k) /\ k \notin keys
  <2>1. writer'[v] = IF v = w THEN next
                     ELSE IF \E k \in keys : Writing(v, k) THEN [writer[v] EXCEPT !.pc = "unlinked"]
                     ELSE writer[v]
    BY DEF Unlink
  <2>2. CASE v = w
    BY <1>5, <2>1, <2>2 DEF Writing
  <2>3. CASE v # w /\ \E k \in keys : Writing(v, k)
    <3>1. writer'[v] = [writer[v] EXCEPT !.pc = "unlinked"]
      BY <2>1, <2>3
    <3>2. writer[v] \in [pc : {"made", "opened", "unlinked"}, key : Keys]
      BY <1>4, <2>3 DEF Writing, WriterState, Idle
    <3>3. /\ writer'[v] \in WriterState /\ writer'[v].pc = "unlinked"
          /\ writer'[v].key = writer[v].key
      BY <3>1, <3>2 DEF WriterState
    <3>4. writer[v].key.rooted
      BY <1>1, <3>2 DEF StoreInv, Idle
    <3>5. \A k : Writing(v, k) => k \in keys
      BY <2>3 DEF Writing
    <3>6. QED
      BY <3>3, <3>4, <3>5 DEF Writing
  <2>4. CASE v # w /\ ~ \E k \in keys : Writing(v, k)
    <3>1. writer'[v] = writer[v]
      BY <2>1, <2>4
    <3>2. \A k : Writing(v, k)' <=> Writing(v, k)
      BY <3>1 DEF Writing
    <3>3. QED
      BY <1>1, <1>4, <2>4, <3>1, <3>2 DEF StoreInv
  <2>5. QED
    BY <2>2, <2>3, <2>4
<1>7. (Existing)' = Existing \ keys
  BY <1>2, <1>3 DEF Existing
<1>8. StoreType'
  <2>1. writer' \in [Writers -> WriterState]
    BY <1>6 DEF Unlink
  <2>2. (WriterState)' = WriterState
    BY DEF WriterState
  <2>3. \A k \in (Existing)' \ {Root} : Parent(k) \in dirs'
    BY <1>1, <1>2, <1>7 DEF StoreType
  <2>4. QED
    BY <1>1, <1>2, <1>3, <2>1, <2>2, <2>3 DEF StoreType
<1>9. FilesAreWhole'
  <2> SUFFICES ASSUME NEW k \in DOMAIN files'
               PROVE  /\ files'[k] = "empty" => \E v \in Writers : Writing(v, k)'
                      /\ files'[k] = "torn" => k \in overlaid'
    BY DEF FilesAreWhole
  <2>1. k \in DOMAIN files /\ k \notin keys /\ files'[k] = files[k]
    BY <1>3
  <2>2. QED
    BY <1>1, <1>2, <1>6, <2>1 DEF FilesAreWhole
<1>10. WritersInv'
  <2> SUFFICES ASSUME NEW v \in Writers, NEW k \in Keys, Writing(v, k)'
               PROVE  /\ k \in DOMAIN files'
                      /\ k \notin overlaid' =>
                           /\ files'[k] = "empty"
                           /\ \A u \in Writers : Writing(u, k)' => u = v
    BY DEF WritersInv
  <2>1. Writing(v, k) /\ k \notin keys /\ \A u \in Writers : Writing(u, k)' => Writing(u, k)
    BY <1>6
  <2>2. QED
    BY <1>1, <1>2, <1>3, <2>1 DEF WritersInv
<1>11. StoreInv'
  <2>1. IsFiniteSet(Existing)'
    BY <1>1, <1>7, FS_Subset DEF StoreInv
  <2>2. QED
    BY <1>1, <1>6, <1>7, <2>1 DEF StoreInv
<1>12. dirs \cap DOMAIN files' = {}
  BY <1>1, <1>3 DEF StoreType
<1>13. QED
  BY <1>2, <1>8, <1>9, <1>10, <1>11, <1>12, StoreKeeps

\* Deletes take a file, or one by one what is below a directory and then itself.
LEMMA DeleteKeeps ==
  ASSUME IInv, NEW w \in Writers,
         \/ \E path \in Paths[kind] \cup Folders[kind] : TestDelete(w, path)
         \/ DeleteFile(w) \/ DeleteDirectory(w)
  PROVE  IInv'
<1>1. StoreType /\ StoreInv /\ writer \in [Writers -> WriterState] /\ Existing \subseteq Keys
  BY StoreFacts DEF StoreType, Existing
<1>2. Idle \in WriterState /\ Idle.pc = "idle"
  BY DEF WriterState, Idle
<1>3. ASSUME NEW path \in Paths[kind] \cup Folders[kind], TestDelete(w, path) PROVE IInv'
  <2> DEFINE next == [pc |-> IF KeyOf(path) \in DOMAIN files THEN "file" ELSE "directory",
                      key |-> KeyOf(path), todo |-> {k \in Existing : StartsWith(k, KeyOf(path))}]
  <2>1. /\ Move(w, next) /\ UNCHANGED <<kind, files, dirs, overlaid, session>>
        /\ kind = "physical" /\ writer[w] = Idle
    BY <1>3 DEF TestDelete
  <2>2. KeyOf(path) \in Keys /\ KeyOf(path).rooted
    BY <2>1, PathKeys
  <2>3. {k \in Existing : StartsWith(k, KeyOf(path))} \in SUBSET Keys
    BY <1>1
  <2>4. next \in WriterState /\ next.pc # "opened" /\ next.key = KeyOf(path)
    BY <2>2, <2>3 DEF WriterState
  <2> HIDE DEF next
  <2>5. QED
    BY <1>2, <2>1, <2>2, <2>4, WriterMoves
<1> DEFINE x == writer[w]
<1>4. CASE DeleteFile(w)
  <2>1. /\ x.pc = "file" /\ kind' = kind /\ Unlink(w, {x.key} \cap DOMAIN files, Idle)
        /\ kind = "physical"
    BY <1>1, <1>4 DEF DeleteFile, StoreInv, Idle
  <2>2. {x.key} \cap DOMAIN files \in SUBSET Existing
    BY DEF Existing
  <2>3. \A l \in Existing : l # Root => Parent(l) \notin DOMAIN files
    BY <1>1, <2>1 DEF StoreType
  <2>4. QED
    BY <2>1, <2>2, <2>3, UnlinkKeeps
<1>5. CASE DeleteDirectory(w)
  <2> DEFINE Below(k) == {l \in Existing : l # k /\ StartsWith(l, k)}
  <2>1. x.pc = "directory" /\ kind' = kind /\ kind = "physical"
    BY <1>1, <1>5 DEF DeleteDirectory, StoreInv, Idle
  <2>2. PICK k \in Below(x.key) \cup {x.key} :
          IF Below(k) = {} /\ k \in Existing
          THEN Unlink(w, {k}, IF k = x.key THEN Idle ELSE x)
          ELSE Move(w, Idle) /\ UNCHANGED <<files, dirs, overlaid, session>>
    BY <1>5 DEF DeleteDirectory
  <2>3. CASE Below(k) = {} /\ k \in Existing
    <3> DEFINE next == IF k = x.key THEN Idle ELSE x
    <3>1. Unlink(w, {k}, next) /\ (next = Idle \/ next = x)
      BY <2>2, <2>3
    <3>2. ASSUME NEW l \in Existing \ {k}, l # Root PROVE Parent(l) # k
      <4>1. l \in Keys /\ l.rooted
        BY <1>1, <2>1 DEF StoreInv
      <4>2. StartsWith(l, Parent(l))
        BY <3>2, <4>1, ParentFacts
      <4>3. QED
        BY <2>3, <3>2, <4>2
    <3> HIDE DEF next, Below
    <3>3. {k} \in SUBSET Existing /\ x.pc \in {"file", "directory"}
      BY <2>1, <2>3
    <3>4. QED
      BY <2>1, <3>1, <3>2, <3>3, UnlinkKeeps
  <2>4. CASE ~(Below(k) = {} /\ k \in Existing)
    <3>1. Move(w, Idle) /\ UNCHANGED <<files, dirs, overlaid, session>>
      BY <2>2, <2>4
    <3>2. QED
      BY <1>2, <2>1, <3>1, WriterMoves
  <2>5. QED
    BY <2>3, <2>4
<1>6. QED
  BY <1>3, <1>4, <1>5

-----------------------------------------------------------------------------
(* The theorems.                                                           *)

\* The invariant holds in the beginning.
LEMMA InitKeeps == Init => IInv
<1> SUFFICES ASSUME Init PROVE IInv
  OBVIOUS
<1>1. /\ kind \in Kinds /\ files = <<>> /\ overlaid = {}
      /\ dirs = IF kind = "physical" THEN {Root} ELSE {}
      /\ writer = [w \in Writers |-> Idle] /\ session = [s \in Sessions |-> Idle]
  BY DEF Init
<1>2. DOMAIN files = {}
  BY <1>1
<1>3. Existing = dirs /\ dirs \subseteq {Root} /\ Root \in Keys /\ Root.rooted = TRUE
  BY <1>1, <1>2, FileSystemAssumption DEF Existing, Root, Key
<1>4. Idle \in WriterState /\ Idle.pc = "idle"
  BY DEF WriterState, Idle
<1>5. TypeOK
  BY <1>1, <1>2, <1>3, <1>4 DEF TypeOK
<1>6. \A w \in Writers : \A k : ~Writing(w, k)
  BY <1>1, <1>4 DEF Writing
<1>7. StoreInv
  <2>1. IsFiniteSet(Existing)
    BY <1>3, FS_Singleton, FS_Subset
  <2>2. QED
    BY <1>1, <1>3, <2>1 DEF StoreInv
<1>8. QED
  BY <1>1, <1>2, <1>5, <1>6, <1>7 DEF IInv, FilesAreWhole, WritersInv

\* Every step keeps the invariant.
LEMMA NextKeeps == IInv /\ [Next]_vars => IInv'
<1> SUFFICES ASSUME IInv, [Next]_vars PROVE IInv'
  OBVIOUS
<1>1. CASE UNCHANGED vars
  <2>1. /\ kind' = kind /\ files' = files /\ dirs' = dirs /\ overlaid' = overlaid
        /\ writer' = writer /\ session' = session
    BY <1>1 DEF vars
  <2>2. TypeOK' /\ (FilesAreWhole /\ StoreInv /\ WritersInv)'
    <3>1. TypeOK'
      BY <2>1 DEF IInv, TypeOK, WriterState, SessionState, Existing, Precedes
    <3>2. FilesAreWhole' /\ WritersInv'
      BY <2>1 DEF IInv, FilesAreWhole, WritersInv, Writing
    <3>3. StoreInv'
      BY <2>1 DEF IInv, StoreInv, Existing
    <3>4. QED
      BY <3>1, <3>2, <3>3
  <2>3. \A x : SessionInv(x)' <=> SessionInv(x)
    BY <2>1, SessionFrame
  <2>4. (\A s \in Sessions : session[s] # Idle => SessionInv(session[s]))'
    BY <2>1, <2>3 DEF IInv
  <2>5. QED
    BY <2>2, <2>4 DEF IInv
<1>2. ASSUME NEW path \in Paths[kind], WriteMemory(path) \/ ReplaceArchive(path) PROVE IInv'
  <2>1. /\ kind \in {"memory", "zip"} /\ UNCHANGED <<kind, overlaid, writer>>
        /\ \/ Store(With(Normalize(path), "whole"), dirs)
           \/ Store(Without({Normalize(path)}), dirs)
    BY <1>2 DEF WriteMemory, ReplaceArchive
  <2>2. QED
    BY <2>1, MemoryKeeps
<1>3. ASSUME NEW path \in Paths[kind], NEW w \in Writers, MakeDirectory(w, path) PROVE IInv'
  BY <1>3, MakeDirectoryKeeps
<1>4. ASSUME NEW path \in Paths[kind] \cup Folders[kind], DeleteMemory(path) PROVE IInv'
  <2>1. /\ kind \in {"memory", "zip"} /\ UNCHANGED <<kind, overlaid, writer>>
        /\ Store(Without({Normalize(path)}), dirs)
    BY <1>4 DEF DeleteMemory
  <2>2. QED
    BY <2>1, MemoryKeeps
<1>5. ASSUME NEW path \in Paths[kind] \cup Folders[kind], NEW w \in Writers, TestDelete(w, path)
      PROVE  IInv'
  BY <1>5, DeleteKeeps
<1>6. ASSUME NEW w \in Writers,
             Truncate(w) \/ WriteAllText(w) \/ DeleteFile(w) \/ DeleteDirectory(w)
      PROVE  IInv'
  BY <1>6, TruncateKeeps, WriteAllTextKeeps, DeleteKeeps
<1>7. ASSUME NEW s \in Sessions,
             \/ \E path \in Folders[kind], op \in {"directory", "query"} : Begin(s, path, op)
             \/ \E op \in {"files", "entries"} : Call(s, op)
             \/ \E name \in Names : GetSubdirectory(s, name)
             \/ ListStep(s) \/ Enumerate(s) \/ CheckEntry(s) \/ ReadEntry(s)
             \/ Finish(s) \/ Close(s)
      PROVE  IInv'
  BY <1>7, SessionsKeep
<1>8. QED
  BY <1>1, <1>2, <1>3, <1>4, <1>5, <1>6, <1>7 DEF Next

\* The invariant always holds.
LEMMA Invariance == Spec => []IInv
<1>1. Init => IInv
  BY InitKeeps
<1>2. IInv /\ [Next]_vars => IInv'
  BY NextKeeps
<1>3. QED
  BY <1>1, <1>2, PTL DEF Spec

\* On the disk every file and directory lies in a directory and no name is
\* both; the entries a session holds are in ordinal order (TypeOK).
THEOREM TypeCorrect == Spec => []TypeOK
<1>1. IInv => TypeOK
  BY DEF IInv
<1>2. QED
  BY <1>1, Invariance, PTL

\* However the writers and deleters of a disk interleave, a file stays empty
\* only while somebody has it open, and is torn only if two had
\* (PhysicalFileSystemProvider.WriteText).
THEOREM FilesAreWholeCorrect == Spec => []FilesAreWhole
<1>1. IInv => FilesAreWhole
  BY DEF IInv
<1>2. QED
  BY <1>1, Invariance, PTL

\* A call on a directory throws only for an entry that went away while it ran,
\* or is a directory, and a listing only if its directory went away
\* (StandardVfsDirectory.GetFilesAsync, PhysicalFileSystemProvider.List).
THEOREM CallsFailOnlyIfDisturbedCorrect == Spec => []CallsFailOnlyIfDisturbed
<1>1. IInv => CallsFailOnlyIfDisturbed
  <2> SUFFICES ASSUME IInv, NEW s \in Sessions, session[s].pc = "failed"
               PROVE  IF session[s].todo = <<>>
                      THEN kind = "physical" /\ session[s].dir \in session[s].gone
                      ELSE Head(session[s].todo) \in session[s].gone \cup dirs
    BY DEF CallsFailOnlyIfDisturbed
  <2>1. session[s] # Idle
    BY DEF Idle
  <2>2. QED
    BY <2>1 DEF IInv, SessionInv, Placed
<1>2. QED
  BY <1>1, Invariance, PTL

\* A directory gives all that was there ever since it was listed, each once.
\* Paging through a query misses or repeats a key only if something before it
\* went or came, whatever the size of the pages
\* (StandardVfsDirectory, StandardFileSystemVfsSession.QueryAsync).
THEOREM ListingsMissNothingCorrect == Spec => []ListingsMissNothing
<1>1. IInv => ListingsMissNothing
  <2> SUFFICES ASSUME IInv, NEW s \in Sessions, NEW x, x = session[s], x.pc = "done"
               PROVE  /\ \A k \in x.stable \ Returned(x) :
                           x.op = "query" /\ \E l \in x.gone : Precedes(l, k)
                      /\ \A i, j \in DOMAIN x.rows : i < j /\ x.rows[i].key = x.rows[j].key =>
                           x.op = "query" /\ \E l \in x.new : Precedes(l, x.rows[i].key)
                      /\ \A i \in DOMAIN x.rows : x.rows[i].key \in x.stable => x.rows[i].exists
    BY DEF ListingsMissNothing
  <2>1. x # Idle
    BY DEF Idle
  <2>2. x \in SessionState /\ SessionInv(x)
    BY <2>1 DEF IInv, TypeOK
  <2>3. \A i \in DOMAIN x.rows : x.rows[i].key \in x.stable => x.rows[i].exists
    BY <2>2 DEF SessionInv, Placed
  <2>4. CASE x.op = "query"
    BY <2>2, <2>3, <2>4 DEF SessionInv, QueryKept, Cut, Shifted
  <2>5. CASE x.op # "query"
    <3>1. x.stable \subseteq Returned(x)
      BY <2>2, <2>5 DEF SessionInv, DirectoryKept
    <3>2. \A i, j \in DOMAIN x.rows : i < j => Precedes(x.rows[i].key, x.rows[j].key)
      BY <2>2, <2>5 DEF SessionInv, DirectoryKept
    <3>3. \A i \in DOMAIN x.rows : x.rows[i].key \in Keys
      BY <2>2, RowFacts DEF Returned
    <3>4. \A k \in Keys : ~Precedes(k, k)
      BY FileSystemAssumption DEF Precedes, Keys
    <3>5. \A i, j \in DOMAIN x.rows : i < j => x.rows[i].key # x.rows[j].key
      BY <3>2, <3>3, <3>4
    <3>6. QED
      BY <2>3, <3>1, <3>5
  <2>6. QED
    BY <2>4, <2>5
<1>2. QED
  BY <1>1, Invariance, PTL
=============================================================================
