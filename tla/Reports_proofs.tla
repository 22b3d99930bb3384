--------------------------- MODULE Reports_proofs ----------------------------
(***************************************************************************)
(* What a user reads of the results: the pages of the request logs         *)
(* (RequestLogs) and the figures and downtime periods of the reports       *)
(* (Reports), for tables and pages of any size.  Both sort results and     *)
(* walk over them, so they share two tools: the ranks of an order and      *)
(* induction over the numbers.                                             *)
(***************************************************************************)
EXTENDS RequestLogs, Reports, Store_proofs, FiniteSetTheorems, WellFoundedInduction, TLAPS

----------------------------------------------------------------------------
(* Induction over the numbers: a set that holds 0, and with each number    *)
(* the next one, holds all.  (The library's NatInduction takes the set as  *)
(* an operator.)                                                           *)
LEMMA Induction ==
  ASSUME NEW T \in SUBSET Nat, 0 \in T, \A n \in T : n + 1 \in T
  PROVE  \A n \in Nat : n \in T
<1> SUFFICES ASSUME Nat \ T # {} PROVE FALSE
  OBVIOUS
<1> DEFINE less == OpToRel(<, Nat)
           rest == Nat \ T
<1>1. IsWellFoundedOn(less, Nat)
  BY NatLessThanWellFounded
<1>2. \A k, m \in Nat : k < m => <<k, m>> \in less
  BY DEF OpToRel
<1> HIDE DEF less
<1>3. PICK m \in rest : \A k \in rest : ~(<<k, m>> \in less)
  BY <1>1, WFMin
<1>4. m \in Nat /\ m # 0
  OBVIOUS
<1>5. m - 1 \in Nat /\ m - 1 < m /\ m - 1 + 1 = m
  BY <1>4
<1>6. m - 1 \in T
  BY <1>2, <1>3, <1>4, <1>5
<1> QED BY <1>5, <1>6

----------------------------------------------------------------------------
(* A strict total order of a finite set, as a set of pairs: the ranks of   *)
(* the elements are 0, 1, ... without a gap.                               *)
Orders(R, S) ==
  /\ \A i \in S : <<i, i>> \notin R
  /\ \A i, j \in S : i # j => <<i, j>> \in R \/ <<j, i>> \in R
  /\ \A i, j, k \in S : <<i, j>> \in R /\ <<j, k>> \in R => <<i, k>> \in R

Below(R, S, i) == {j \in S : <<j, i>> \in R}

LEMMA RanksGrow ==
  ASSUME NEW S, IsFiniteSet(S), NEW R, Orders(R, S), NEW i \in S, NEW j \in S, <<i, j>> \in R
  PROVE  Cardinality(Below(R, S, i)) < Cardinality(Below(R, S, j))
<1> DEFINE A == Below(R, S, i)
           B == Below(R, S, j)
<1>1. A \in SUBSET B /\ i \in B /\ i \notin A /\ B \in SUBSET S
  BY DEF Orders, Below
<1> HIDE DEF A, B
<1>2. IsFiniteSet(B)
  BY <1>1, FS_Subset
<1>3. IsFiniteSet(A) /\ Cardinality(A) <= Cardinality(B) /\ (Cardinality(B) = Cardinality(A) => B = A)
  BY <1>1, <1>2, FS_Subset
<1>4. Cardinality(A) \in Nat /\ Cardinality(B) \in Nat
  BY <1>2, <1>3, FS_CardinalityType
<1>5. Cardinality(B) # Cardinality(A)
  BY <1>1, <1>3
<1> QED BY <1>3, <1>4, <1>5 DEF A, B

LEMMA RanksFit ==
  ASSUME NEW S, IsFiniteSet(S), NEW R, Orders(R, S), NEW i \in S
  PROVE  Cardinality(Below(R, S, i)) \in 0..Cardinality(S) - 1
<1> DEFINE below == Below(R, S, i)
<1>1. below \in SUBSET (S \ {i})
  BY DEF Orders, Below
<1> HIDE DEF below
<1>2. IsFiniteSet(S \ {i}) /\ Cardinality(S \ {i}) = Cardinality(S) - 1
  BY FS_RemoveElement
<1>3. IsFiniteSet(below) /\ Cardinality(below) <= Cardinality(S) - 1
  BY <1>1, <1>2, FS_Subset
<1>4. Cardinality(below) \in Nat /\ Cardinality(S) \in Nat
  BY <1>3, FS_CardinalityType
<1> QED BY <1>3, <1>4 DEF below

LEMMA RanksAreExact ==
  ASSUME NEW S, IsFiniteSet(S), NEW R, Orders(R, S), NEW n \in 0..Cardinality(S) - 1
  PROVE  \E i \in S : Cardinality(Below(R, S, i)) = n
<1> DEFINE ranks == 0..Cardinality(S) - 1
           f == [i \in S |-> Cardinality(Below(R, S, i))]
<1>1. f \in [S -> ranks]
  BY RanksFit
<1>2. \A i, j \in S : i # j => f[i] # f[j]
  <2> SUFFICES ASSUME NEW i \in S, NEW j \in S, i # j
               PROVE  Cardinality(Below(R, S, i)) # Cardinality(Below(R, S, j))
    OBVIOUS
  <2>1. Cardinality(Below(R, S, i)) \in Int /\ Cardinality(Below(R, S, j)) \in Int
    BY RanksFit
  <2>2. <<i, j>> \in R \/ <<j, i>> \in R
    BY DEF Orders
  <2> QED BY <2>1, <2>2, RanksGrow
<1>3. f \in Injection(S, ranks)
  BY <1>1, <1>2 DEF Injection, IsInjective
<1>4. Cardinality(S) \in Nat
  BY FS_CardinalityType
<1>5. IsFiniteSet(ranks) /\ Cardinality(ranks) = Cardinality(S)
  BY <1>4, FS_Interval
<1> HIDE DEF f, ranks
<1>6. f \in Surjection(S, ranks)
  BY <1>3, <1>5, FS_Injection
<1>7. \E i \in S : f[i] = n
  BY <1>6 DEF Surjection, ranks
<1> QED BY <1>7 DEF f

----------------------------------------------------------------------------
(* The request logs of a probe. *)
Fors  == [kind : {"none", "logs", "period"}, page : Nat, filter : Filters, time : Nat]
Views == [state : {"loading", "loaded", "error"}, ids : Seq(Nat), total : Nat]
Drops == [no : Nat, id : Nat, for : Fors, at : {"sent", "answered"}]
Asks  == [gen : Nat, for : Fors, at : {"rows", "count", "answered"}, ids : Seq(Nat), total : Nat,
          start : SUBSET Nat]

HasPage(for) == for.page > 0

(* The generation tells requests apart, and the youngest is the one of the *)
(* dialog that is shown.                                                   *)
LogsFit ==
  /\ last \in Nat /\ DOMAIN rows \subseteq 1..last /\ \A i \in DOMAIN rows : rows[i] \in LogRow
  /\ modal \in [gen : Nat, for : Fors, view : Views]
  /\ requests \subseteq Asks /\ deletes \subseteq Drops
  /\ \A r \in requests : r.gen <= modal.gen /\ (r.gen = modal.gen => r.for = modal.for)
  /\ \A r, s \in requests : r.gen = s.gen => r = s
  /\ modal.for.kind # "none" => HasPage(modal.for)
  /\ \A r \in requests : HasPage(r.for)
  /\ \A d \in deletes : HasPage(d.for)

(* A page under the failure filter lists failures, and an id never becomes *)
(* another result's.                                                       *)
AreFailures(ids) ==
  \A k \in DOMAIN ids : ids[k] \in 1..last /\ (ids[k] \in DOMAIN rows => rows[ids[k]].failed)

FailuresFit ==
  /\ \A r \in requests : r.for.filter = "failed" => AreFailures(r.ids)
  /\ Loaded /\ modal.for.filter = "failed" => AreFailures(modal.view.ids)

LogsInv == LogsFit /\ FailuresFit

(* A walk: what was there at its start and was not seen yet is not among   *)
(* the results before the next page, wherever new results sort.            *)
Unseen(w) == w.start \ w.seen
Late == [filter \in Filters |-> [n \in Nat |-> {i \in Matching(filter) : Rank(i, Matching(filter)) >= n}]]
Reaches(w, filter) == Unseen(w) \subseteq Late[filter][w.page * PageSize]

(* A last page has nothing after it. *)
Complete(w, total) == Unseen(w) = {} \/ total > w.page * PageSize

WalkShape(w) == w \in [page : Nat, start : SUBSET Nat, seen : SUBSET Nat]

(* What the answer of a request would make of the walk. *)
RequestFits(r) ==
  LET w == Walked(r) IN
  /\ r.at = "rows" /\ w.page > 1 => Reaches(walk, r.for.filter)
  /\ r.at # "rows" /\ w.page > 0 => Reaches(w, r.for.filter)
  /\ r.at = "answered" /\ w.page > 0 => Complete(w, r.total)

ViewFits ==
  ShowsLogs /\ walk.page > 0 =>
    /\ walk.page = modal.for.page
    /\ Reaches(walk, modal.for.filter) /\ Complete(walk, modal.view.total)

(* As long as nothing is deleted, no delete has been served. *)
DeletesFit == \A d \in deletes : d.at = "sent"

WalkFits ==
  /\ WalkShape(walk) /\ deleted \in Nat
  /\ deleted = 0 =>
       /\ DeletesFit /\ ViewFits
       /\ \A r \in requests : IsCurrent(r) => RequestFits(r)

WalkInv == LogsInv /\ WalkFits

LEMMA LogsBounds ==
  /\ PageSize \in Nat /\ PageSize > 0 /\ PeriodSize \in Nat /\ PeriodSize > 0
  /\ MaxRows \in Nat /\ MaxDeletes \in Nat /\ MaxRequests \in Nat /\ MaxTime \in Nat
BY LogsAssumption

(* Pages follow each other without a gap. *)
LEMMA NextPage ==
  ASSUME NEW p \in Nat
  PROVE  /\ p * PageSize \in Nat /\ (p + 1) * PageSize = p * PageSize + PageSize
         /\ (p + 1 - 1) * PageSize = p * PageSize /\ 1 * PageSize = PageSize
BY LogsBounds

(* TotalPages of app.js is enough for all results. *)
LEMMA PagesSuffice ==
  ASSUME NEW total \in Nat, NEW p \in Nat, TotalPages(total) <= p
  PROVE  total <= p * PageSize
<1>1. CASE total = 0
  <2>1. p * PageSize \in Nat
    BY NextPage
  <2> QED BY <1>1, <2>1
<1>2. CASE total # 0
  <2> DEFINE q == (total + PageSize - 1) \div PageSize
  <2>1. q <= p /\ q \in Int
    BY <1>2, LogsBounds DEF TotalPages
  <2>2. total + PageSize - 1 < PageSize * q + PageSize
    BY LogsBounds, SMTT(30)
  <2> HIDE DEF q
  <2>3. PageSize * q <= PageSize * p /\ PageSize * p = p * PageSize /\ PageSize * q \in Int
    BY <2>1, LogsBounds, SMTT(30)
  <2>4. p * PageSize \in Nat
    BY NextPage
  <2> QED BY <2>2, <2>3, <2>4, LogsBounds
<1> QED BY <1>1, <1>2

----------------------------------------------------------------------------
(* The order of the page query is a strict total order, so a page is a     *)
(* stretch of it.                                                          *)
LEMMA BeforeOrders ==
  ASSUME LogsFit
  PROVE  /\ \A i \in DOMAIN rows : ~Before(i, i)
         /\ \A i, j \in DOMAIN rows : i # j => Before(i, j) \/ Before(j, i)
         /\ \A i, j, k \in DOMAIN rows : Before(i, j) /\ Before(j, k) => Before(i, k)
<1>1. \A i \in DOMAIN rows : i \in Nat /\ rows[i].created \in Nat
  BY LogsBounds DEF LogsFit, LogRow
<1> QED BY <1>1 DEF Before

LEMMA MatchingIsFinite ==
  ASSUME LogsFit, NEW filter
  PROVE  /\ Matching(filter) \subseteq DOMAIN rows /\ Matching(filter) \subseteq Nat
         /\ IsFiniteSet(Matching(filter)) /\ Cardinality(Matching(filter)) \in Nat
<1>1. Matching(filter) \in SUBSET (1..last) /\ last \in Nat
  BY DEF LogsFit, Matching
<1>2. IsFiniteSet(1..last)
  BY <1>1, FS_Interval
<1>3. IsFiniteSet(Matching(filter))
  BY <1>1, <1>2, FS_Subset
<1> QED BY <1>1, <1>3, FS_CardinalityType DEF Matching

(* The order of the page query, as pairs. *)
PairsBefore(S) == {q \in S \X S : Before(q[1], q[2])}

LEMMA RankIsPlace ==
  ASSUME LogsFit, NEW S \in SUBSET DOMAIN rows
  PROVE  /\ Orders(PairsBefore(S), S)
         /\ \A i \in S : Rank(i, S) = Cardinality(Below(PairsBefore(S), S, i))
         /\ \A i, j \in S : <<i, j>> \in PairsBefore(S) <=> Before(i, j)
<1>1. \A i, j \in S : <<i, j>> \in PairsBefore(S) <=> Before(i, j)
  BY DEF PairsBefore
<1>2. Orders(PairsBefore(S), S)
  BY <1>1, BeforeOrders DEF Orders
<1>3. \A i \in S : {j \in S : Before(j, i)} = Below(PairsBefore(S), S, i)
  BY <1>1 DEF Below
<1> QED BY <1>1, <1>2, <1>3 DEF Rank

LEMMA RankFacts ==
  ASSUME LogsFit, NEW S \in SUBSET DOMAIN rows, IsFiniteSet(S), NEW i \in S
  PROVE  Rank(i, S) \in 0..Cardinality(S) - 1
BY RankIsPlace, RanksFit

LEMMA RankDiffers ==
  ASSUME LogsFit, NEW S \in SUBSET DOMAIN rows, IsFiniteSet(S), NEW i \in S, NEW j \in S, Before(i, j)
  PROVE  Rank(i, S) < Rank(j, S)
BY RankIsPlace, RanksGrow

LEMMA RanksAreAll ==
  ASSUME LogsFit, NEW S \in SUBSET DOMAIN rows, IsFiniteSet(S), NEW n \in 0..Cardinality(S) - 1
  PROVE  \E i \in S : Rank(i, S) = n
<1>1. \E i \in S : Cardinality(Below(PairsBefore(S), S, i)) = n
  BY RankIsPlace, RanksAreExact
<1> QED BY <1>1, RankIsPlace

LEMMA PageFacts ==
  ASSUME LogsFit, NEW filter, NEW size \in Nat, NEW offset \in Nat
  PROVE  LET S == Matching(filter)
             ids == Page(filter, size, offset) IN
         /\ ids \in Seq(Nat) /\ Len(ids) <= size
         /\ \A k \in DOMAIN ids : ids[k] \in S
         /\ \A i \in S : offset <= Rank(i, S) /\ Rank(i, S) < offset + size => \E k \in DOMAIN ids : ids[k] = i
<1> DEFINE S == Matching(filter)
           ids == Page(filter, size, offset)
           n == Limited(Cardinality(S) - offset, size)
<1>1. S \in SUBSET DOMAIN rows /\ S \subseteq Nat /\ IsFiniteSet(S) /\ Cardinality(S) \in Nat
  BY MatchingIsFinite
<1>2. n \in Nat /\ n <= size /\ (n = Cardinality(S) - offset \/ n = size \/ (n = 0 /\ Cardinality(S) < offset))
      /\ (n > 0 => n <= Cardinality(S) - offset)
  BY <1>1 DEF Limited
<1>3. ids = [k \in 1..n |-> CHOOSE i \in S : Rank(i, S) = offset + k - 1]
  BY DEF Page
<1> HIDE DEF S, ids, n
<1>4. ASSUME NEW k \in 1..n
      PROVE  ids[k] \in S /\ Rank(ids[k], S) = offset + k - 1
  <2>1. offset + k - 1 \in 0..Cardinality(S) - 1
    BY <1>1, <1>2
  <2>2. \E i \in S : Rank(i, S) = offset + k - 1
    BY <1>1, <2>1, RanksAreAll
  <2>3. ids[k] = CHOOSE i \in S : Rank(i, S) = offset + k - 1
    BY <1>3
  <2> QED BY <2>2, <2>3
<1>5. ids \in [1..n -> Nat]
  BY <1>1, <1>3, <1>4
<1>6. ids \in Seq(Nat) /\ Len(ids) = n /\ DOMAIN ids = 1..n
  BY <1>2, <1>5
<1>7. ASSUME NEW i \in S, offset <= Rank(i, S), Rank(i, S) < offset + size
      PROVE  \E k \in DOMAIN ids : ids[k] = i
  <2>1. Rank(i, S) \in Int /\ Rank(i, S) < Cardinality(S)
    BY <1>1, RankFacts
  <2> DEFINE k == Rank(i, S) - offset + 1
  <2>2. k \in 1..n /\ offset + k - 1 = Rank(i, S)
    BY <1>1, <1>2, <1>7, <2>1
  <2>3. ids[k] \in S /\ Rank(ids[k], S) = Rank(i, S)
    BY <1>4, <2>2
  <2>4. ids[k] = i
    <3> SUFFICES ASSUME ids[k] # i PROVE FALSE
      OBVIOUS
    <3>1. Before(ids[k], i) \/ Before(i, ids[k])
      BY <1>1, <2>3, BeforeOrders
    <3>2. Rank(ids[k], S) < Rank(i, S) \/ Rank(i, S) < Rank(ids[k], S)
      BY <1>1, <2>3, <3>1, RankDiffers
    <3> QED BY <2>1, <2>3, <3>2
  <2> QED BY <1>6, <2>2, <2>4
<1> QED BY <1>2, <1>4, <1>6, <1>7 DEF S, ids

----------------------------------------------------------------------------
(* Every step of LogsNext, in terms of the table and of the requests.      *)
NewRequest(for) ==
  [gen |-> modal.gen + 1, for |-> for, at |-> "rows", ids |-> <<>>, total |-> 0, start |-> {}]

LEMMA NewRequestFacts ==
  ASSUME LogsFit, NEW for \in Fors
  PROVE  /\ NewRequest(for) \in Asks /\ NewRequest(for).gen = modal.gen + 1
         /\ NewRequest(for).for = for /\ NewRequest(for).at = "rows" /\ NewRequest(for).ids = <<>>
BY DEF NewRequest, Asks, LogsFit

LEMMA AskFacts ==
  ASSUME LogsFit, NEW for \in Fors, Ask(for)
  PROVE  /\ modal' \in [gen : Nat, for : Fors, view : Views]
         /\ modal'.gen = modal.gen + 1 /\ modal'.for = for /\ modal'.view.state = "loading"
         /\ requests' = requests \cup {NewRequest(for)}
BY DEF Ask, LogsFit, Views, Loading, NewRequest

LEMMA LogsInitIsFine == LogsInit => WalkInv
<1> SUFFICES ASSUME LogsInit PROVE WalkInv
  OBVIOUS
<1>1. DOMAIN rows = {} /\ last = 0 /\ requests = {} /\ deletes = {} /\ deleted = 0
      /\ modal = [gen |-> 0, for |-> Nothing, view |-> Loading] /\ walk = NoWalk
  BY DEF LogsInit
<1>2. Nothing \in Fors /\ Nothing.kind = "none" /\ Loading \in Views /\ Loading.state = "loading"
  BY DEF Nothing, Fors, Filters, Loading, Views
<1>3. LogsFit
  BY <1>1, <1>2 DEF LogsFit, HasPage
<1>4. FailuresFit
  BY <1>1, <1>2 DEF FailuresFit, Loaded
<1>5. WalkFits
  BY <1>1, <1>2 DEF WalkFits, WalkShape, NoWalk, DeletesFit, ViewFits, ShowsLogs, Loaded, Nothing
<1> QED BY <1>3, <1>4, <1>5 DEF WalkInv, LogsInv

----------------------------------------------------------------------------
(* What the steps do to pages and failures. *)

(* New results, and results that go. *)
LEMMA TableKeeps ==
  ASSUME LogsInv, UNCHANGED <<requests, modal>>, deletes' \subseteq Drops,
         \A d \in deletes' : HasPage(d.for),
         last' \in Nat, last <= last', DOMAIN rows' \subseteq 1..last',
         \A i \in DOMAIN rows' : rows'[i] \in LogRow,
         \A i \in DOMAIN rows' : i <= last => i \in DOMAIN rows /\ rows'[i] = rows[i]
  PROVE  LogsInv'
<1>1. LogsFit'
  BY DEF LogsInv, LogsFit, HasPage
<1>2. ASSUME NEW ids, AreFailures(ids) PROVE AreFailures(ids)'
  <2>1. last \in Nat
    BY DEF LogsInv, LogsFit
  <2> QED BY <1>2, <2>1 DEF AreFailures
<1>3. FailuresFit'
  <2>1. \A r \in requests : r.for.filter = "failed" => AreFailures(r.ids)'
    BY <1>2 DEF LogsInv, FailuresFit
  <2>2. Loaded /\ modal.for.filter = "failed" => AreFailures(modal.view.ids)'
    BY <1>2 DEF LogsInv, FailuresFit
  <2> QED BY <2>1, <2>2 DEF FailuresFit, Loaded, AreFailures
<1> QED BY <1>1, <1>3 DEF LogsInv

LEMMA InsertKeeps ==
  ASSUME LogsInv, NEW row \in LogRow, Insert(row)
  PROVE  /\ LogsInv' /\ last + 1 \notin DOMAIN rows
         /\ DOMAIN rows' = DOMAIN rows \cup {last + 1}
         /\ \A i \in DOMAIN rows : rows'[i] = rows[i]
         /\ UNCHANGED <<requests, deletes, modal, deleted, walk>>
<1>1. /\ last' = last + 1 /\ UNCHANGED <<requests, deletes, modal, deleted, walk>>
      /\ rows' = [i \in DOMAIN rows \cup {last + 1} |-> IF i = last + 1 THEN row ELSE rows[i]]
  BY DEF Insert
<1>2. /\ last \in Nat /\ DOMAIN rows \subseteq 1..last /\ (\A i \in DOMAIN rows : rows[i] \in LogRow)
      /\ deletes \subseteq Drops /\ (\A d \in deletes : HasPage(d.for))
  BY DEF LogsInv, LogsFit
<1>3. last + 1 \notin DOMAIN rows
  BY <1>2
<1>4. /\ DOMAIN rows' = DOMAIN rows \cup {last + 1} /\ rows'[last + 1] = row
      /\ \A i \in DOMAIN rows : rows'[i] = rows[i]
  BY <1>1, <1>3
<1>5. DOMAIN rows' \subseteq 1..last' /\ last' \in Nat /\ last <= last'
      /\ (\A i \in DOMAIN rows' : rows'[i] \in LogRow)
      /\ (\A i \in DOMAIN rows' : i <= last => i \in DOMAIN rows /\ rows'[i] = rows[i])
  BY <1>1, <1>2, <1>4
<1>6. LogsInv'
  BY <1>1, <1>2, <1>5, TableKeeps
<1> QED BY <1>1, <1>3, <1>4, <1>6

LEMMA WithoutFacts ==
  ASSUME LogsInv, NEW ids, Without(ids), UNCHANGED last
  PROVE  /\ last' \in Nat /\ last <= last' /\ DOMAIN rows' \subseteq 1..last'
         /\ \A i \in DOMAIN rows' : rows'[i] \in LogRow
         /\ \A i \in DOMAIN rows' : i <= last => i \in DOMAIN rows /\ rows'[i] = rows[i]
         /\ deleted' = deleted + 1
BY DEF Without, LogsInv, LogsFit

LEMMA AskKeeps ==
  ASSUME LogsInv, NEW for \in Fors, HasPage(for), Ask(for), UNCHANGED <<rows, last>>,
         deletes' \subseteq deletes
  PROVE  LogsInv'
<1>1. /\ modal' \in [gen : Nat, for : Fors, view : Views]
      /\ modal'.gen = modal.gen + 1 /\ modal'.for = for /\ modal'.view.state = "loading"
      /\ requests' = requests \cup {NewRequest(for)}
  BY AskFacts DEF LogsInv
<1> DEFINE new == NewRequest(for)
<1>2. new \in Asks /\ new.gen = modal.gen + 1 /\ new.for = for /\ new.ids = <<>>
  BY NewRequestFacts DEF LogsInv
<1> HIDE DEF new
<1>3. /\ modal.gen \in Nat /\ requests \subseteq Asks
      /\ \A r \in requests : r.gen <= modal.gen /\ r.gen \in Nat
  BY DEF LogsInv, LogsFit, Asks
<1>4. LogsFit'
  <2>1. /\ \A r \in requests' : r.gen <= modal'.gen /\ (r.gen = modal'.gen => r = new)
        /\ \A r, s \in requests' : r.gen = s.gen => r = s
    BY <1>1, <1>2, <1>3 DEF LogsInv, LogsFit, new
  <2>2. requests' \subseteq Asks /\ (\A r \in requests' : HasPage(r.for)) /\ HasPage(modal'.for)
    BY <1>1, <1>2, <1>3 DEF LogsInv, LogsFit, new
  <2>3. \A r \in requests' : r.gen = modal'.gen => r.for = modal'.for
    BY <1>1, <1>2, <2>1
  <2> QED BY <1>1, <2>1, <2>2, <2>3 DEF LogsInv, LogsFit, HasPage
<1>5. FailuresFit'
  <2>1. AreFailures(new.ids)
    BY <1>2 DEF AreFailures
  <2>2. \A r \in requests' : r.for.filter = "failed" => AreFailures(r.ids)
    BY <1>1, <2>1 DEF LogsInv, FailuresFit, new
  <2>3. \A r \in requests' : r.for.filter = "failed" => AreFailures(r.ids)'
    BY <2>2 DEF AreFailures
  <2>4. ~Loaded'
    BY <1>1 DEF Loaded
  <2> QED BY <2>3, <2>4 DEF FailuresFit, AreFailures
<1> QED BY <1>4, <1>5 DEF LogsInv

(* A request leaves, the dialog keeps its number. *)
LEMMA LeavesKeeps ==
  ASSUME LogsInv, UNCHANGED <<rows, last, deletes>>, requests' \subseteq requests,
         modal' \in [gen : Nat, for : Fors, view : Views], modal'.gen = modal.gen,
         modal'.for = modal.for,
         modal'.view.state = "loaded" /\ modal.for.filter = "failed" => AreFailures(modal'.view.ids)
  PROVE  LogsInv'
<1>1. LogsFit'
  BY DEF LogsInv, LogsFit, HasPage
<1>2. \A r \in requests' : r.for.filter = "failed" => AreFailures(r.ids)'
  BY DEF LogsInv, FailuresFit, AreFailures
<1>3. Loaded' /\ modal'.for.filter = "failed" => AreFailures(modal'.view.ids)
  BY DEF Loaded
<1>4. Loaded' /\ modal'.for.filter = "failed" => AreFailures(modal.view.ids)'
  BY <1>3 DEF AreFailures
<1> QED BY <1>1, <1>2, <1>4 DEF LogsInv, FailuresFit, AreFailures

(* A request moves on, as the same request. *)
LEMMA MovesKeeps ==
  ASSUME LogsInv, UNCHANGED <<rows, last, deletes, modal>>, NEW r \in requests, NEW s \in Asks,
         requests' = (requests \ {r}) \cup {s}, s.gen = r.gen, s.for = r.for,
         r.for.filter = "failed" => AreFailures(s.ids)
  PROVE  LogsInv'
<1>1. /\ requests \subseteq Asks
      /\ \A t \in requests : t.gen <= modal.gen /\ (t.gen = modal.gen => t.for = modal.for) /\ HasPage(t.for)
      /\ \A t, u \in requests : t.gen = u.gen => t = u
  BY DEF LogsInv, LogsFit
<1>2. /\ requests' \subseteq Asks
      /\ \A t \in requests' : t.gen <= modal.gen /\ (t.gen = modal.gen => t.for = modal.for)
      /\ \A t \in requests' : HasPage(t.for)
      /\ \A t, u \in requests' : t.gen = u.gen => t = u
  BY <1>1 DEF HasPage
<1>3. LogsFit'
  BY <1>2 DEF LogsInv, LogsFit, HasPage
<1>4. \A t \in requests' : t.for.filter = "failed" => AreFailures(t.ids)'
  BY DEF LogsInv, FailuresFit, AreFailures
<1>5. Loaded' /\ modal'.for.filter = "failed" => AreFailures(modal.view.ids)'
  BY DEF LogsInv, FailuresFit, AreFailures, Loaded
<1> QED BY <1>3, <1>4, <1>5 DEF LogsInv, FailuresFit, AreFailures

----------------------------------------------------------------------------
(* The two queries of the handler. *)
LEMMA PageQuery ==
  ASSUME LogsInv, NEW r, GetResultsForProbePage(r)
  PROVE  LET s == [r EXCEPT !.at = "count", !.start = Matching(r.for.filter),
                            !.ids = Page(r.for.filter, Size(r.for), Offset(r.for.page, Size(r.for)))] IN
         /\ r \in requests /\ r.at = "rows" /\ r \in Asks
         /\ requests' = (requests \ {r}) \cup {s}
         /\ UNCHANGED <<rows, last, deletes, modal, deleted, walk>>
<1>1. r \in requests /\ Progress(r, "rows") /\ UNCHANGED <<rows, last, deletes, modal, deleted, walk>>
  BY DEF GetResultsForProbePage
<1>2. r \in Asks
  BY <1>1 DEF LogsInv, LogsFit
<1> QED BY <1>1, <1>2 DEF Progress, Queries

LEMMA CountQuery ==
  ASSUME LogsInv, NEW r, GetResultsCount(r)
  PROVE  LET s == [r EXCEPT !.at = "answered", !.total = Cardinality(Matching(r.for.filter))] IN
         /\ r \in requests /\ r.at = "count" /\ r \in Asks
         /\ requests' = (requests \ {r}) \cup {s}
         /\ UNCHANGED <<rows, last, deletes, modal, deleted, walk>>
<1>1. /\ r \in requests /\ r.at # "answered" /\ Progress(r, "count")
      /\ UNCHANGED <<rows, last, deletes, modal, deleted, walk>>
  BY DEF GetResultsCount
<1>2. r \in Asks
  BY <1>1 DEF LogsInv, LogsFit
<1>3. r.at = "count"
  BY <1>1, <1>2 DEF Progress, Queries, Asks
<1> QED BY <1>1, <1>2, <1>3 DEF Progress, Queries

(* An offset is a number of results. *)
LEMMA OffsetFacts ==
  ASSUME LogsInv, NEW r \in requests
  PROVE  /\ Size(r.for) \in Nat /\ Offset(r.for.page, Size(r.for)) \in Nat
         /\ r.for \in Fors /\ r.for.page \in Nat /\ r.for.page > 0
<1>1. r.for \in Fors /\ r.for.page > 0
  BY DEF LogsInv, LogsFit, Asks, HasPage
<1>2. r.for.page \in Nat
  BY <1>1 DEF Fors
<1>3. \A p, n \in Nat : p * n \in Nat
  OBVIOUS
<1>4. Size(r.for) \in Nat /\ r.for.page - 1 \in Nat
  BY <1>1, <1>2, LogsBounds DEF Size
<1> QED BY <1>1, <1>2, <1>3, <1>4 DEF Offset

LEMMA MatchingFailed ==
  ASSUME LogsInv, NEW i \in Matching("failed")
  PROVE  i \in 1..last /\ rows[i].failed
BY DEF LogsInv, LogsFit, Matching

LEMMA PageQueryKeeps ==
  ASSUME LogsInv, NEW r, GetResultsForProbePage(r)
  PROVE  LogsInv'
<1> DEFINE ids == Page(r.for.filter, Size(r.for), Offset(r.for.page, Size(r.for)))
           start == Matching(r.for.filter)
           s == [r EXCEPT !.at = "count", !.start = start, !.ids = ids]
<1>1. /\ r \in requests /\ r \in Asks /\ requests' = (requests \ {r}) \cup {s}
      /\ UNCHANGED <<rows, last, deletes, modal, deleted, walk>>
  BY PageQuery
<1>2. ids \in Seq(Nat) /\ (\A k \in DOMAIN ids : ids[k] \in start) /\ start \subseteq Nat
  BY <1>1, OffsetFacts, PageFacts, MatchingIsFinite DEF LogsInv
<1>3. r.for.filter = "failed" => AreFailures(ids)
  BY <1>2, MatchingFailed DEF AreFailures
<1> HIDE DEF ids, start
<1>4. s \in Asks /\ s.gen = r.gen /\ s.for = r.for /\ s.ids = ids
  BY <1>1, <1>2 DEF Asks
<1> HIDE DEF s
<1> QED BY <1>1, <1>3, <1>4, MovesKeeps

LEMMA CountQueryKeeps ==
  ASSUME LogsInv, NEW r, GetResultsCount(r)
  PROVE  LogsInv'
<1> DEFINE total == Cardinality(Matching(r.for.filter))
           s == [r EXCEPT !.at = "answered", !.total = total]
<1>1. /\ r \in requests /\ r \in Asks /\ requests' = (requests \ {r}) \cup {s}
      /\ UNCHANGED <<rows, last, deletes, modal, deleted, walk>>
  BY CountQuery
<1>2. total \in Nat
  BY MatchingIsFinite DEF LogsInv
<1> HIDE DEF total
<1>3. s \in Asks /\ s.gen = r.gen /\ s.for = r.for /\ s.ids = r.ids
  BY <1>1, <1>2 DEF Asks
<1>4. r.for.filter = "failed" => AreFailures(r.ids)
  BY <1>1 DEF LogsInv, FailuresFit
<1> HIDE DEF s
<1> QED BY <1>1, <1>3, <1>4, MovesKeeps

LEMMA ArriveKeeps ==
  ASSUME LogsInv, NEW r, Arrive(r)
  PROVE  LogsInv'
<1>1. /\ r \in requests /\ requests' = requests \ {r} /\ UNCHANGED <<rows, last, deletes, deleted>>
      /\ \/ /\ r.gen = modal.gen
            /\ modal' = [modal EXCEPT !.view = [state |-> "loaded", ids |-> r.ids, total |-> r.total]]
         \/ UNCHANGED modal
  BY DEF Arrive, IsCurrent
<1>2. modal \in [gen : Nat, for : Fors, view : Views] /\ r \in Asks
  BY <1>1 DEF LogsInv, LogsFit
<1>3. CASE UNCHANGED modal
  <2>1. modal'.view.state = "loaded" /\ modal.for.filter = "failed" => AreFailures(modal'.view.ids)
    BY <1>3 DEF LogsInv, FailuresFit, Loaded
  <2> QED BY <1>1, <1>2, <1>3, <2>1, LeavesKeeps
<1>4. CASE /\ r.gen = modal.gen
           /\ modal' = [modal EXCEPT !.view = [state |-> "loaded", ids |-> r.ids, total |-> r.total]]
  <2>1. r.for = modal.for
    BY <1>1, <1>4 DEF LogsInv, LogsFit
  <2>2. [state |-> "loaded", ids |-> r.ids, total |-> r.total] \in Views
    BY <1>2 DEF Asks, Views
  <2>3. /\ modal' \in [gen : Nat, for : Fors, view : Views] /\ modal'.gen = modal.gen
        /\ modal'.for = modal.for /\ modal'.view.ids = r.ids
    BY <1>2, <1>4, <2>2
  <2>4. modal.for.filter = "failed" => AreFailures(modal'.view.ids)
    BY <1>1, <2>1, <2>3 DEF LogsInv, FailuresFit
  <2> QED BY <1>1, <2>3, <2>4, LeavesKeeps
<1> QED BY <1>1, <1>3, <1>4

LEMMA FailKeeps ==
  ASSUME LogsInv, NEW r, Fail(r)
  PROVE  LogsInv'
<1>1. /\ requests' = requests \ {r} /\ UNCHANGED <<rows, last, deletes>>
      /\ modal' \in {modal, [modal EXCEPT !.view = Error]}
  BY DEF Fail
<1>2. modal \in [gen : Nat, for : Fors, view : Views]
  BY DEF LogsInv, LogsFit
<1>3. Error \in Views /\ Error.state = "error"
  BY DEF Error, Views
<1>4. /\ modal' \in [gen : Nat, for : Fors, view : Views] /\ modal'.gen = modal.gen
      /\ modal'.for = modal.for /\ (modal' = modal \/ modal'.view.state = "error")
  BY <1>1, <1>2, <1>3
<1>5. modal'.view.state = "loaded" /\ modal.for.filter = "failed" => AreFailures(modal'.view.ids)
  BY <1>4 DEF LogsInv, FailuresFit, Loaded
<1> QED BY <1>1, <1>4, <1>5, LeavesKeeps

LEMMA CloseKeeps ==
  ASSUME LogsInv, Close
  PROVE  LogsInv'
<1>1. /\ UNCHANGED <<rows, last, requests, deletes, deleted, walk>>
      /\ modal' = [gen |-> modal.gen + 1, for |-> Nothing, view |-> Loading]
  BY DEF Close
<1>2. Nothing \in Fors /\ Nothing.kind = "none" /\ Loading \in Views /\ Loading.state = "loading"
  BY DEF Nothing, Fors, Filters, Loading, Views
<1>3. /\ modal' \in [gen : Nat, for : Fors, view : Views] /\ modal'.gen = modal.gen + 1
      /\ modal'.for.kind = "none" /\ modal'.view.state = "loading" /\ modal.gen \in Nat
  BY <1>1, <1>2 DEF LogsInv, LogsFit
<1>4. \A r \in requests' : r.gen <= modal.gen /\ r.gen \in Nat
  BY <1>1 DEF LogsInv, LogsFit, Asks
<1>5. LogsFit'
  BY <1>1, <1>3, <1>4 DEF LogsInv, LogsFit, HasPage
<1>6. FailuresFit'
  BY <1>1, <1>3 DEF LogsInv, FailuresFit, AreFailures, Loaded
<1> QED BY <1>5, <1>6 DEF LogsInv

(* The requests that the browser makes are for pages that there may be. *)
LEMMA OpenIsAsk ==
  ASSUME LogsInv, NEW filter \in Filters, Open(filter)
  PROVE  /\ Logs(1, filter) \in Fors /\ HasPage(Logs(1, filter)) /\ Ask(Logs(1, filter))
         /\ Logs(1, filter).page = 1
         /\ UNCHANGED <<rows, last, deletes, deleted, walk>>
<1>1. Ask(Logs(1, filter)) /\ UNCHANGED <<rows, last, deletes, deleted, walk>>
  BY DEF Open
<1>2. Logs(1, filter) \in Fors /\ Logs(1, filter).page = 1
  BY DEF Logs, Fors
<1> QED BY <1>1, <1>2 DEF HasPage

LEMMA OpenPeriodIsAsk ==
  ASSUME LogsInv, NEW i \in DOMAIN rows, OpenPeriod(i)
  PROVE  LET for == Period(rows[i].created) IN
         /\ for \in Fors /\ HasPage(for) /\ Ask(for) /\ for.kind = "period"
         /\ UNCHANGED <<rows, last, deletes, deleted, walk>>
<1>1. rows[i].created \in Nat
  BY LogsBounds DEF LogsInv, LogsFit, LogRow
<1>2. Ask(Period(rows[i].created)) /\ UNCHANGED <<rows, last, deletes, deleted, walk>>
  BY DEF OpenPeriod
<1> QED BY <1>1, <1>2 DEF Period, Fors, HasPage, Filters

LEMMA TurnIsAsk ==
  ASSUME LogsInv, NEW page \in {modal.for.page - 1, modal.for.page + 1}, Turn(page)
  PROVE  LET for == Logs(page, modal.for.filter) IN
         /\ for \in Fors /\ HasPage(for) /\ Ask(for) /\ page \in Nat /\ ShowsLogs
         /\ for.kind = "logs" /\ for.page = page /\ for.filter = modal.for.filter
         /\ UNCHANGED <<rows, last, deletes, deleted, walk>>
<1>1. /\ Ask(Logs(page, modal.for.filter)) /\ ShowsLogs
      /\ UNCHANGED <<rows, last, deletes, deleted, walk>>
      /\ page = modal.for.page + 1 \/ (page = modal.for.page - 1 /\ modal.for.page > 1)
  BY DEF Turn
<1>2. modal.for.page \in Nat /\ modal.for.filter \in Filters
  BY DEF LogsInv, LogsFit, Fors
<1>3. page \in Nat /\ page > 0
  BY <1>1, <1>2
<1> QED BY <1>1, <1>2, <1>3 DEF Logs, Fors, HasPage

LEMMA DeletedIsAsk ==
  ASSUME LogsInv, NEW d, Deleted(d)
  PROVE  /\ d \in deletes /\ d.at = "answered" /\ d.for \in Fors /\ HasPage(d.for) /\ Ask(d.for)
         /\ deletes' \subseteq deletes /\ UNCHANGED <<rows, last, deleted, walk>>
BY DEF Deleted, LogsInv, LogsFit, Drops

LEMMA DropsKeep ==
  ASSUME LogsInv, UNCHANGED <<rows, last, requests, modal>>, deletes' \subseteq Drops,
         \A d \in deletes' : HasPage(d.for)
  PROVE  LogsInv'
<1>1. last \in Nat /\ DOMAIN rows \subseteq 1..last /\ \A i \in DOMAIN rows : rows[i] \in LogRow
  BY DEF LogsInv, LogsFit
<1> QED BY <1>1, TableKeeps

LEMMA DeleteButtonFacts ==
  ASSUME LogsInv, NEW id \in Ids, DeleteButton(id)
  PROVE  /\ UNCHANGED <<rows, last, requests, modal, deleted, walk>>
         /\ deletes' \subseteq Drops /\ \A d \in deletes' : HasPage(d.for)
         /\ \A d \in deletes' \ deletes : d.at = "sent" /\ d.id = id
<1>0. PICK n \in 1..MaxDeletes :
        deletes' = deletes \cup {[no |-> n, id |-> id, for |-> modal.for, at |-> "sent"]}
  BY DEF DeleteButton
<1> DEFINE new == [no |-> n, id |-> id, for |-> modal.for, at |-> "sent"]
<1>1. /\ UNCHANGED <<rows, last, requests, modal, deleted, walk>> /\ ShowsLogs
      /\ deletes' = deletes \cup {new}
  BY <1>0 DEF DeleteButton
<1>2. id \in Nat /\ n \in Nat /\ modal.for \in Fors /\ HasPage(modal.for)
  BY <1>1, LogsAssumption DEF LogsInv, LogsFit, ShowsLogs, Ids
<1>3. new \in Drops /\ HasPage(new.for) /\ new.at = "sent" /\ new.id = id
  BY <1>2 DEF Drops
<1> HIDE DEF new
<1> QED BY <1>1, <1>3 DEF LogsInv, LogsFit

LEMMA DeleteResultFacts ==
  ASSUME LogsInv, NEW d, HandleDeleteResult(d)
  PROVE  /\ d \in deletes /\ d.at = "sent" /\ Without({d.id})
         /\ deletes' \subseteq Drops /\ \A e \in deletes' : HasPage(e.for)
         /\ UNCHANGED <<last, requests, modal, walk>>
<1> DEFINE new == [d EXCEPT !.at = "answered"]
<1>1. /\ d \in deletes /\ d.at = "sent" /\ Without({d.id})
      /\ deletes' = (deletes \ {d}) \cup {new} /\ UNCHANGED <<last, requests, modal, walk>>
  BY DEF HandleDeleteResult
<1>2. d \in Drops /\ HasPage(d.for)
  BY <1>1 DEF LogsInv, LogsFit
<1>3. new \in Drops /\ new.for = d.for
  BY <1>2 DEF Drops
<1> HIDE DEF new
<1> QED BY <1>1, <1>2, <1>3 DEF LogsInv, LogsFit

LEMMA LogsStepKeeps ==
  ASSUME LogsInv, [LogsNext]_logsVars
  PROVE  LogsInv'
<1>0. deletes \subseteq Drops /\ \A d \in deletes : HasPage(d.for)
  BY DEF LogsInv, LogsFit
<1>1. CASE \E row \in LogRow : Insert(row)
  BY <1>1, InsertKeeps
<1>2. CASE ClearStats
  <2>1. Without(DOMAIN rows) /\ UNCHANGED <<last, requests, deletes, modal, walk>>
    BY <1>2 DEF ClearStats
  <2> QED BY <1>0, <2>1, WithoutFacts, TableKeeps
<1>3. CASE \E filter \in Filters : Open(filter)
  BY <1>3, OpenIsAsk, AskKeeps
<1>4. ASSUME NEW i \in DOMAIN rows, OpenPeriod(i) PROVE LogsInv'
  BY <1>4, OpenPeriodIsAsk, AskKeeps
<1>5. ASSUME NEW page \in {modal.for.page - 1, modal.for.page + 1}, Turn(page) PROVE LogsInv'
  BY <1>5, TurnIsAsk, AskKeeps
<1>6. CASE Close
  BY <1>6, CloseKeeps
<1>7. CASE \E id \in Ids : DeleteButton(id)
  BY <1>7, DeleteButtonFacts, DropsKeep
<1>8. CASE Server
  <2>1. ASSUME NEW d \in deletes, HandleDeleteResult(d) PROVE LogsInv'
    BY <2>1, DeleteResultFacts, WithoutFacts, TableKeeps
  <2> QED BY <1>8, <2>1, PageQueryKeeps, CountQueryKeeps DEF Server
<1>9. CASE Answers
  <2>1. ASSUME NEW d \in deletes, Deleted(d) PROVE LogsInv'
    BY <2>1, DeletedIsAsk, AskKeeps
  <2> QED BY <1>9, <2>1, ArriveKeeps DEF Answers
<1>10. CASE Failures
  <2>1. ASSUME NEW d \in deletes, FailDelete(d) PROVE LogsInv'
    <3>1. UNCHANGED <<rows, last, requests, modal>> /\ deletes' \subseteq deletes
      BY <2>1 DEF FailDelete
    <3> QED BY <1>0, <3>1, DropsKeep
  <2> QED BY <1>10, <2>1, FailKeeps DEF Failures
<1>11. CASE UNCHANGED logsVars
  BY <1>0, <1>11, DropsKeep DEF logsVars
<1> QED BY <1>1, <1>2, <1>3, <1>4, <1>5, <1>6, <1>7, <1>8, <1>9, <1>10, <1>11 DEF LogsNext

----------------------------------------------------------------------------
(* Walks. *)
LEMMA WalkedFacts ==
  ASSUME LogsInv, WalkShape(walk), NEW r \in Asks
  PROVE  /\ WalkShape(Walked(r))
         /\ Walked(r).page > 0 => r.for.kind = "logs" /\ Walked(r).page = r.for.page
         /\ Walked(r).page > 1 => walk.page > 0 /\ Walked(r).page = walk.page + 1
<1> DEFINE ids == {r.ids[k] : k \in DOMAIN r.ids}
<1>1. ids \subseteq Nat /\ r.start \subseteq Nat
  BY DEF Asks
<1> HIDE DEF ids
<1>2. walk \in [page : Nat, start : SUBSET Nat, seen : SUBSET Nat]
  BY DEF WalkShape
<1>3. CASE r.for.kind = "logs" /\ r.for.page = 1
  <2>1. Walked(r) = [page |-> 1, start |-> r.start, seen |-> ids]
    BY <1>3 DEF Walked, ids
  <2> QED BY <1>1, <1>3, <2>1 DEF WalkShape
<1>4. CASE /\ ~(r.for.kind = "logs" /\ r.for.page = 1)
           /\ r.for.kind = "logs" /\ walk.page > 0 /\ r.for.page = walk.page + 1
  <2>1. Walked(r) = [walk EXCEPT !.page = @ + 1, !.seen = @ \cup ids]
    BY <1>4 DEF Walked, ids
  <2>2. Walked(r) = [page |-> walk.page + 1, start |-> walk.start, seen |-> walk.seen \cup ids]
    BY <1>2, <2>1
  <2>3. walk.page + 1 \in Nat /\ walk.seen \cup ids \subseteq Nat /\ walk.start \subseteq Nat
    <3>1. walk.page \in Nat /\ walk.start \subseteq Nat /\ walk.seen \subseteq Nat
      BY <1>2
    <3>2. walk.page + 1 \in Nat
      BY <3>1
    <3>3. walk.seen \cup ids \subseteq Nat
      BY <1>1, <3>1
    <3> QED BY <3>1, <3>2, <3>3
  <2>4. WalkShape(Walked(r))
    BY <2>2, <2>3 DEF WalkShape
  <2>5. Walked(r).page = walk.page + 1
    BY <2>2
  <2> QED BY <1>4, <2>4, <2>5
<1>5. CASE /\ ~(r.for.kind = "logs" /\ r.for.page = 1)
           /\ ~(r.for.kind = "logs" /\ walk.page > 0 /\ r.for.page = walk.page + 1)
  <2>1. Walked(r) = NoWalk
    BY <1>5 DEF Walked
  <2> QED BY <2>1 DEF WalkShape, NoWalk
<1> QED BY <1>3, <1>4, <1>5

(* What a walk becomes with the page of a request. *)
LEMMA WalkedUnseen ==
  ASSUME LogsInv, WalkShape(walk), NEW r \in Asks, Walked(r).page > 0
  PROVE  /\ Walked(r).page = 1 => Unseen(Walked(r)) = r.start \ {r.ids[k] : k \in DOMAIN r.ids}
         /\ Walked(r).page > 1 => Unseen(Walked(r)) = Unseen(walk) \ {r.ids[k] : k \in DOMAIN r.ids}
<1> DEFINE ids == {r.ids[k] : k \in DOMAIN r.ids}
<1>1. walk \in [page : Nat, start : SUBSET Nat, seen : SUBSET Nat]
  BY DEF WalkShape
<1>2. CASE r.for.kind = "logs" /\ r.for.page = 1
  <2>1. Walked(r) = [page |-> 1, start |-> r.start, seen |-> ids]
    BY <1>2 DEF Walked
  <2> QED BY <2>1 DEF Unseen
<1>3. CASE /\ ~(r.for.kind = "logs" /\ r.for.page = 1)
           /\ r.for.kind = "logs" /\ walk.page > 0 /\ r.for.page = walk.page + 1
  <2>1. Walked(r) = [walk EXCEPT !.page = @ + 1, !.seen = @ \cup ids]
    BY <1>3 DEF Walked
  <2> HIDE DEF ids
  <2>2. /\ Walked(r).page = walk.page + 1 /\ Walked(r).start = walk.start
        /\ Walked(r).seen = walk.seen \cup ids
    BY <1>1, <2>1
  <2>3. Walked(r).page # 1
    BY <1>1, <1>3, <2>2
  <2>4. Unseen(Walked(r)) = Unseen(walk) \ ids
    BY <2>2 DEF Unseen
  <2> QED BY <2>3, <2>4 DEF ids
<1>4. CASE /\ ~(r.for.kind = "logs" /\ r.for.page = 1)
           /\ ~(r.for.kind = "logs" /\ walk.page > 0 /\ r.for.page = walk.page + 1)
  <2>1. Walked(r) = NoWalk
    BY <1>4 DEF Walked
  <2> QED BY <2>1 DEF NoWalk
<1> QED BY <1>2, <1>3, <1>4

(* New results push the old ones back, never forward. *)
LEMMA PlaceStays ==
  ASSUME LogsInv, LogsInv', DOMAIN rows \subseteq DOMAIN rows', \A i \in DOMAIN rows : rows'[i] = rows[i],
         NEW filter, NEW i \in Matching(filter)
  PROVE  i \in Matching(filter)' /\ Rank(i, Matching(filter))' >= Rank(i, Matching(filter))
<1> DEFINE below == {j \in Matching(filter) : Before(j, i)}
<1>1. LogsFit /\ LogsFit'
  BY DEF LogsInv
<1>2. Matching(filter) \subseteq Matching(filter)'
  BY DEF Matching
<1>3. \A j \in Matching(filter) : Before(j, i) => Before(j, i)'
  BY DEF Before, Matching
<1>4. below \in SUBSET below'
  BY <1>2, <1>3
<1>5. IsFiniteSet(Matching(filter)')
  <2>1. Matching(filter)' \in SUBSET (1..last') /\ last' \in Nat
    BY <1>1 DEF LogsFit, Matching
  <2>2. IsFiniteSet(1..last')
    BY <2>1, FS_Interval
  <2> QED BY <2>1, <2>2, FS_Subset
<1>6. below' \in SUBSET (Matching(filter)')
  OBVIOUS
<1>7. IsFiniteSet(below')
  BY <1>5, <1>6, FS_Subset
<1>8. IsFiniteSet(below) /\ Cardinality(below) <= Cardinality(below')
  BY <1>4, <1>7, FS_Subset
<1>9. Rank(i, Matching(filter)) = Cardinality(below) /\ Rank(i, Matching(filter))' = Cardinality(below')
  BY DEF Rank
<1> HIDE DEF below
<1>10. Cardinality(below) \in Nat /\ Cardinality(below') \in Nat
  BY <1>7, <1>8, FS_CardinalityType
<1> QED BY <1>2, <1>8, <1>9, <1>10

LEMMA RankIsNat ==
  ASSUME LogsInv, NEW filter, NEW i \in Matching(filter)
  PROVE  /\ Rank(i, Matching(filter)) \in Nat /\ Cardinality(Matching(filter)) \in Nat
         /\ Rank(i, Matching(filter)) < Cardinality(Matching(filter))
<1>1. /\ LogsFit /\ Matching(filter) \in SUBSET DOMAIN rows /\ IsFiniteSet(Matching(filter))
      /\ Cardinality(Matching(filter)) \in Nat
  BY MatchingIsFinite DEF LogsInv
<1>2. Rank(i, Matching(filter)) \in 0..Cardinality(Matching(filter)) - 1
  BY <1>1, RankFacts
<1> QED BY <1>1, <1>2

LEMMA LateGrows ==
  ASSUME LogsInv, LogsInv', DOMAIN rows \subseteq DOMAIN rows', \A i \in DOMAIN rows : rows'[i] = rows[i],
         NEW filter \in Filters, NEW n \in Nat
  PROVE  Late[filter][n] \subseteq Late'[filter][n]
<1>1. SUFFICES ASSUME NEW i \in Late[filter][n] PROVE i \in Late'[filter][n]
  OBVIOUS
<1>2. i \in Matching(filter) /\ Rank(i, Matching(filter)) >= n
  BY <1>1 DEF Late
<1>3. i \in Matching(filter)' /\ Rank(i, Matching(filter))' >= Rank(i, Matching(filter))
  BY <1>2, PlaceStays
<1>4. Rank(i, Matching(filter)) \in Nat
  BY <1>2, RankIsNat
<1>5. Rank(i, Matching(filter))' \in Nat
  <2>1. (i \in Matching(filter) => Rank(i, Matching(filter)) \in Nat)'
    BY RankIsNat, PTL
  <2> QED BY <1>3, <2>1
<1> DEFINE old == Rank(i, Matching(filter))
           new == Rank(i, Matching(filter))'
<1>6. old \in Nat /\ new \in Nat /\ old >= n /\ new >= old
  BY <1>2, <1>3, <1>4, <1>5
<1>7. i \in Matching(filter)' /\ new >= n
  <2> HIDE DEF old, new
  <2>1. new >= n
    BY <1>6
  <2> QED BY <1>3, <2>1
<1> QED BY <1>7 DEF Late

(* Nothing about the walk moves, and no result is deleted. *)
LEMMA WalkStays ==
  ASSUME WalkInv, LogsInv', UNCHANGED <<requests, modal, walk>>,
         deleted' \in Nat, deleted' = 0 => deleted = 0 /\ DeletesFit',
         deleted' = 0 => DOMAIN rows \subseteq DOMAIN rows' /\ \A i \in DOMAIN rows : rows'[i] = rows[i]
  PROVE  WalkInv'
<1>1. WalkShape(walk)'
  BY DEF WalkInv, WalkFits, WalkShape
<1>2. ASSUME deleted' = 0
      PROVE  ViewFits' /\ \A r \in requests' : IsCurrent(r)' => RequestFits(r)'
  <2>1. /\ LogsInv /\ WalkShape(walk) /\ ViewFits /\ \A r \in requests : IsCurrent(r) => RequestFits(r)
    BY <1>2 DEF WalkInv, WalkFits
  <2>2. ASSUME NEW w, WalkShape(w), NEW filter \in Filters, Reaches(w, filter)
        PROVE  Unseen(w) \subseteq Late'[filter][w.page * PageSize]
    <3>1. w.page * PageSize \in Nat
      BY <2>2, NextPage DEF WalkShape
    <3> QED BY <1>2, <2>1, <2>2, <3>1, LateGrows DEF Reaches
  <2>3. ViewFits'
    <3>1. ASSUME ShowsLogs, walk.page > 0
          PROVE  Unseen(walk) \subseteq Late'[modal.for.filter][walk.page * PageSize]
      <4>1. Reaches(walk, modal.for.filter) /\ modal.for.filter \in Filters
        BY <2>1, <3>1 DEF ViewFits, LogsInv, LogsFit, Fors
      <4> QED BY <2>1, <2>2, <4>1
    <3> QED BY <2>1, <3>1 DEF ViewFits, ShowsLogs, Loaded, Complete, Unseen, Reaches
  <2>4. ASSUME NEW r \in requests, r.gen = modal.gen PROVE RequestFits(r)'
    <3>1. r \in Asks /\ r.for.filter \in Filters
      BY <2>1 DEF LogsInv, LogsFit, Asks, Fors
    <3>2. RequestFits(r)
      BY <2>1, <2>4 DEF IsCurrent
    <3> DEFINE w == Walked(r)
    <3>3. WalkShape(w)
      BY <2>1, <3>1, WalkedFacts
    <3>4. w' = w
      BY DEF Walked
    <3>5. /\ r.at = "rows" /\ w.page > 1 => Reaches(walk, r.for.filter)
          /\ r.at # "rows" /\ w.page > 0 => Reaches(w, r.for.filter)
          /\ r.at = "answered" /\ w.page > 0 => Complete(w, r.total)
      BY <3>2 DEF RequestFits
    <3>6. /\ r.at = "rows" /\ w.page > 1 => Unseen(walk) \subseteq Late'[r.for.filter][walk.page * PageSize]
          /\ r.at # "rows" /\ w.page > 0 => Unseen(w) \subseteq Late'[r.for.filter][w.page * PageSize]
      BY <2>1, <2>2, <3>1, <3>3, <3>5
    <3> HIDE DEF w
    <3>7. /\ r.at = "rows" /\ w'.page > 1 => Reaches(walk, r.for.filter)'
          /\ r.at # "rows" /\ w'.page > 0 => Reaches(w, r.for.filter)'
          /\ r.at = "answered" /\ w'.page > 0 => Complete(w, r.total)'
      BY <3>4, <3>5, <3>6 DEF Reaches, Unseen, Complete
    <3> QED BY <3>7 DEF RequestFits, w
  <2> QED BY <2>3, <2>4 DEF IsCurrent
<1> QED BY <1>1, <1>2 DEF WalkInv, WalkFits

LEMMA WalkIsKept ==
  ASSUME UNCHANGED <<rows, walk>>
  PROVE  /\ Late' = Late
         /\ \A r : RequestFits(r) => RequestFits(r)'
         /\ \A w, filter : Reaches(w, filter) => Reaches(w, filter)'
<1>1. Late' = Late
  BY DEF Late, Matching, Rank, Before
<1>2. ASSUME NEW w, NEW filter, Reaches(w, filter) PROVE Reaches(w, filter)'
  BY <1>1, <1>2 DEF Reaches, Unseen
<1>3. ASSUME NEW r, RequestFits(r) PROVE RequestFits(r)'
  <2>1. Walked(r)' = Walked(r)
    BY DEF Walked
  <2> QED BY <1>1, <1>3, <2>1 DEF RequestFits, Reaches, Unseen, Complete
<1> QED BY <1>1, <1>2, <1>3

(* A new request begins a walk, or goes on with it from the page shown. *)
LEMMA AskWalks ==
  ASSUME WalkInv, NEW for \in Fors, HasPage(for), Ask(for), UNCHANGED <<rows, last, deletes, deleted, walk>>,
         deleted = 0 /\ for.kind = "logs" /\ walk.page > 0 /\ for.page = walk.page + 1 =>
           Reaches(walk, for.filter)
  PROVE  WalkInv'
<1>1. LogsInv /\ LogsInv'
  BY AskKeeps DEF WalkInv
<1>2. WalkShape(walk)' /\ deleted' \in Nat /\ WalkShape(walk)
  BY DEF WalkInv, WalkFits, WalkShape
<1>3. /\ modal'.gen = modal.gen + 1 /\ modal'.view.state = "loading"
      /\ requests' = requests \cup {NewRequest(for)}
  BY <1>1, AskFacts DEF LogsInv
<1>4. /\ NewRequest(for) \in Asks /\ NewRequest(for).at = "rows" /\ NewRequest(for).for = for
  BY <1>1, NewRequestFacts DEF LogsInv
<1>5. ASSUME deleted = 0, NEW r \in requests', r.gen = modal'.gen PROVE RequestFits(r)'
  <2>1. r = NewRequest(for)
    <3>1. modal.gen \in Nat /\ \A t \in requests : t.gen <= modal.gen /\ t.gen \in Nat
      BY <1>1 DEF LogsInv, LogsFit, Asks
    <3> QED BY <1>3, <1>5, <3>1
  <2>2. r \in Asks /\ r.at = "rows" /\ r.for = for
    BY <1>4, <2>1
  <2>3. ASSUME Walked(r).page > 1 PROVE Reaches(walk, r.for.filter)
    <3>1. WalkShape(Walked(r)) /\ (Walked(r).page > 0 => r.for.kind = "logs" /\ Walked(r).page = r.for.page)
          /\ walk.page > 0 /\ Walked(r).page = walk.page + 1
      BY <1>1, <1>2, <2>2, <2>3, WalkedFacts
    <3>2. Walked(r).page > 0
      BY <2>3, <3>1 DEF WalkShape
    <3> QED BY <1>5, <2>2, <3>1, <3>2
  <2>4. RequestFits(r)
    BY <2>2, <2>3 DEF RequestFits
  <2> QED BY <2>4, WalkIsKept
<1>6. ~ShowsLogs'
  BY <1>3 DEF ShowsLogs, Loaded
<1>7. deleted' = 0 => DeletesFit'
  BY DEF WalkInv, WalkFits, DeletesFit
<1> QED BY <1>1, <1>2, <1>5, <1>6, <1>7 DEF WalkInv, WalkFits, ViewFits, IsCurrent

LEMMA TurnWalks ==
  ASSUME WalkInv, NEW page \in {modal.for.page - 1, modal.for.page + 1}, Turn(page)
  PROVE  WalkInv'
<1> DEFINE for == Logs(page, modal.for.filter)
<1>1. /\ for \in Fors /\ HasPage(for) /\ Ask(for) /\ ShowsLogs /\ for.page = page
      /\ for.filter = modal.for.filter /\ UNCHANGED <<rows, last, deletes, deleted, walk>>
  BY TurnIsAsk DEF WalkInv
<1>2. deleted = 0 /\ walk.page > 0 => Reaches(walk, modal.for.filter)
  BY <1>1 DEF WalkInv, WalkFits, ViewFits
<1> HIDE DEF for
<1> QED BY <1>1, <1>2, AskWalks

LEMMA OpenWalks ==
  ASSUME WalkInv, NEW filter \in Filters, Open(filter)
  PROVE  WalkInv'
<1>1. /\ Logs(1, filter) \in Fors /\ HasPage(Logs(1, filter)) /\ Ask(Logs(1, filter))
      /\ Logs(1, filter).page = 1 /\ UNCHANGED <<rows, last, deletes, deleted, walk>>
  BY OpenIsAsk DEF WalkInv
<1>2. walk.page \in Nat
  BY DEF WalkInv, WalkFits, WalkShape
<1>3. ~(walk.page > 0 /\ 1 = walk.page + 1)
  BY <1>2
<1> QED BY <1>1, <1>3, AskWalks

LEMMA OpenPeriodWalks ==
  ASSUME WalkInv, NEW i \in DOMAIN rows, OpenPeriod(i)
  PROVE  WalkInv'
BY OpenPeriodIsAsk, AskWalks DEF WalkInv

LEMMA CloseWalks ==
  ASSUME WalkInv, Close
  PROVE  WalkInv'
<1>1. LogsInv /\ LogsInv'
  BY CloseKeeps DEF WalkInv
<1>2. /\ UNCHANGED <<rows, last, requests, deletes, deleted, walk>>
      /\ modal'.gen = modal.gen + 1 /\ modal'.view.state = "loading"
  BY DEF Close, Loading
<1>3. modal.gen \in Nat /\ \A t \in requests : t.gen <= modal.gen /\ t.gen \in Nat
  BY <1>1 DEF LogsInv, LogsFit, Asks
<1>4. \A t \in requests' : t.gen # modal'.gen
  BY <1>2, <1>3
<1>5. ~ShowsLogs'
  BY <1>2 DEF ShowsLogs, Loaded
<1>6. WalkShape(walk)' /\ deleted' \in Nat /\ (deleted' = 0 => DeletesFit')
  BY <1>2 DEF WalkInv, WalkFits, WalkShape, DeletesFit
<1> QED BY <1>1, <1>4, <1>5, <1>6 DEF WalkInv, WalkFits, ViewFits, IsCurrent

LEMMA FailWalks ==
  ASSUME WalkInv, NEW r, Fail(r)
  PROVE  WalkInv'
<1>1. LogsInv /\ LogsInv'
  BY FailKeeps DEF WalkInv
<1>2. /\ r \in requests /\ requests' = requests \ {r} /\ UNCHANGED <<rows, last, deletes, deleted, walk>>
      /\ modal' = modal \/ modal' = [modal EXCEPT !.view = Error]
  BY DEF Fail
<1>3. modal \in [gen : Nat, for : Fors, view : Views]
  BY <1>1 DEF LogsInv, LogsFit
<1>4. modal'.gen = modal.gen /\ (modal' = modal \/ modal'.view.state = "error")
  BY <1>2, <1>3 DEF Error
<1>5. ASSUME deleted = 0 PROVE ViewFits'
  <2>1. CASE modal' = modal
    BY <1>2, <1>5, <2>1, WalkIsKept DEF WalkInv, WalkFits, ViewFits, ShowsLogs, Loaded, Complete, Unseen, Reaches
  <2>2. CASE modal'.view.state = "error"
    BY <2>2 DEF ViewFits, ShowsLogs, Loaded
  <2> QED BY <1>4, <2>1, <2>2
<1>6. ASSUME deleted = 0, NEW s \in requests', s.gen = modal'.gen PROVE RequestFits(s)'
  BY <1>2, <1>4, <1>6, WalkIsKept DEF WalkInv, WalkFits, IsCurrent
<1>7. WalkShape(walk)' /\ deleted' \in Nat /\ (deleted' = 0 => DeletesFit')
  BY <1>2 DEF WalkInv, WalkFits, WalkShape, DeletesFit
<1> QED BY <1>1, <1>2, <1>5, <1>6, <1>7 DEF WalkInv, WalkFits, IsCurrent

(* The answer that arrives is the page that the walk is about. *)
LEMMA ArriveWalks ==
  ASSUME WalkInv, NEW r, Arrive(r)
  PROVE  WalkInv'
<1>1. LogsInv /\ LogsInv'
  BY ArriveKeeps DEF WalkInv
<1>2. /\ r \in requests /\ r.at = "answered" /\ requests' = requests \ {r}
      /\ UNCHANGED <<rows, last, deletes, deleted>>
  BY DEF Arrive
<1>3. /\ modal \in [gen : Nat, for : Fors, view : Views] /\ r \in Asks /\ requests \subseteq Asks
      /\ \A t, u \in requests : t.gen = u.gen => t = u
  BY <1>1, <1>2 DEF LogsInv, LogsFit
<1>4. deleted' \in Nat /\ (deleted' = 0 => DeletesFit') /\ WalkShape(walk)
  BY <1>2 DEF WalkInv, WalkFits, WalkShape, DeletesFit
<1>5. CASE r.gen # modal.gen
  <2>1. UNCHANGED <<modal, walk>>
    BY <1>5 DEF Arrive, IsCurrent
  <2>2. ASSUME deleted = 0 PROVE ViewFits'
    BY <1>2, <2>1, <2>2, WalkIsKept DEF WalkInv, WalkFits, ViewFits, ShowsLogs, Loaded, Complete, Unseen, Reaches
  <2>3. ASSUME deleted = 0, NEW s \in requests', s.gen = modal'.gen PROVE RequestFits(s)'
    BY <1>2, <2>1, <2>3, WalkIsKept DEF WalkInv, WalkFits, IsCurrent
  <2>4. WalkShape(walk)'
    BY <1>4, <2>1 DEF WalkShape
  <2> QED BY <1>1, <1>2, <1>4, <2>2, <2>3, <2>4 DEF WalkInv, WalkFits, IsCurrent
<1>6. CASE r.gen = modal.gen
  <2>1. /\ modal' = [modal EXCEPT !.view = [state |-> "loaded", ids |-> r.ids, total |-> r.total]]
        /\ walk' = Walked(r)
    BY <1>6 DEF Arrive, IsCurrent
  <2>2. /\ modal'.gen = modal.gen /\ modal'.for = modal.for /\ modal'.view.total = r.total
    BY <1>3, <2>1
  <2>3. r.for = modal.for
    BY <1>1, <1>2, <1>6 DEF LogsInv, LogsFit
  <2>4. WalkShape(Walked(r)) /\ (Walked(r).page > 0 => Walked(r).page = r.for.page)
    BY <1>1, <1>3, <1>4, WalkedFacts
  <2>5. WalkShape(walk)'
    BY <2>1, <2>4 DEF WalkShape
  <2>6. ASSUME deleted = 0 PROVE ViewFits'
    <3>1. RequestFits(r)
      BY <1>2, <1>6, <2>6 DEF WalkInv, WalkFits, IsCurrent
    <3>2. Walked(r).page > 0 => Reaches(Walked(r), r.for.filter) /\ Complete(Walked(r), r.total)
      BY <1>2, <3>1 DEF RequestFits
    <3>3. Late' = Late
      BY <1>2 DEF Late, Matching, Rank, Before
    <3>4. walk'.page > 0 => Reaches(walk, modal.for.filter)'
      BY <2>1, <2>2, <2>3, <3>2, <3>3 DEF Reaches, Unseen
    <3>5. walk'.page > 0 => Complete(walk, modal.view.total)'
      BY <2>1, <2>2, <3>2 DEF Complete, Unseen
    <3> QED BY <2>1, <2>2, <2>3, <2>4, <3>4, <3>5 DEF ViewFits
  <2>7. \A s \in requests' : s.gen # modal'.gen
    BY <1>2, <1>3, <1>6, <2>2
  <2> QED BY <1>1, <1>2, <1>4, <2>5, <2>6, <2>7 DEF WalkInv, WalkFits, IsCurrent
<1> QED BY <1>5, <1>6

----------------------------------------------------------------------------
LEMMA PageCovers ==
  ASSUME LogsFit, NEW filter, NEW size \in Nat, NEW offset \in Nat, NEW i \in Matching(filter),
         offset <= Rank(i, Matching(filter)), Rank(i, Matching(filter)) < offset + size
  PROVE  \E k \in DOMAIN Page(filter, size, offset) : Page(filter, size, offset)[k] = i
BY PageFacts

(* A page of the logs: what it leaves unseen sorts after it. *)
LEMMA AfterThePage ==
  ASSUME LogsInv, NEW filter \in Filters, NEW page \in Nat, page > 0, NEW i \in Matching(filter),
         Rank(i, Matching(filter)) >= (page - 1) * PageSize,
         LET ids == Page(filter, PageSize, Offset(page, PageSize)) IN \A k \in DOMAIN ids : ids[k] # i
  PROVE  i \in Late[filter][page * PageSize]
<1> DEFINE ids == Page(filter, PageSize, Offset(page, PageSize))
           rank == Rank(i, Matching(filter))
<1>1. PageSize \in Nat /\ Offset(page, PageSize) = (page - 1) * PageSize
  BY LogsBounds DEF Offset
<1>2. (page - 1) * PageSize \in Nat /\ page * PageSize = (page - 1) * PageSize + PageSize
      /\ page * PageSize \in Nat
  <2>1. page - 1 \in Nat /\ page = (page - 1) + 1
    OBVIOUS
  <2> QED BY <2>1, NextPage
<1>3. rank \in Nat
  BY RankIsNat
<1>4. ~(Offset(page, PageSize) <= rank /\ rank < Offset(page, PageSize) + PageSize)
  <2> DEFINE offset == Offset(page, PageSize)
  <2>1. offset \in Nat
    BY <1>1, <1>2
  <2> HIDE DEF offset
  <2>2. offset <= rank /\ rank < offset + PageSize =>
          \E k \in DOMAIN Page(filter, PageSize, offset) : Page(filter, PageSize, offset)[k] = i
    BY <1>1, <2>1, PageCovers DEF LogsInv
  <2>3. \A k \in DOMAIN Page(filter, PageSize, offset) : Page(filter, PageSize, offset)[k] # i
    BY DEF offset
  <2>4. ~(offset <= rank /\ rank < offset + PageSize)
    BY <2>2, <2>3
  <2> QED BY <2>4 DEF offset
<1>5. rank >= page * PageSize
  <2> HIDE DEF rank
  <2>1. rank >= (page - 1) * PageSize
    BY DEF rank
  <2> QED BY <1>1, <1>2, <1>3, <1>4, <2>1
<1> QED BY <1>2, <1>5 DEF Late

LEMMA PageWalks ==
  ASSUME WalkInv, NEW r, GetResultsForProbePage(r)
  PROVE  WalkInv'
<1> DEFINE filter == r.for.filter
           S == Matching(filter)
           ids == Page(filter, Size(r.for), Offset(r.for.page, Size(r.for)))
           s == [r EXCEPT !.at = "count", !.start = S, !.ids = ids]
<1>1. LogsInv /\ LogsInv'
  BY PageQueryKeeps DEF WalkInv
<1>2. /\ r \in requests /\ r.at = "rows" /\ r \in Asks /\ requests' = (requests \ {r}) \cup {s}
      /\ UNCHANGED <<rows, last, deletes, modal, deleted, walk>>
  BY <1>1, PageQuery
<1>3. WalkShape(walk)' /\ WalkShape(walk) /\ deleted' \in Nat /\ (deleted' = 0 => DeletesFit')
  BY <1>2 DEF WalkInv, WalkFits, WalkShape, DeletesFit
<1>4. ids \in Seq(Nat) /\ S \subseteq Nat
  BY <1>1, <1>2, OffsetFacts, PageFacts, MatchingIsFinite DEF LogsInv
<1>5. r.for.page \in Nat /\ r.for.page > 0 /\ filter \in Filters
  BY <1>1, <1>2, OffsetFacts DEF Fors
<1> HIDE DEF ids, S, filter
<1>6. /\ s \in Asks /\ s.gen = r.gen /\ s.for = r.for /\ s.at = "count" /\ s.ids = ids /\ s.start = S
  BY <1>2, <1>4 DEF Asks
<1>7. Walked(s).page = Walked(r).page
  BY <1>6 DEF Walked
<1> HIDE DEF s
<1>8. ASSUME deleted = 0, r.gen = modal.gen PROVE RequestFits(s)
  <2>1. r.at = "rows" /\ Walked(r).page > 1 => Reaches(walk, r.for.filter)
    BY <1>2, <1>8 DEF WalkInv, WalkFits, IsCurrent, RequestFits
  <2>2. ASSUME Walked(s).page > 0 PROVE Reaches(Walked(s), s.for.filter)
    <3>1. /\ s.for.kind = "logs" /\ Walked(s).page = s.for.page
          /\ Walked(s).page > 1 => walk.page > 0 /\ Walked(s).page = walk.page + 1
      BY <1>1, <1>3, <1>6, <2>2, WalkedFacts
    <3>2. ids = Page(filter, PageSize, Offset(s.for.page, PageSize)) /\ s.for.page = r.for.page
      BY <1>6, <3>1 DEF ids, Size
    <3>3. /\ Walked(s).page = 1 => Unseen(Walked(s)) = S \ {ids[k] : k \in DOMAIN ids}
          /\ Walked(s).page > 1 => Unseen(Walked(s)) = Unseen(walk) \ {ids[k] : k \in DOMAIN ids}
      BY <1>1, <1>3, <1>6, <2>2, WalkedUnseen
    <3>4. ASSUME NEW i \in Unseen(Walked(s))
          PROVE  /\ i \in S /\ (\A k \in DOMAIN ids : ids[k] # i)
                 /\ Rank(i, S) >= (s.for.page - 1) * PageSize
      <4>1. CASE Walked(s).page = 1
        <5>1. i \in S /\ \A k \in DOMAIN ids : ids[k] # i
          BY <3>3, <3>4, <4>1
        <5>2. Rank(i, S) \in Nat
          BY <1>1, <5>1, RankIsNat DEF S
        <5>3. (s.for.page - 1) * PageSize = 0
          BY <3>1, <4>1, LogsBounds
        <5> QED BY <5>1, <5>2, <5>3
      <4>2. CASE Walked(s).page > 1
        <5>1. i \in Unseen(walk) /\ \A k \in DOMAIN ids : ids[k] # i
          BY <3>3, <3>4, <4>2
        <5>2. walk.page \in Nat
          BY <1>3 DEF WalkShape
        <5>3. i \in Late[filter][walk.page * PageSize]
          BY <1>2, <1>7, <2>1, <4>2, <5>1 DEF Reaches, filter
        <5>4. walk.page * PageSize \in Nat
          BY <5>2, NextPage
        <5>5. i \in S /\ Rank(i, S) >= walk.page * PageSize
          BY <1>5, <5>3, <5>4 DEF Late, S
        <5>6. s.for.page - 1 = walk.page
          BY <3>1, <4>2, <5>2
        <5> QED BY <5>1, <5>5, <5>6
      <4>3. Walked(s).page \in Nat
        BY <1>5, <3>1, <3>2
      <4> QED BY <2>2, <4>1, <4>2, <4>3
    <3>5. ASSUME NEW i \in Unseen(Walked(s)) PROVE i \in Late[filter][s.for.page * PageSize]
      <4> DEFINE page == s.for.page
      <4>1. page \in Nat /\ page > 0
        BY <1>5, <3>2
      <4>2. i \in Matching(filter) /\ Rank(i, Matching(filter)) >= (page - 1) * PageSize
        BY <3>4, <3>5 DEF S
      <4>3. LET list == Page(filter, PageSize, Offset(page, PageSize)) IN \A k \in DOMAIN list : list[k] # i
        BY <3>2, <3>4, <3>5
      <4> HIDE DEF page
      <4>4. i \in Late[filter][page * PageSize]
        BY <1>1, <1>5, <4>1, <4>2, <4>3, AfterThePage
      <4> QED BY <4>4 DEF page
    <3> QED BY <1>6, <3>1, <3>5 DEF Reaches, filter
  <2> QED BY <1>6, <2>2 DEF RequestFits
<1>9. ASSUME deleted = 0 PROVE ViewFits'
  BY <1>2, <1>9, WalkIsKept DEF WalkInv, WalkFits, ViewFits, ShowsLogs, Loaded, Complete, Unseen, Reaches
<1>10. ASSUME deleted = 0, NEW t \in requests', t.gen = modal'.gen PROVE RequestFits(t)'
  <2>1. RequestFits(t)
    BY <1>2, <1>6, <1>8, <1>10 DEF WalkInv, WalkFits, IsCurrent
  <2> QED BY <1>2, <2>1, WalkIsKept
<1> QED BY <1>1, <1>2, <1>3, <1>9, <1>10 DEF WalkInv, WalkFits, IsCurrent

(* The count comes after the page: what is still unseen is counted. *)
LEMMA CountWalks ==
  ASSUME WalkInv, NEW r, GetResultsCount(r)
  PROVE  WalkInv'
<1> DEFINE total == Cardinality(Matching(r.for.filter))
           s == [r EXCEPT !.at = "answered", !.total = total]
<1>1. LogsInv /\ LogsInv'
  BY CountQueryKeeps DEF WalkInv
<1>2. /\ r \in requests /\ r.at = "count" /\ r \in Asks /\ requests' = (requests \ {r}) \cup {s}
      /\ UNCHANGED <<rows, last, deletes, modal, deleted, walk>>
  BY <1>1, CountQuery
<1>3. WalkShape(walk)' /\ WalkShape(walk) /\ deleted' \in Nat /\ (deleted' = 0 => DeletesFit')
  BY <1>2 DEF WalkInv, WalkFits, WalkShape, DeletesFit
<1>4. total \in Nat /\ r.for.filter \in Filters
  BY <1>1, <1>2, MatchingIsFinite DEF LogsInv, Asks, Fors
<1> HIDE DEF total
<1>5. /\ s.gen = r.gen /\ s.for = r.for /\ s.at = "answered" /\ s.ids = r.ids /\ s.start = r.start
      /\ s.total = total
  BY <1>2, <1>4 DEF Asks
<1>6. Walked(s) = Walked(r)
  BY <1>5 DEF Walked
<1> HIDE DEF s
<1>7. ASSUME deleted = 0, r.gen = modal.gen PROVE RequestFits(s)
  <2> DEFINE w == Walked(r)
  <2>1. w.page > 0 => Reaches(w, r.for.filter)
    BY <1>2, <1>7 DEF WalkInv, WalkFits, IsCurrent, RequestFits
  <2>2. WalkShape(w)
    BY <1>1, <1>2, <1>3, WalkedFacts
  <2> HIDE DEF w
  <2>3. ASSUME w.page > 0, NEW i \in Unseen(w) PROVE total > w.page * PageSize
    <3> DEFINE S == Matching(r.for.filter)
    <3>1. w.page * PageSize \in Nat
      BY <2>2, NextPage DEF WalkShape
    <3>2. i \in Late[r.for.filter][w.page * PageSize]
      BY <2>1, <2>3 DEF Reaches
    <3>3. i \in S /\ Rank(i, S) >= w.page * PageSize
      BY <1>4, <3>1, <3>2 DEF Late
    <3>4. Rank(i, S) \in Nat /\ Rank(i, S) < total
      BY <1>1, <3>3, RankIsNat DEF total
    <3> HIDE DEF S
    <3> QED BY <1>4, <3>1, <3>3, <3>4
  <2>4. w.page > 0 => Complete(w, total)
    BY <2>3 DEF Complete
  <2> QED BY <1>5, <1>6, <2>1, <2>4 DEF RequestFits, w
<1>8. ASSUME deleted = 0 PROVE ViewFits'
  BY <1>2, <1>8, WalkIsKept DEF WalkInv, WalkFits, ViewFits, ShowsLogs, Loaded, Complete, Unseen, Reaches
<1>9. ASSUME deleted = 0, NEW t \in requests', t.gen = modal'.gen PROVE RequestFits(t)'
  <2>1. RequestFits(t)
    BY <1>2, <1>5, <1>7, <1>9 DEF WalkInv, WalkFits, IsCurrent
  <2> QED BY <1>2, <2>1, WalkIsKept
<1> QED BY <1>1, <1>2, <1>3, <1>8, <1>9 DEF WalkInv, WalkFits, IsCurrent

----------------------------------------------------------------------------
(* Once a result was deleted there is nothing left to keep. *)
LEMMA DeletedWalks ==
  ASSUME WalkInv, LogsInv', UNCHANGED walk, deleted' \in Nat, deleted' # 0
  PROVE  WalkInv'
BY DEF WalkInv, WalkFits, WalkShape

LEMMA WalkStepKeeps ==
  ASSUME WalkInv, [LogsNext]_logsVars
  PROVE  WalkInv'
<1>0. LogsInv /\ LogsInv' /\ deleted \in Nat /\ (deleted = 0 => DeletesFit)
  BY LogsStepKeeps DEF WalkInv, WalkFits
<1>1. ASSUME NEW row \in LogRow, Insert(row) PROVE WalkInv'
  <2>1. /\ DOMAIN rows \subseteq DOMAIN rows' /\ \A i \in DOMAIN rows : rows'[i] = rows[i]
        /\ UNCHANGED <<requests, deletes, modal, deleted, walk>>
    BY <1>0, <1>1, InsertKeeps
  <2>2. deleted = 0 => DeletesFit'
    BY <1>0, <2>1 DEF DeletesFit
  <2> QED BY <1>0, <2>1, <2>2, WalkStays
<1>2. CASE ClearStats
  <2>1. Without(DOMAIN rows) /\ DOMAIN rows # {} /\ UNCHANGED <<last, requests, deletes, modal, walk>>
    BY <1>2 DEF ClearStats
  <2>2. deleted' = deleted + 1
    BY <1>0, <2>1, WithoutFacts
  <2> QED BY <1>0, <2>1, <2>2, DeletedWalks
<1>3. CASE \E filter \in Filters : Open(filter)
  BY <1>3, OpenWalks
<1>4. CASE \E i \in DOMAIN rows : OpenPeriod(i)
  BY <1>4, OpenPeriodWalks
<1>5. CASE \E page \in {modal.for.page - 1, modal.for.page + 1} : Turn(page)
  BY <1>5, TurnWalks
<1>6. CASE Close
  BY <1>6, CloseWalks
<1>7. ASSUME NEW id \in Ids, DeleteButton(id) PROVE WalkInv'
  <2>1. /\ UNCHANGED <<rows, last, requests, modal, deleted, walk>>
        /\ \A d \in deletes' \ deletes : d.at = "sent" /\ d.id = id
    BY <1>0, <1>7, DeleteButtonFacts
  <2>2. deleted = 0 => DeletesFit'
    BY <1>0, <2>1 DEF DeletesFit
  <2> QED BY <1>0, <2>1, <2>2, WalkStays
<1>8. ASSUME NEW d \in deletes, HandleDeleteResult(d) PROVE WalkInv'
  <2>1. d.at = "sent" /\ Without({d.id}) /\ UNCHANGED <<last, requests, modal, walk>>
    BY <1>0, <1>8, DeleteResultFacts
  <2>2. deleted' = deleted + 1
    BY <1>0, <2>1, WithoutFacts
  <2>3. deleted' # 0 /\ deleted' \in Nat
    BY <1>0, <2>2
  <2> QED BY <1>0, <2>1, <2>3, DeletedWalks
<1>9. ASSUME NEW d, Deleted(d) PROVE WalkInv'
  <2>1. /\ d \in deletes /\ d.at = "answered" /\ d.for \in Fors /\ HasPage(d.for) /\ Ask(d.for)
        /\ deletes' \subseteq deletes /\ UNCHANGED <<rows, last, deleted, walk>>
    BY <1>0, <1>9, DeletedIsAsk
  <2>2. deleted' # 0
    BY <1>0, <2>1 DEF DeletesFit
  <2> QED BY <1>0, <2>1, <2>2, DeletedWalks
<1>10. CASE Server
  BY <1>8, <1>10, PageWalks, CountWalks DEF Server
<1>11. CASE Answers
  BY <1>9, <1>11, ArriveWalks DEF Answers
<1>12. ASSUME NEW d \in deletes, FailDelete(d) PROVE WalkInv'
  <2>1. UNCHANGED <<rows, last, requests, modal, deleted, walk>> /\ deletes' \subseteq deletes
    BY <1>12 DEF FailDelete
  <2>2. deleted = 0 => DeletesFit'
    BY <1>0, <2>1 DEF DeletesFit
  <2> QED BY <1>0, <2>1, <2>2, WalkStays
<1>13. CASE Failures
  BY <1>12, <1>13, FailWalks DEF Failures
<1>14. CASE UNCHANGED logsVars
  <2>1. UNCHANGED <<rows, requests, deletes, modal, deleted, walk>>
    BY <1>14 DEF logsVars
  <2>2. deleted = 0 => DeletesFit'
    BY <1>0, <2>1 DEF DeletesFit
  <2> QED BY <1>0, <2>1, <2>2, WalkStays
<1> QED BY <1>1, <1>2, <1>3, <1>4, <1>5, <1>6, <1>7, <1>10, <1>11, <1>13, <1>14 DEF LogsNext

----------------------------------------------------------------------------
(* The generations, the failures and the walk of the request logs.  app.js *)
(* drops the answers of overtaken requests, handler.go counts after it has *)
(* read the page.                                                          *)
THEOREM LogsInvariant == LogsSpec => []WalkInv
BY LogsInitIsFine, WalkStepKeeps, PTL DEF LogsSpec

(* Under the failure filter, and for a downtime period, the dialog lists   *)
(* failures only, however the answers are ordered.                         *)
THEOREM FailuresAreShown == LogsSpec => []ShownIsAsked
<1>1. WalkInv => ShownIsAsked
  BY DEF WalkInv, LogsInv, FailuresFit, AreFailures, ShownIsAsked
<1> QED BY <1>1, LogsInvariant, PTL

(* Who turns the pages to the last one has seen all results that were      *)
(* there at the start, if none was deleted, for every size of the pages.   *)
THEOREM WalksAreComplete == LogsSpec => []WalksMissNothing
<1>1. WalkInv => WalksMissNothing
  <2> SUFFICES ASSUME WalkInv, deleted = 0, ShowsLogs, walk.page > 0, walk.page >= Pages
               PROVE  walk.start \subseteq walk.seen
    BY DEF WalksMissNothing
  <2>1. Complete(walk, modal.view.total)
    BY DEF WalkInv, WalkFits, ViewFits
  <2>2. walk.page \in Nat /\ modal.view.total \in Nat
    BY DEF WalkInv, WalkFits, WalkShape, LogsInv, LogsFit, Views
  <2>3. TotalPages(modal.view.total) \in Int
    BY <2>2, LogsBounds DEF TotalPages
  <2>4. modal.view.total <= walk.page * PageSize
    BY <2>2, <2>3, PagesSuffice DEF Pages
  <2>5. walk.page * PageSize \in Nat
    BY <2>2, NextPage
  <2>6. Unseen(walk) = {}
    BY <2>1, <2>2, <2>4, <2>5 DEF Complete
  <2> QED BY <2>6 DEF Unseen
<1> QED BY <1>1, LogsInvariant, PTL

----------------------------------------------------------------------------
(* Types, and times. *)
ReportsInv == Schema /\ TypeOK

LEMMA TimesArePositive ==
  /\ SecLen \in Nat /\ SecLen > 0 /\ HourLen \in Nat /\ HourLen > 0 /\ DayLen \in Nat /\ DayLen > 0
  /\ Start \in Nat /\ Start > 0 /\ End \in Nat /\ Start <= End /\ Changes \subseteq Nat /\ MaxEdits \in Nat
BY TimeAssumption

LEMMA UpdateProbeKeepsSchema ==
  ASSUME Schema, NEW id \in ProbeIds, NEW m \in Models, NEW e \in BOOLEAN, UpdateProbe(id, m, e)
  PROVE  Schema'
BY DEF UpdateProbe, Schema, StoreTypeOK, Probe, IdsWithinSeq, ReferentialIntegrity,
   ProbesHaveProvider, ResultsHaveProbe

LEMMA DeleteProbesByProviderKeepsSchema ==
  ASSUME Schema, NEW pr \in ProviderIds, DeleteProbesByProvider(pr)
  PROVE  Schema' /\ OldResultsOnly
<1> DEFINE gone == {i \in DOMAIN probes : probes[i].provider = pr}
<1>1. /\ DOMAIN probes' = DOMAIN probes \ gone
      /\ \A i \in DOMAIN probes' : probes'[i] = probes[i]
      /\ DOMAIN results' = {r \in DOMAIN results : results[r].probe \notin gone}
      /\ \A r \in DOMAIN results' : results'[r] = results[r]
  BY WithoutProbesFacts DEF DeleteProbesByProvider
<1> HIDE DEF gone
<1> QED BY <1>1 DEF DeleteProbesByProvider, Schema, StoreTypeOK, IdsWithinSeq, ReferentialIntegrity,
        ProbesHaveProvider, ResultsHaveProbe, OldResultsOnly

LEMMA EditFacts ==
  ASSUME Schema, Edit
  PROVE  Schema' /\ OldResultsOnly
<1>1. CASE UserEdit
  BY <1>1, UserEditKeepsSchema, UserEditEvolves
<1>2. ASSUME NEW id \in ProbeIds, NEW m \in Models, NEW e \in BOOLEAN, UpdateProbe(id, m, e)
      PROVE  Schema' /\ OldResultsOnly
  <2>1. OldResultsOnly
    BY <1>2 DEF UpdateProbe, OldResultsOnly
  <2> QED BY <1>2, <2>1, UpdateProbeKeepsSchema
<1>3. ASSUME NEW pr \in ProviderIds, DeleteProbesByProvider(pr)
      PROVE  Schema' /\ OldResultsOnly
  BY <1>3, DeleteProbesByProviderKeepsSchema
<1> QED BY <1>1, <1>2, <1>3 DEF Edit

LEMMA RowIsAsked ==
  ASSUME Schema, NEW id \in DOMAIN probes
  PROVE  Row(id) \in Asked
BY DEF Schema, StoreTypeOK, Probe, Row, Asked

LEMMA ReportsInitIsFine == Init => ReportsInv
<1> SUFFICES ASSUME Init PROVE ReportsInv
  OBVIOUS
<1>1. Schema
  BY StoreInitIsFine DEF Init
<1>2. created = [i \in {} |-> 0] /\ results = [i \in {} |-> 0]
  BY DEF Init, StoreInit
<1> QED BY <1>1, <1>2, TimesArePositive DEF ReportsInv, TypeOK, Init, Schema

LEMMA ReportsStepIsFine == ReportsInv /\ [Next]_vars => ReportsInv'
<1> SUFFICES ASSUME ReportsInv, [Next]_vars PROVE ReportsInv'
  OBVIOUS
<1>0. Schema /\ TypeOK
  BY DEF ReportsInv
<1> USE TimesArePositive
<1>1. CASE UNCHANGED vars
  BY <1>0, <1>1 DEF vars, store, ReportsInv, TypeOK, Schema, StoreTypeOK, IdsWithinSeq,
     ReferentialIntegrity, ProbesHaveProvider, ResultsHaveProbe
<1>2. CASE Tick
  <2>1. UNCHANGED store
    BY <1>2 DEF Tick
  <2>2. Schema'
    BY <1>0, <2>1 DEF store, Schema, StoreTypeOK, IdsWithinSeq,
     ReferentialIntegrity, ProbesHaveProvider, ResultsHaveProbe
  <2> QED BY <1>0, <1>2, <2>1, <2>2 DEF Tick, ReportsInv, Schema, TypeOK, store
<1>3. CASE Edit
  <2>1. Schema' /\ OldResultsOnly
    BY <1>0, <1>3, EditFacts
  <2>2. /\ DOMAIN created' = DOMAIN results' \cap DOMAIN created
        /\ \A i \in DOMAIN created' : created'[i] = created[i]
    BY <1>3, KeepFacts DEF Edit
  <2>3. DOMAIN created' = DOMAIN results'
    BY <1>0, <2>1, <2>2 DEF OldResultsOnly, TypeOK
  <2> QED BY <1>0, <1>3, <2>1, <2>2, <2>3 DEF Edit, ReportsInv, Schema, TypeOK
<1>4. ASSUME NEW id \in DOMAIN probes, NEW s \in Recorded, Record(id, s)
      PROVE  ReportsInv'
  <2>1. SaveResult(id, s, Row(id)) /\ UNCHANGED <<now, change, edits>>
    BY <1>4 DEF Record
  <2>2. Schema'
    BY <1>0, <2>1, RowIsAsked, SaveResultKeepsSchema
  <2>3. PICK t \in {now - 1, now} \cap Start..End : created' = With(created, NewResultId, t)
    BY <1>4 DEF Record
  <2>4. DOMAIN results' = DOMAIN results \cup {NewResultId}
    BY <2>1, WithFacts DEF SaveResult
  <2> DEFINE new == NewResultId
  <2>5. t \in Start..now
    BY <1>0, <2>3 DEF TypeOK
  <2>6. DOMAIN created' = DOMAIN created \cup {new} /\ \A i \in DOMAIN created' : created'[i] \in Start..now
    <3>1. \A i \in DOMAIN created : created[i] \in Start..now
      BY <1>0 DEF TypeOK
    <3>2. DOMAIN created' = DOMAIN created \cup {new}
      BY <2>3, WithFacts
    <3> DEFINE T == Start..now
    <3> HIDE DEF T, new
    <3>3. \A i \in DOMAIN created' : created'[i] \in T
      BY <2>3, <2>5, <3>1, WithinAfterWith DEF T, new
    <3> QED BY <3>2, <3>3 DEF T
  <2> QED BY <1>0, <2>1, <2>2, <2>4, <2>6 DEF ReportsInv, Schema, TypeOK
<1> QED BY <1>1, <1>2, <1>3, <1>4 DEF Next, Probes

(* The times of the results are known for exactly the results there are,   *)
(* and no result is from the future.                                       *)
THEOREM ReportsInvariant == Spec => []ReportsInv
<1>1. Init => ReportsInv
  BY ReportsInitIsFine
<1>2. ReportsInv /\ [Next]_vars => ReportsInv'
  BY ReportsStepIsFine
<1> QED BY <1>1, <1>2, PTL DEF Spec
----------------------------------------------------------------------------
(* The rows of a query in the order of the text, which is the order of the *)
(* instants as long as the clocks do not change.                           *)
LEMMA ResultTimes ==
  ASSUME ReportsInv
  PROVE  /\ DOMAIN results \subseteq Nat /\ IsFiniteSet(DOMAIN results)
         /\ \A i \in DOMAIN results : /\ created[i] \in Nat /\ created[i] > 0 /\ created[i] <= now
                                      /\ Wall(created[i]) \in Int
                                      /\ change = Never => Wall(created[i]) = created[i]
         /\ now \in Nat /\ now < Never
<1>1. Schema /\ TypeOK /\ DOMAIN results \subseteq 1..MaxResults
  BY DEF ReportsInv, Schema, StoreTypeOK, ResultIds
<1>2. IsFiniteSet(DOMAIN results)
  <2>1. IsFiniteSet(1..MaxResults)
    BY BoundsAssumption, FS_Interval
  <2> QED BY <1>1, <2>1, FS_Subset
<1>3. now \in Nat /\ now <= End /\ change \in Int
  BY <1>1, TimesArePositive DEF TypeOK, Never
<1>4. ASSUME NEW i \in DOMAIN results
      PROVE  created[i] \in Nat /\ created[i] > 0 /\ created[i] <= now
  BY <1>1, TimesArePositive DEF TypeOK
<1> QED BY <1>1, <1>2, <1>3, <1>4, TimesArePositive DEF Wall, Never

Pairs(S) == {q \in S \X S : Earlier(q[1], q[2])}

LEMMA EarlierOrders ==
  ASSUME ReportsInv, NEW S \in SUBSET DOMAIN results
  PROVE  Orders(Pairs(S), S) /\ IsFiniteSet(S)
<1>1. IsFiniteSet(S)
  BY ResultTimes, FS_Subset
<1>2. \A i \in S : i \in Nat /\ Wall(created[i]) \in Int
  BY ResultTimes
<1>3. \A i, j \in S : <<i, j>> \in Pairs(S) <=> Earlier(i, j)
  BY DEF Pairs
<1>4. /\ \A i \in S : ~Earlier(i, i)
      /\ \A i, j \in S : i # j => Earlier(i, j) \/ Earlier(j, i)
      /\ \A i, j, k \in S : Earlier(i, j) /\ Earlier(j, k) => Earlier(i, k)
  BY <1>2 DEF Earlier
<1> QED BY <1>1, <1>3, <1>4 DEF Orders

LEMMA InOrderFacts ==
  ASSUME ReportsInv, NEW S \in SUBSET DOMAIN results
  PROVE  /\ InOrder(S) \in Seq(S) /\ Len(InOrder(S)) \in Nat
         /\ \A i \in S : \E k \in 1..Len(InOrder(S)) : InOrder(S)[k] = i
         /\ \A k \in 1..Len(InOrder(S)) : InOrder(S)[k] \in S
         /\ \A k, m \in 1..Len(InOrder(S)) : k < m => Earlier(InOrder(S)[k], InOrder(S)[m])
<1> DEFINE ids == InOrder(S)
           R == Pairs(S)
           n == Cardinality(S)
           Place(i) == Cardinality({j \in S : Earlier(j, i)})
<1>1. Orders(R, S) /\ IsFiniteSet(S) /\ n \in Nat
  BY EarlierOrders, FS_CardinalityType
<1>2. \A i \in S : Place(i) = Cardinality(Below(R, S, i))
  <2>1. \A i \in S : {j \in S : Earlier(j, i)} = Below(R, S, i)
    BY DEF Below, Pairs
  <2> QED BY <2>1
<1>3. ids = [k \in 1..n |-> CHOOSE i \in S : Place(i) = k - 1]
  BY DEF InOrder
<1>4. ASSUME NEW k \in 1..n
      PROVE  ids[k] \in S /\ Place(ids[k]) = k - 1
  <2>1. k - 1 \in 0..Cardinality(S) - 1
    BY <1>1
  <2>2. \E i \in S : Place(i) = k - 1
    BY <1>1, <1>2, <2>1, RanksAreExact
  <2>3. ids[k] = CHOOSE i \in S : Place(i) = k - 1
    BY <1>3
  <2> HIDE DEF Place, ids
  <2> QED BY <2>2, <2>3
<1> DEFINE P == [i \in S |-> Place(i)]
<1>5. \A i \in S : P[i] \in 0..n - 1
  BY <1>1, <1>2, RanksFit
<1>6. \A i, j \in S : Earlier(i, j) => P[i] < P[j]
  <2>1. \A i, j \in S : Earlier(i, j) => <<i, j>> \in R
    BY DEF Pairs
  <2> QED BY <1>1, <1>2, <2>1, RanksGrow
<1>7. \A i, j \in S : i # j => Earlier(i, j) \/ Earlier(j, i)
  BY <1>1 DEF Orders, Pairs
<1>8. \A k \in 1..n : ids[k] \in S /\ P[ids[k]] = k - 1
  BY <1>4
<1> HIDE DEF P, Place, R, ids
<1>9. ids \in [1..n -> S]
  BY <1>3, <1>8
<1>10. ids \in Seq(S) /\ Len(ids) = n
  BY <1>1, <1>9
<1>11. \A i \in S : \E k \in 1..n : ids[k] = i
  <2> SUFFICES ASSUME NEW i \in S PROVE \E k \in 1..n : ids[k] = i
    OBVIOUS
  <2>1. P[i] \in 0..n - 1 /\ P[i] + 1 \in 1..n
    BY <1>1, <1>5
  <2>2. ids[P[i] + 1] \in S /\ P[ids[P[i] + 1]] = P[i]
    BY <1>8, <2>1
  <2>3. ids[P[i] + 1] = i
    BY <1>6, <1>7, <2>1, <2>2
  <2> QED BY <2>1, <2>3
<1>12. ASSUME NEW k \in 1..n, NEW m \in 1..n, k < m
       PROVE  Earlier(ids[k], ids[m])
  <2>1. P[ids[k]] < P[ids[m]] /\ ids[k] \in S /\ ids[m] \in S
    BY <1>1, <1>8, <1>12
  <2> QED BY <1>5, <1>6, <1>7, <2>1
<1> QED BY <1>1, <1>8, <1>10, <1>11, <1>12 DEF ids
----------------------------------------------------------------------------
(* The loop of GetDowntimePeriods. *)
IsScan(f, n, ids) == f = [k \in 0..n |-> IF k = 0 THEN Unread ELSE Scanned(f[k - 1], ids[k])]

LEMMA ScanExists ==
  ASSUME NEW ids, NEW n \in Nat
  PROVE  \E f : IsScan(f, n, ids)
<1> DEFINE T == {m \in Nat : \E f : IsScan(f, m, ids)}
<1>1. 0 \in T
  <2> DEFINE g == [k \in 0..0 |-> Unread]
  <2>1. g = [k \in 0..0 |-> IF k = 0 THEN Unread ELSE Scanned(g[k - 1], ids[k])]
    OBVIOUS
  <2>2. IsScan(g, 0, ids)
    BY <2>1 DEF IsScan
  <2> QED BY <2>2
<1>2. ASSUME NEW m \in T
      PROVE  m + 1 \in T
  <2>1. m \in Nat /\ \E f : IsScan(f, m, ids)
    OBVIOUS
  <2>2. PICK f : IsScan(f, m, ids)
    BY <2>1
  <2> DEFINE g == [k \in 0..m + 1 |-> IF k = m + 1 THEN Scanned(f[m], ids[m + 1]) ELSE f[k]]
             h == [k \in 0..m + 1 |-> IF k = 0 THEN Unread ELSE Scanned(g[k - 1], ids[k])]
  <2>3. DOMAIN f = 0..m /\ \A k \in 0..m : f[k] = IF k = 0 THEN Unread ELSE Scanned(f[k - 1], ids[k])
    BY <2>2 DEF IsScan
  <2>4. \A k \in 0..m + 1 : g[k] = IF k = 0 THEN Unread ELSE Scanned(g[k - 1], ids[k])
    BY <2>1, <2>3
  <2>5. \A k \in 0..m + 1 : g[k] = h[k]
    BY <2>4
  <2>6. g = h
    BY <2>5
  <2>7. IsScan(g, m + 1, ids)
    BY <2>6 DEF IsScan
  <2> HIDE DEF g
  <2> QED BY <2>1, <2>7
<1> HIDE DEF T
<1>3. T \in SUBSET Nat
  BY DEF T
<1>4. n \in T
  BY <1>1, <1>2, <1>3, Induction
<1> QED BY <1>4 DEF T

LEMMA ScanSteps ==
  ASSUME NEW ids, Len(ids) \in Nat
  PROVE  /\ Scan(ids)[0] = Unread
         /\ \A k \in 1..Len(ids) : Scan(ids)[k] = Scanned(Scan(ids)[k - 1], ids[k])
<1> DEFINE n == Len(ids)
<1>1. \E f : f = [k \in 0..n |-> IF k = 0 THEN Unread ELSE Scanned(f[k - 1], ids[k])]
  BY ScanExists DEF IsScan
<1>2. Scan(ids) = [k \in 0..n |-> IF k = 0 THEN Unread ELSE Scanned(Scan(ids)[k - 1], ids[k])]
  BY <1>1 DEF Scan
<1> DEFINE scan == Scan(ids)
<1>3. n \in Nat /\ scan = [k \in 0..n |-> IF k = 0 THEN Unread ELSE Scanned(scan[k - 1], ids[k])]
  BY <1>2
<1> HIDE DEF scan, n
<1>4. scan[0] = Unread /\ \A k \in 1..n : scan[k] = Scanned(scan[k - 1], ids[k])
  BY <1>3
<1> QED BY <1>4 DEF scan, n

Downtime == [start : Nat, end : Nat]
Loops   == [start : Nat, down : BOOLEAN, periods : Seq(Downtime)]
Fails(i) == results[i].status # "success"

(* What one row does to the loop. *)
LEMMA ScannedFacts ==
  ASSUME NEW s \in Loops, NEW i, s.down <=> s.start # NoStart
  PROVE  /\ Fails(i) /\ ~s.down =>
              Scanned(s, i) = [start |-> created[i], down |-> TRUE, periods |-> s.periods]
         /\ ~Fails(i) /\ s.down =>
              Scanned(s, i) = [start |-> NoStart, down |-> FALSE,
                               periods |-> Append(s.periods, [start |-> s.start, end |-> created[i]])]
         /\ (Fails(i) <=> s.down) => Scanned(s, i) = s
<1>0. s = [start |-> s.start, down |-> s.down, periods |-> s.periods] /\ s.down \in BOOLEAN
  BY DEF Loops
<1>1. CASE Fails(i) /\ ~s.down
  BY <1>0, <1>1 DEF Scanned, Fails
<1>2. CASE ~Fails(i) /\ s.down
  BY <1>2 DEF Scanned, Recovered, Fails
<1>3. CASE Fails(i) /\ s.down
  <2>1. Scanned(s, i) = [s EXCEPT !.down = TRUE]
    BY <1>3 DEF Scanned, Fails
  <2> QED BY <1>0, <1>3, <2>1
<1>4. CASE ~Fails(i) /\ ~s.down
  <2>1. Scanned(s, i) = [s EXCEPT !.down = FALSE]
    BY <1>4 DEF Scanned, Fails
  <2> QED BY <1>0, <1>4, <2>1
<1> QED BY <1>0, <1>1, <1>2, <1>3, <1>4

(* After k rows: the probe is down exactly if the last one is a failure,   *)
(* the start is set exactly while it is down, and a period ends with a     *)
(* row.                                                                    *)
LoopFits(s, ids, k) ==
  /\ s \in Loops
  /\ s.down <=> k > 0 /\ Fails(ids[k])
  /\ s.down <=> s.start # NoStart
  /\ \A m \in DOMAIN s.periods : \E q \in 1..k : s.periods[m].end = created[ids[q]]

Covers(periods, t) == \E m \in DOMAIN periods : t \in periods[m].start..periods[m].end - 1

(* Of the first k rows, the last one until t is a failure. *)
DownBy(ids, k, t) ==
  \E m \in 1..k : /\ Fails(ids[m]) /\ created[ids[m]] <= t
                  /\ \A q \in m + 1..k : t < created[ids[q]]

(* With rows in the order of their instants, the periods are in order, and *)
(* with the open one they cover the instants after a failure.              *)
LoopOrdered(s, ids, k) ==
  /\ s.start # NoStart => s.start <= created[ids[k]]
  /\ \A m \in DOMAIN s.periods : s.periods[m].end <= created[ids[k]]
  /\ \A m \in 1..Len(s.periods) - 1 : s.periods[m].end <= s.periods[m + 1].start
  /\ s.start # NoStart /\ s.periods # <<>> => LastEnd(s.periods) <= s.start
  /\ \A t \in Int : DownBy(ids, k, t) <=> Covers(s.periods, t) \/ (s.start # NoStart /\ s.start <= t)

LEMMA AppendFacts ==
  ASSUME NEW T, NEW seqn \in Seq(T), NEW e \in T
  PROVE  /\ Append(seqn, e) \in Seq(T) /\ Len(Append(seqn, e)) = Len(seqn) + 1
         /\ DOMAIN seqn = 1..Len(seqn) /\ Len(seqn) \in Nat
         /\ DOMAIN Append(seqn, e) = 1..Len(seqn) + 1
         /\ \A m \in 1..Len(seqn) : Append(seqn, e)[m] = seqn[m] /\ seqn[m] \in T
         /\ Append(seqn, e)[Len(seqn) + 1] = e
OBVIOUS

LEMMA PeriodFacts ==
  ASSUME NEW periods \in Seq(Downtime)
  PROVE  /\ Len(periods) \in Nat /\ DOMAIN periods = 1..Len(periods)
         /\ \A m \in 1..Len(periods) : periods[m].start \in Nat /\ periods[m].end \in Nat
<1>1. Len(periods) \in Nat /\ DOMAIN periods = 1..Len(periods)
  OBVIOUS
<1>2. \A m \in 1..Len(periods) : periods[m] \in Downtime
  OBVIOUS
<1> QED BY <1>1, <1>2 DEF Downtime

LEMMA LoopGoesOn ==
  ASSUME NEW ids, NEW k \in Nat, NEW s, LoopFits(s, ids, k), created[ids[k + 1]] \in Nat \ {0}
  PROVE  LoopFits(Scanned(s, ids[k + 1]), ids, k + 1)
<1> DEFINE i == ids[k + 1]
           next == Scanned(s, i)
           span == [start |-> s.start, end |-> created[i]]
<1>1. s \in Loops /\ (s.down <=> s.start # NoStart) /\ s.start \in Nat /\ s.down \in BOOLEAN
      /\ s.periods \in Seq(Downtime)
  BY DEF LoopFits, Loops
<1>2. created[i] \in Nat /\ created[i] # 0 /\ span \in Downtime
  BY <1>1 DEF Downtime
<1>3. /\ Fails(i) /\ ~s.down => next = [start |-> created[i], down |-> TRUE, periods |-> s.periods]
      /\ ~Fails(i) /\ s.down => next = [start |-> NoStart, down |-> FALSE, periods |-> Append(s.periods, span)]
      /\ (Fails(i) <=> s.down) => next = s
  BY <1>1, ScannedFacts
<1>4. \A m \in DOMAIN s.periods : \E q \in 1..k + 1 : s.periods[m].end = created[ids[q]]
  BY DEF LoopFits
<1>5. next \in Loops /\ (next.down <=> Fails(i)) /\ (next.down <=> next.start # NoStart)
  <2>1. Append(s.periods, span) \in Seq(Downtime)
    BY <1>1, <1>2
  <2> DEFINE fails == Fails(i)
             at == created[i]
  <2>2. fails \in BOOLEAN /\ at \in Nat /\ at # 0
    BY <1>2 DEF Fails
  <2> HIDE DEF next, span, fails, at
  <2>3. CASE fails /\ ~s.down
    <3>1. next = [start |-> at, down |-> TRUE, periods |-> s.periods]
      BY <1>3, <2>3 DEF fails, at
    <3> QED BY <1>1, <2>2, <2>3, <3>1 DEF Loops, NoStart, fails
  <2>4. CASE ~fails /\ s.down
    <3>1. next = [start |-> NoStart, down |-> FALSE, periods |-> Append(s.periods, span)]
      BY <1>3, <2>4 DEF fails
    <3> QED BY <2>1, <2>2, <2>4, <3>1 DEF Loops, NoStart, fails
  <2>5. CASE fails <=> s.down
    BY <1>1, <1>3, <2>5 DEF fails
  <2> QED BY <1>1, <2>2, <2>3, <2>4, <2>5
<1>6. \A m \in DOMAIN next.periods : \E q \in 1..k + 1 : next.periods[m].end = created[ids[q]]
  <2>1. CASE next.periods = s.periods
    BY <1>4, <2>1
  <2>2. CASE next.periods = Append(s.periods, span)
    <3> HIDE DEF next
    <3> SUFFICES ASSUME NEW m \in DOMAIN next.periods
                 PROVE  \E q \in 1..k + 1 : next.periods[m].end = created[ids[q]]
      OBVIOUS
    <3>0. span.end = created[ids[k + 1]] /\ k + 1 \in 1..k + 1
      OBVIOUS
    <3> HIDE DEF span
    <3>1. m \in 1..Len(s.periods) + 1 /\ Len(s.periods) \in Nat
      BY <1>1, <1>2, <2>2, AppendFacts
    <3>2. CASE m = Len(s.periods) + 1
      <4>1. next.periods[m] = span
        BY <1>1, <1>2, <2>2, <3>2, AppendFacts
      <4> QED BY <3>0, <4>1
    <3>3. CASE m \in 1..Len(s.periods)
      <4>1. next.periods[m] = s.periods[m] /\ m \in DOMAIN s.periods
        BY <1>1, <1>2, <2>2, <3>3, AppendFacts
      <4> QED BY <1>4, <4>1
    <3> QED BY <3>1, <3>2, <3>3
  <2> HIDE DEF next, span, i
  <2> QED BY <1>3, <2>1, <2>2
<1>7. k + 1 > 0
  OBVIOUS
<1> HIDE DEF next
<1> QED BY <1>5, <1>6, <1>7 DEF LoopFits, next

LEMMA DownByGoesOn ==
  ASSUME NEW ids, NEW k \in Nat, NEW t \in Int,
         \A m \in 1..k + 1 : created[ids[m]] \in Nat
  PROVE  DownBy(ids, k + 1, t) <=>
           IF t < created[ids[k + 1]] THEN DownBy(ids, k, t) ELSE Fails(ids[k + 1])
<1> DEFINE c(m) == created[ids[m]]
           fails(m) == Fails(ids[m])
           n == k + 1
<1>0. n \in Nat /\ n > 0 /\ n \in 1..n /\ c(n) \in Nat /\ (\A m \in 1..k : m \in 1..n)
      /\ \A m \in 1..n : m = n \/ m \in 1..k
  OBVIOUS
<1>1. DownBy(ids, n, t) <=> \E m \in 1..n : fails(m) /\ c(m) <= t /\ \A q \in m + 1..n : t < c(q)
  BY DEF DownBy
<1>2. DownBy(ids, k, t) <=> \E m \in 1..k : fails(m) /\ c(m) <= t /\ \A q \in m + 1..k : t < c(q)
  BY DEF DownBy
<1> HIDE DEF c, fails
<1>3. CASE t < c(n)
  <2>1. \A m \in 1..k : (\A q \in m + 1..n : t < c(q)) <=> \A q \in m + 1..k : t < c(q)
    <3> SUFFICES ASSUME NEW m \in 1..k
                 PROVE  (\A q \in m + 1..n : t < c(q)) <=> \A q \in m + 1..k : t < c(q)
      OBVIOUS
    <3>1. \A q \in m + 1..n : q = n \/ q \in m + 1..k
      OBVIOUS
    <3>2. \A q \in m + 1..k : q \in m + 1..n
      OBVIOUS
    <3> HIDE DEF n
    <3> QED BY <1>3, <3>1, <3>2
  <2>2. ~(c(n) <= t)
    BY <1>0, <1>3
  <2> HIDE DEF n
  <2>3. DownBy(ids, n, t) <=> DownBy(ids, k, t)
    BY <1>0, <1>1, <1>2, <2>1, <2>2
  <2> QED BY <1>3, <2>3 DEF c, n
<1>4. CASE ~(t < c(n))
  <2>1. c(n) <= t
    BY <1>0, <1>4
  <2>2. \A m \in 1..k : n \in m + 1..n
    OBVIOUS
  <2>3. \A q \in n + 1..n : FALSE
    BY <1>0
  <2> HIDE DEF n
  <2>4. DownBy(ids, n, t) <=> fails(n)
    BY <1>0, <1>1, <1>4, <2>1, <2>2, <2>3
  <2> QED BY <1>4, <2>4 DEF c, fails, n
<1> QED BY <1>3, <1>4

LEMMA CoversMore ==
  ASSUME NEW periods \in Seq(Downtime), NEW span \in Downtime, NEW t \in Int
  PROVE  Covers(Append(periods, span), t) <=> Covers(periods, t) \/ t \in span.start..span.end - 1
<1> DEFINE longer == Append(periods, span)
           n == Len(periods)
<1>1. /\ DOMAIN longer = 1..n + 1 /\ DOMAIN periods = 1..n /\ n \in Nat
      /\ \A m \in 1..n : longer[m] = periods[m]
      /\ longer[n + 1] = span
  BY AppendFacts
<1>2. \A m \in 1..n + 1 : m = n + 1 \/ m \in 1..n
  BY <1>1
<1>3. n + 1 \in 1..n + 1 /\ \A m \in 1..n : m \in 1..n + 1
  BY <1>1
<1> HIDE DEF longer, n
<1> QED BY <1>1, <1>2, <1>3 DEF Covers, longer

(* Nothing is covered after the last end. *)
LEMMA NotCoveredLater ==
  ASSUME NEW periods \in Seq(Downtime), NEW t \in Int, \A m \in DOMAIN periods : periods[m].end <= t
  PROVE  ~Covers(periods, t)
<1>1. \A m \in DOMAIN periods : periods[m].start \in Nat /\ periods[m].end \in Nat
  BY PeriodFacts
<1> QED BY <1>1 DEF Covers

LEMMA LoopGoesOnInOrder ==
  ASSUME NEW ids, NEW k \in Nat, NEW s, LoopFits(s, ids, k), LoopOrdered(s, ids, k),
         \A m \in 1..k + 1 : created[ids[m]] \in Nat \ {0},
         \A m \in 1..k : created[ids[m]] <= created[ids[k + 1]]
  PROVE  LoopOrdered(Scanned(s, ids[k + 1]), ids, k + 1)
<1> DEFINE i == ids[k + 1]
           at == created[i]
           fails == Fails(i)
           open == s.start # NoStart
           next == Scanned(s, i)
           span == [start |-> s.start, end |-> at]
           n == Len(s.periods)
           InOrderUpTo(x) == /\ \A m \in DOMAIN x.periods : x.periods[m].end <= at
                             /\ \A m \in 1..Len(x.periods) - 1 : x.periods[m].end <= x.periods[m + 1].start
           Known(x, t) == Covers(x.periods, t) \/ (x.start # NoStart /\ x.start <= t)
<1> SUFFICES LoopOrdered(next, ids, k + 1)
  OBVIOUS
<1>1. s \in Loops /\ (s.down <=> open) /\ s.start \in Nat
      /\ s.periods \in Seq(Downtime) /\ n \in Nat /\ DOMAIN s.periods = 1..n
      /\ \A m \in 1..n : s.periods[m].start \in Nat /\ s.periods[m].end \in Nat
  <2>1. s \in Loops /\ (s.down <=> open) /\ s.start \in Nat /\ s.periods \in Seq(Downtime)
    BY DEF LoopFits, Loops
  <2> QED BY <2>1, PeriodFacts
<1>2. at \in Nat /\ at # NoStart /\ span \in Downtime /\ span.start = s.start /\ span.end = at
  BY <1>1 DEF Downtime, NoStart
<1>3. /\ fails /\ ~open => next.start = at /\ next.periods = s.periods
      /\ ~fails /\ open => next.start = NoStart /\ next.periods = Append(s.periods, span)
      /\ (fails <=> open) => next = s
  BY <1>1, ScannedFacts
<1> HIDE DEF next, span
(* What came before is not later than this row. *)
<1>4. open => s.start <= at
  <2>1. open => k \in 1..k /\ s.start <= created[ids[k]]
    BY <1>1 DEF LoopFits, LoopOrdered
  <2>2. k \in 1..k => created[ids[k]] <= at /\ created[ids[k]] \in Nat
    OBVIOUS
  <2> QED BY <1>1, <1>2, <2>1, <2>2
<1>5. InOrderUpTo(s)
  <2>1. \A m \in DOMAIN s.periods : s.periods[m].end <= at
    <3> SUFFICES ASSUME NEW m \in DOMAIN s.periods PROVE s.periods[m].end <= at
      OBVIOUS
    <3>1. \E q \in 1..k : s.periods[m].end = created[ids[q]]
      BY DEF LoopFits
    <3> QED BY <3>1
  <2> QED BY <2>1 DEF LoopOrdered
<1>6. open /\ n > 0 => s.periods[n].end <= s.start
  <2>1. n > 0 => s.periods # <<>>
    BY <1>1
  <2> QED BY <2>1 DEF LoopOrdered, LastEnd
<1>7. ASSUME NEW t \in Int
      PROVE  /\ DownBy(ids, k + 1, t) <=> IF t < at THEN Known(s, t) ELSE fails
             /\ at <= t => ~Covers(s.periods, t)
  <2>1. DownBy(ids, k + 1, t) <=> IF t < at THEN DownBy(ids, k, t) ELSE fails
    BY DownByGoesOn
  <2>2. DownBy(ids, k, t) <=> Known(s, t)
    BY DEF LoopOrdered
  <2>3. ASSUME at <= t PROVE ~Covers(s.periods, t)
    <3>1. \A m \in DOMAIN s.periods : s.periods[m].end <= t
      BY <1>1, <1>2, <1>5, <2>3
    <3> QED BY <1>1, <3>1, NotCoveredLater
  <2> HIDE DEF Known, at, fails
  <2> QED BY <2>1, <2>2, <2>3
<1>8. ASSUME \A t \in Int : Known(next, t) <=> IF t < at THEN Known(s, t) ELSE fails,
             InOrderUpTo(next), next.start # NoStart => next.start <= at,
             next.start # NoStart /\ next.periods # <<>> => LastEnd(next.periods) <= next.start
      PROVE  LoopOrdered(next, ids, k + 1)
  <2>1. \A t \in Int : DownBy(ids, k + 1, t) <=> Known(next, t)
    BY <1>7, <1>8
  <2> QED BY <1>8, <2>1 DEF LoopOrdered
<1>9. CASE fails /\ ~open
  <2>1. next.start = at /\ next.periods = s.periods
    BY <1>3, <1>9
  <2>2. ASSUME NEW t \in Int PROVE Known(next, t) <=> IF t < at THEN Known(s, t) ELSE fails
    <3>1. Known(next, t) <=> Covers(s.periods, t) \/ at <= t
      BY <1>2, <2>1
    <3>2. Known(s, t) <=> Covers(s.periods, t)
      BY <1>9
    <3>3. t < at <=> ~(at <= t)
      BY <1>2
    <3> HIDE DEF Known, at, fails
    <3> QED BY <1>9, <3>1, <3>2, <3>3
  <2>3. InOrderUpTo(next)
    BY <1>5, <2>1
  <2>4. next.periods # <<>> => LastEnd(next.periods) <= next.start
    <3>1. s.periods # <<>> => n \in DOMAIN s.periods
      BY <1>1
    <3> QED BY <1>5, <2>1, <3>1 DEF LastEnd
  <2>5. next.start <= at
    BY <1>2, <2>1
  <2> QED BY <1>8, <2>2, <2>3, <2>4, <2>5
<1>10. CASE ~fails /\ open
  <2>1. next.start = NoStart /\ next.periods = Append(s.periods, span)
    BY <1>3, <1>10
  <2>2. ASSUME NEW t \in Int PROVE Known(next, t) <=> IF t < at THEN Known(s, t) ELSE fails
    <3>1. Known(next, t) <=> Covers(s.periods, t) \/ t \in s.start..at - 1
      <4>1. Known(next, t) <=> Covers(Append(s.periods, span), t)
        BY <2>1
      <4>2. Covers(Append(s.periods, span), t) <=> Covers(s.periods, t) \/ t \in span.start..span.end - 1
        BY <1>1, <1>2, CoversMore
      <4> HIDE DEF Known
      <4> QED BY <1>2, <4>1, <4>2
    <3>2. Known(s, t) <=> Covers(s.periods, t) \/ s.start <= t
      BY <1>10
    <3>3. t \in s.start..at - 1 <=> s.start <= t /\ t < at
      BY <1>1, <1>2
    <3>4. t < at <=> ~(at <= t)
      BY <1>2
    <3> HIDE DEF Known, at, fails
    <3> QED BY <1>7, <1>10, <3>1, <3>2, <3>3, <3>4
  <2>3. InOrderUpTo(next)
    <3> DEFINE longer == Append(s.periods, span)
    <3>1. /\ Len(longer) = n + 1 /\ DOMAIN longer = 1..n + 1 /\ longer[n + 1] = span
          /\ \A m \in 1..n : longer[m] = s.periods[m]
      BY <1>1, <1>2, AppendFacts
    <3> HIDE DEF longer
    <3>2. \A m \in 1..n + 1 : longer[m].end <= at
      <4> SUFFICES ASSUME NEW m \in 1..n + 1 PROVE longer[m].end <= at
        OBVIOUS
      <4>1. CASE m = n + 1
        BY <1>2, <3>1, <4>1
      <4>2. CASE m \in 1..n
        BY <1>1, <1>5, <3>1, <4>2
      <4> QED BY <1>1, <4>1, <4>2
    <3>3. \A m \in 1..n : longer[m].end <= longer[m + 1].start
      <4> SUFFICES ASSUME NEW m \in 1..n PROVE longer[m].end <= longer[m + 1].start
        OBVIOUS
      <4>1. CASE m = n
        BY <1>1, <1>2, <1>6, <1>10, <3>1, <4>1
      <4>2. CASE m # n
        <5>1. m \in 1..n - 1 /\ m + 1 \in 1..n
          BY <1>1, <4>2
        <5> QED BY <1>5, <3>1, <5>1
      <4> QED BY <4>1, <4>2
    <3>4. next.periods = longer
      BY <2>1 DEF longer
    <3>5. Len(next.periods) - 1 = n
      BY <1>1, <3>1, <3>4
    <3> QED BY <3>1, <3>2, <3>3, <3>4, <3>5
  <2> QED BY <1>8, <2>1, <2>2, <2>3
<1>11. CASE fails <=> open
  <2>1. next = s
    BY <1>3, <1>11
  <2>2. ASSUME NEW t \in Int PROVE Known(s, t) <=> IF t < at THEN Known(s, t) ELSE fails
    <3>1. CASE t < at
      BY <3>1
    <3>2. CASE at <= t
      <4>1. ~Covers(s.periods, t) /\ ~(t < at)
        BY <1>2, <1>7, <3>2
      <4>2. open => s.start <= t
        BY <1>1, <1>2, <1>4, <3>2
      <4>3. Known(s, t) <=> open
        BY <4>1, <4>2
      <4> HIDE DEF Known, at, fails, open
      <4> QED BY <1>11, <4>1, <4>3
    <3> QED BY <1>2, <3>1, <3>2
  <2>3. open /\ s.periods # <<>> => LastEnd(s.periods) <= s.start
    BY DEF LoopOrdered
  <2> HIDE DEF Known, at, fails
  <2> QED BY <1>4, <1>5, <1>8, <2>1, <2>2, <2>3
<1> QED BY <1>9, <1>10, <1>11

LEMMA LoopBegins ==
  ASSUME NEW ids
  PROVE  LoopFits(Unread, ids, 0) /\ LoopOrdered(Unread, ids, 0)
<1>1. Unread \in Loops /\ Unread.start = NoStart /\ Unread.down = FALSE /\ Unread.periods = <<>>
  BY DEF Unread, Loops, NoStart
<1>2. LoopFits(Unread, ids, 0)
  BY <1>1 DEF LoopFits
<1>3. \A t \in Int : ~DownBy(ids, 0, t) /\ ~Covers(<<>>, t)
  BY DEF DownBy, Covers
<1>4. LoopOrdered(Unread, ids, 0)
  BY <1>1, <1>3 DEF LoopOrdered
<1> QED BY <1>2, <1>4

(* Without a change of the clocks, the order of the text is the order of   *)
(* the instants.                                                           *)
LEMMA TextIsTime ==
  ASSUME ReportsInv, NEW S \in SUBSET DOMAIN results
  PROVE  LET ids == InOrder(S) IN
         /\ \A k \in 1..Len(ids) : created[ids[k]] \in Nat \ {0}
         /\ change = Never =>
              \A k, m \in 1..Len(ids) : k < m => created[ids[k]] <= created[ids[m]]
<1> DEFINE ids == InOrder(S)
<1>1. /\ \A k \in 1..Len(ids) : ids[k] \in S
      /\ \A k, m \in 1..Len(ids) : k < m => Earlier(ids[k], ids[m])
  BY InOrderFacts
<1>2. \A i \in S : created[i] \in Nat /\ created[i] > 0 /\ (change = Never => Wall(created[i]) = created[i])
  BY ResultTimes
<1> HIDE DEF ids
<1>3. \A k \in 1..Len(ids) : created[ids[k]] \in Nat \ {0}
  BY <1>1, <1>2
<1>4. ASSUME change = Never, NEW k \in 1..Len(ids), NEW m \in 1..Len(ids), k < m
      PROVE  created[ids[k]] <= created[ids[m]]
  <2>1. Wall(created[ids[k]]) = created[ids[k]] /\ Wall(created[ids[m]]) = created[ids[m]]
    BY <1>1, <1>2, <1>4
  <2>2. Earlier(ids[k], ids[m])
    BY <1>1, <1>4
  <2> QED BY <1>3, <1>4, <2>1, <2>2 DEF Earlier
<1> QED BY <1>3, <1>4 DEF ids

LEMMA LoopInvariant ==
  ASSUME ReportsInv, NEW S \in SUBSET DOMAIN results
  PROVE  LET ids == InOrder(S)
             end == Scan(ids)[Len(ids)] IN
         LoopFits(end, ids, Len(ids)) /\ (change = Never => LoopOrdered(end, ids, Len(ids)))
<1> DEFINE ids == InOrder(S)
           n == Len(ids)
           Fits(k) == LoopFits(Scan(ids)[k], ids, k) /\ (change = Never => LoopOrdered(Scan(ids)[k], ids, k))
           T == {k \in Nat : k <= n => Fits(k)}
<1>1. /\ n \in Nat /\ \A k \in 1..n : created[ids[k]] \in Nat \ {0}
      /\ change = Never => \A k, m \in 1..n : k < m => created[ids[k]] <= created[ids[m]]
  BY TextIsTime, InOrderFacts
<1>2. /\ Scan(ids)[0] = Unread
      /\ \A k \in 1..n : Scan(ids)[k] = Scanned(Scan(ids)[k - 1], ids[k])
  BY <1>1, ScanSteps
<1> HIDE DEF ids
<1>3. Fits(0)
  BY <1>2, LoopBegins
<1>4. ASSUME NEW k \in Nat, k + 1 <= n, Fits(k)
      PROVE  Fits(k + 1)
  <2>1. k + 1 \in 1..n /\ k + 1 - 1 = k
    BY <1>1, <1>4
  <2>2. Scan(ids)[k + 1] = Scanned(Scan(ids)[k], ids[k + 1])
    BY <1>2, <2>1
  <2>3. \A m \in 1..k + 1 : m \in 1..n /\ created[ids[m]] \in Nat \ {0}
    BY <1>1, <1>4
  <2>4. created[ids[k + 1]] \in Nat \ {0}
    BY <1>1, <2>1
  <2> DEFINE s == Scan(ids)[k]
  <2>5. LoopFits(s, ids, k) /\ (change = Never => LoopOrdered(s, ids, k))
    BY <1>4
  <2> HIDE DEF s
  <2>6. LoopFits(Scanned(s, ids[k + 1]), ids, k + 1)
    BY <2>4, <2>5, LoopGoesOn
  <2>7. ASSUME change = Never PROVE LoopOrdered(Scanned(s, ids[k + 1]), ids, k + 1)
    <3>1. \A m \in 1..k : created[ids[m]] <= created[ids[k + 1]]
      <4>1. \A m \in 1..k : m \in 1..n /\ m < k + 1
        BY <2>3
      <4>2. \A a, m \in 1..n : a < m => created[ids[a]] <= created[ids[m]]
        BY <1>1, <2>7
      <4> QED BY ONLY <2>1, <4>1, <4>2
    <3> QED BY <2>3, <2>5, <2>7, <3>1, LoopGoesOnInOrder
  <2> QED BY <2>2, <2>6, <2>7 DEF s
<1>5. T \in SUBSET Nat
  OBVIOUS
<1>6. 0 \in T
  BY <1>3
<1>7. ASSUME NEW k \in T
      PROVE  k + 1 \in T
  <2>1. k \in Nat /\ (k <= n => Fits(k))
    OBVIOUS
  <2>2. k + 1 <= n => Fits(k + 1)
    BY <1>1, <1>4, <2>1
  <2> QED BY <2>1, <2>2
<1> HIDE DEF T
<1>8. n \in T
  BY <1>1, <1>5, <1>6, <1>7, Induction
<1>9. Fits(n)
  BY <1>1, <1>8 DEF T
<1> QED BY <1>9 DEF ids

----------------------------------------------------------------------------
(* A filter by the second keeps the younger ones. *)
LEMMA DivFacts ==
  ASSUME NEW d \in Nat, d > 0, NEW a \in Int
  PROVE  a \div d \in Int /\ d * (a \div d) <= a /\ a < d * (a \div d) + d
BY SMTT(30)

LEMMA DivGrows ==
  ASSUME NEW d \in Nat, d > 0, NEW a \in Int, NEW b \in Int, a <= b
  PROVE  a \div d <= b \div d
<1> DEFINE x == a \div d
           y == b \div d
<1>1. x \in Int /\ y \in Int /\ d * x <= a /\ b < d * y + d
  BY DivFacts
<1> HIDE DEF x, y
<1>2. SUFFICES ASSUME y + 1 <= x PROVE FALSE
  BY <1>1 DEF x, y
<1>3. d * (y + 1) <= d * x /\ d * (y + 1) = d * y + d /\ d * y \in Int /\ d * x \in Int
  BY <1>1, <1>2, SMTT(30)
<1> QED BY <1>1, <1>3

LEMMA SinceFacts ==
  ASSUME ReportsInv, NEW n \in Windows
  PROVE  /\ Since(n) \in Int /\ Since(n) < now
         /\ change = Never => Wall(Since(n)) = Since(n)
         /\ Wall(Since(n)) \in Int
<1>1. n \in Nat /\ n > 0 /\ n * HourLen \in Int /\ n * HourLen > 0
  BY TimesArePositive, SMTT(30) DEF Windows
<1>2. now \in Nat /\ now < Never
  BY ResultTimes
<1>3. Since(n) \in Int /\ Since(n) < now
  BY <1>1, <1>2 DEF Since
<1>4. change \in Int /\ Never \in Int
  BY TimesArePositive DEF ReportsInv, TypeOK, Never
<1> QED BY <1>2, <1>3, <1>4, TimesArePositive DEF Wall

LEMMA OlderIsEarlier ==
  ASSUME ReportsInv, NEW n \in Windows, NEW S \in SUBSET DOMAIN results,
         NEW i \in FromText(S, Since(n)), NEW j \in S, j \notin FromText(S, Since(n))
  PROVE  Earlier(j, i)
<1> DEFINE a == Wall(created[i])
           b == Wall(created[j])
           c == Wall(Since(n))
<1>1. a \in Int /\ b \in Int /\ c \in Int
  BY ResultTimes, SinceFacts DEF FromText
<1>2. a \div SecLen >= c \div SecLen /\ ~(b \div SecLen >= c \div SecLen)
  BY DEF FromText, Second
<1> HIDE DEF a, b, c
<1>3. a \div SecLen \in Int /\ b \div SecLen \in Int /\ c \div SecLen \in Int
  BY <1>1, TimesArePositive, DivFacts
<1>4. ~(a <= b)
  BY <1>1, <1>2, <1>3, TimesArePositive, DivGrows
<1> QED BY <1>1, <1>4 DEF Earlier, a, b

(* Down at t in the words of the loop. *)
LEMMA DownAtIsDownBy ==
  ASSUME ReportsInv, NEW p, NEW n \in Windows, NEW t \in Int
  PROVE  LET ids == InOrder(FromText(Of(p), Since(n))) IN
         DownAt(p, Since(n), t) <=> DownBy(ids, Len(ids), t)
<1> DEFINE S == FromText(Of(p), Since(n))
           ids == InOrder(S)
           N == Len(ids)
<1>1. Of(p) \in SUBSET DOMAIN results /\ S \in SUBSET Of(p) /\ S \in SUBSET DOMAIN results
  BY DEF Of, FromText
<1>2. /\ N \in Nat
      /\ \A i \in S : \E k \in 1..N : ids[k] = i
      /\ \A k \in 1..N : ids[k] \in S
      /\ \A k, m \in 1..N : k < m => Earlier(ids[k], ids[m])
  BY <1>1, InOrderFacts
<1>3. \A i \in S, j \in Of(p) : j \notin S => Earlier(j, i)
  BY <1>1, OlderIsEarlier
<1>4. /\ \A i, j \in Of(p) : ~(Earlier(i, j) /\ Earlier(j, i))
      /\ \A i \in Of(p) : created[i] \in Nat
  <2>1. \A i \in Of(p) : created[i] \in Nat /\ Wall(created[i]) \in Int /\ i \in Nat
    BY <1>1, ResultTimes
  <2> QED BY <2>1 DEF Earlier
<1>5. \A i \in S : i \in Failed(S) <=> Fails(i)
  BY DEF Failed, Fails
<1> HIDE DEF ids, N
<1>6. ASSUME DownBy(ids, N, t) PROVE DownAt(p, Since(n), t)
  <2>1. PICK m \in 1..N : Fails(ids[m]) /\ created[ids[m]] <= t /\ \A q \in m + 1..N : t < created[ids[q]]
    BY <1>6 DEF DownBy
  <2>2. ASSUME NEW j \in Of(p), created[j] <= t PROVE j = ids[m] \/ Earlier(j, ids[m])
    <3>1. CASE j \notin S
      BY <1>2, <1>3, <3>1
    <3>2. CASE j \in S
      <4>1. PICK q \in 1..N : ids[q] = j
        BY <1>2, <3>2
      <4>2. CASE q < m
        BY <1>2, <4>1, <4>2
      <4>3. CASE q > m
        <5>1. q \in m + 1..N
          BY <1>2, <4>3
        <5>2. t < created[j] /\ created[j] \in Nat
          BY <1>1, <1>4, <2>1, <4>1, <5>1
        <5> QED BY <2>2, <5>2
      <4> QED BY <1>2, <4>1, <4>2, <4>3
    <3> QED BY <3>1, <3>2
  <2>3. ids[m] \in Failed(S)
    BY <1>2, <1>5, <2>1
  <2> HIDE DEF S
  <2> QED BY <2>1, <2>2, <2>3 DEF DownAt, S
<1>7. ASSUME DownAt(p, Since(n), t) PROVE DownBy(ids, N, t)
  <2>1. PICK i \in Failed(S) : created[i] <= t /\ \A j \in Of(p) : created[j] <= t => j = i \/ Earlier(j, i)
    BY <1>7 DEF DownAt
  <2>2. i \in S /\ Fails(i)
    BY <1>5 DEF Failed
  <2> HIDE DEF S
  <2>3. PICK m \in 1..N : ids[m] = i
    BY <1>2, <2>2
  <2>4. ASSUME NEW q \in m + 1..N PROVE t < created[ids[q]]
    <3>1. q \in 1..N /\ m < q
      BY <1>2
    <3>2. ids[q] \in Of(p) /\ Earlier(i, ids[q]) /\ created[ids[q]] \in Nat
      BY <1>1, <1>2, <1>4, <2>3, <3>1
    <3>3. i \in Of(p) /\ ~Earlier(ids[q], i) /\ ids[q] # i
      BY <1>1, <1>4, <2>2, <3>2
    <3> QED BY <2>1, <3>2, <3>3
  <2> QED BY <2>1, <2>2, <2>3, <2>4 DEF DownBy
<1> QED BY <1>6, <1>7 DEF ids, N

LEMMA LoopOfAProbe ==
  ASSUME ReportsInv, NEW p, NEW n
  PROVE  LET ids == InOrder(FromText(Of(p), Since(n)))
             end == Scan(ids)[Len(ids)]
             periods == GetDowntimePeriods(p, Since(n)) IN
         /\ end.start \in Nat /\ end.periods \in Seq(Downtime) /\ [start |-> end.start, end |-> now] \in Downtime
         /\ LoopFits(end, ids, Len(ids))
         /\ change = Never => LoopOrdered(end, ids, Len(ids))
         /\ end.start = NoStart => periods = end.periods
         /\ end.start # NoStart => periods = Append(end.periods, [start |-> end.start, end |-> now])
<1> DEFINE ids == InOrder(FromText(Of(p), Since(n)))
           end == Scan(ids)[Len(ids)]
<1>1. FromText(Of(p), Since(n)) \in SUBSET DOMAIN results
  BY DEF Of, FromText
<1>2. LoopFits(end, ids, Len(ids)) /\ (change = Never => LoopOrdered(end, ids, Len(ids)))
  BY <1>1, LoopInvariant
<1>3. GetDowntimePeriods(p, Since(n)) =
        IF end.start = NoStart THEN end.periods ELSE Append(end.periods, [start |-> end.start, end |-> now])
  BY DEF GetDowntimePeriods
<1> HIDE DEF end, ids
<1>4. end.start \in Nat /\ end.periods \in Seq(Downtime)
  BY <1>2 DEF LoopFits, Loops
<1>5. [start |-> end.start, end |-> now] \in Downtime
  BY <1>4, ResultTimes DEF Downtime
<1> QED BY <1>2, <1>3, <1>4, <1>5 DEF end, ids

LEMMA PeriodsAreExact ==
  ASSUME ReportsInv, change = Never, NEW p, NEW n \in Windows
  PROVE  LET periods == GetDowntimePeriods(p, Since(n)) IN
         /\ \A k \in 1..Len(periods) - 1 : periods[k].end <= periods[k + 1].start
         /\ \A t \in Since(n)..now - 1 : DownAt(p, Since(n), t) <=> Covers(periods, t)
<1> DEFINE ids == InOrder(FromText(Of(p), Since(n)))
           N == Len(ids)
           end == Scan(ids)[N]
           periods == GetDowntimePeriods(p, Since(n))
           span == [start |-> end.start, end |-> now]
<1>1. /\ end.start \in Nat /\ end.periods \in Seq(Downtime) /\ span \in Downtime
      /\ LoopOrdered(end, ids, N)
      /\ end.start = NoStart => periods = end.periods
      /\ end.start # NoStart => periods = Append(end.periods, span)
  BY LoopOfAProbe
<1>2. \A t \in Int : DownAt(p, Since(n), t) <=> DownBy(ids, N, t)
  BY DownAtIsDownBy
<1>3. now \in Nat /\ \A t \in Since(n)..now - 1 : t \in Int /\ t < now
  BY ResultTimes, SinceFacts
<1>4. span.start = end.start /\ span.end = now
  OBVIOUS
<1> HIDE DEF ids, N, end, periods, span
<1> DEFINE m == Len(end.periods)
<1>5. m \in Nat /\ \A k \in 1..m - 1 : end.periods[k].end <= end.periods[k + 1].start
  BY <1>1, PeriodFacts DEF LoopOrdered
<1>6. \A t \in Int : DownBy(ids, N, t) <=> Covers(end.periods, t) \/ (end.start # NoStart /\ end.start <= t)
  BY <1>1 DEF LoopOrdered
<1>7. CASE end.start = NoStart
  <2>1. periods = end.periods
    BY <1>1, <1>7
  <2> QED BY <1>2, <1>3, <1>5, <1>6, <1>7, <2>1 DEF periods
<1>8. CASE end.start # NoStart
  <2>1. periods = Append(end.periods, span)
    BY <1>1, <1>8
  <2>2. /\ Len(periods) = m + 1 /\ periods[m + 1] = span
        /\ \A k \in 1..m : periods[k] = end.periods[k]
    BY <1>1, <2>1, AppendFacts
  <2>3. m > 0 => end.periods[m].end <= end.start
    <3>1. m > 0 => end.periods # <<>>
      BY <1>1
    <3> QED BY <1>1, <1>8, <3>1 DEF LoopOrdered, LastEnd
  <2>4. ASSUME NEW k \in 1..Len(periods) - 1 PROVE periods[k].end <= periods[k + 1].start
    <3>1. k \in 1..m /\ Len(periods) - 1 = m
      BY <1>5, <2>2
    <3>2. CASE k = m
      BY <1>4, <1>5, <2>2, <2>3, <3>1, <3>2
    <3>3. CASE k # m
      <4>1. k \in 1..m - 1 /\ k + 1 \in 1..m
        BY <1>5, <3>1, <3>3
      <4> QED BY <1>5, <2>2, <3>1, <4>1
    <3> QED BY <3>2, <3>3
  <2>5. ASSUME NEW t \in Since(n)..now - 1 PROVE DownAt(p, Since(n), t) <=> Covers(periods, t)
    <3>1. t \in Int /\ t < now
      BY <1>3
    <3>2. Covers(periods, t) <=> Covers(end.periods, t) \/ t \in span.start..span.end - 1
      BY <1>1, <2>1, <3>1, CoversMore
    <3>3. t \in span.start..span.end - 1 <=> end.start <= t
      BY <1>1, <1>3, <1>4, <3>1
    <3> QED BY <1>2, <1>6, <1>8, <3>1, <3>2, <3>3
  <2> QED BY <2>4, <2>5 DEF periods
<1> QED BY <1>7, <1>8

LEMMA ReportsFitTime == ReportsInv => DowntimeIsExact
<1> SUFFICES ASSUME ReportsInv, change = Never, NEW p \in DOMAIN probes, NEW n \in Windows
             PROVE  LET periods == GetDowntimePeriods(p, Since(n)) IN
        /\ \A k \in 1..Len(periods) - 1 : periods[k].end <= periods[k + 1].start
        /\ \A t \in Since(n)..now - 1 :
             DownAt(p, Since(n), t) <=> \E k \in DOMAIN periods : t \in periods[k].start..periods[k].end - 1
  BY DEF DowntimeIsExact
<1> QED BY PeriodsAreExact DEF Covers

----------------------------------------------------------------------------
(* Bars add up: the groups of a set have as many elements together as the  *)
(* set.                                                                    *)
LEMMA GroupsAddUp ==
  ASSUME NEW S, IsFiniteSet(S), NEW group \in [S -> Int], NEW groups, NEW f,
         \A i \in S : group[i] \in DOMAIN groups,
         \A g \in DOMAIN groups : groups[g][f] = Cardinality({i \in S : group[i] = g})
  PROVE  Sum(groups, f) = Cardinality(S)
<1> DEFINE Members(g) == {i \in S : group[i] = g}
           Number(g)  == 1..Cardinality(Members(g))
           G == DOMAIN groups
           U == UNION {{g} \X (1..groups[g][f]) : g \in G}
<1>1. ASSUME NEW g \in G
      PROVE  ExistsBijection(Number(g), Members(g))
  <2>1. Members(g) \in SUBSET S
    OBVIOUS
  <2>2. IsFiniteSet(Members(g))
    BY <2>1, FS_Subset
  <2> HIDE DEF Members
  <2> QED BY <2>2, FS_CardinalityType
<1> DEFINE nth == [g \in G |-> CHOOSE b : b \in Bijection(Number(g), Members(g))]
<1>2. ASSUME NEW g \in G
      PROVE  nth[g] \in Bijection(Number(g), Members(g))
  <2>1. \E b : b \in Bijection(Number(g), Members(g))
    BY <1>1 DEF ExistsBijection
  <2> HIDE DEF Number, Members
  <2> QED BY <2>1
<1> HIDE DEF nth
<1>3. ASSUME NEW g \in G
      PROVE  /\ \A k \in Number(g) : nth[g][k] \in S /\ group[nth[g][k]] = g
             /\ \A k, m \in Number(g) : nth[g][k] = nth[g][m] => k = m
             /\ \A i \in Members(g) : \E k \in Number(g) : nth[g][k] = i
  <2> HIDE DEF Number
  <2>1. nth[g] \in Injection(Number(g), Members(g)) /\ nth[g] \in Surjection(Number(g), Members(g))
    BY <1>2 DEF Bijection
  <2>2. nth[g] \in [Number(g) -> Members(g)]
    BY <2>1 DEF Injection
  <2>3. \A k, m \in Number(g) : nth[g][k] = nth[g][m] => k = m
    BY <2>1 DEF Injection, IsInjective
  <2>4. \A i \in Members(g) : \E k \in Number(g) : nth[g][k] = i
    BY <2>1 DEF Surjection
  <2> QED BY <2>2, <2>3, <2>4
<1>4. \A u : u \in U <=> \E g \in G : \E k \in Number(g) : u = <<g, k>>
  <2>1. \A g \in G : 1..groups[g][f] = Number(g)
    OBVIOUS
  <2>2. \A u : u \in U <=> \E g \in G : u \in {g} \X Number(g)
    BY <2>1
  <2> HIDE DEF Number, U
  <2>3. \A g, u : u \in {g} \X Number(g) <=> \E k \in Number(g) : u = <<g, k>>
    OBVIOUS
  <2> QED BY <2>2, <2>3
<1> DEFINE F == [u \in U |-> nth[u[1]][u[2]]]
<1> HIDE DEF U, Number
<1>5. \A g \in G : \A k \in Number(g) : <<g, k>> \in U /\ F[<<g, k>>] = nth[g][k]
  BY <1>4
<1>6. F \in [U -> S]
  <2>1. \A u \in U : F[u] \in S
    BY <1>3, <1>4
  <2> QED BY <2>1
<1>7. \A u, v \in U : F[u] = F[v] => u = v
  <2> SUFFICES ASSUME NEW u \in U, NEW v \in U, F[u] = F[v] PROVE u = v
    OBVIOUS
  <2>1. PICK g \in G : \E k \in Number(g) : u = <<g, k>>
    BY <1>4
  <2>2. PICK k \in Number(g) : u = <<g, k>>
    BY <2>1
  <2>3. PICK h \in G : \E m \in Number(h) : v = <<h, m>>
    BY <1>4
  <2>4. PICK m \in Number(h) : v = <<h, m>>
    BY <2>3
  <2>5. F[u] = nth[g][k] /\ F[v] = nth[h][m]
    BY <1>5, <2>2, <2>4
  <2> HIDE DEF F
  <2>6. group[nth[g][k]] = g /\ group[nth[h][m]] = h
    BY <1>3
  <2>7. g = h
    BY <2>5, <2>6
  <2>8. \A a, b \in Number(g) : nth[g][a] = nth[g][b] => a = b
    BY <1>3
  <2>9. k = m
    BY <2>5, <2>7, <2>8
  <2> QED BY <2>2, <2>4, <2>7, <2>9
<1>8. \A i \in S : \E u \in U : F[u] = i
  <2> SUFFICES ASSUME NEW i \in S PROVE \E u \in U : F[u] = i
    OBVIOUS
  <2>1. group[i] \in G /\ i \in Members(group[i])
    OBVIOUS
  <2>2. PICK k \in Number(group[i]) : nth[group[i]][k] = i
    BY <1>3, <2>1
  <2> QED BY <1>5, <2>1, <2>2
<1> HIDE DEF F
<1>9. F \in Bijection(U, S)
  BY <1>6, <1>7, <1>8 DEF Bijection, Injection, Surjection, IsInjective
<1>10. IsFiniteSet(U) /\ Cardinality(U) = Cardinality(S)
  <2>1. F \in Injection(U, S) /\ F \in Surjection(U, S)
    BY <1>9 DEF Bijection
  <2>2. IsFiniteSet(U)
    BY <2>1, FS_Injection
  <2>3. ExistsBijection(U, S)
    BY <1>9 DEF ExistsBijection
  <2> QED BY <2>2, <2>3, FS_Bijection
<1> QED BY <1>10 DEF Sum, U

LEMMA BarsAddUp ==
  ASSUME ReportsInv, NEW S \in SUBSET DOMAIN results, NEW len \in Nat, len > 0
  PROVE  /\ Sum(Grouped(S, len), "total") = Cardinality(S)
         /\ Sum(Grouped(S, len), "failed") = Cardinality(Failed(S))
<1> DEFINE group == [i \in S |-> Wall(created[i]) \div len]
           bars  == Grouped(S, len)
           G     == {Wall(created[i]) \div len : i \in S}
<1>1. \A i \in S : Wall(created[i]) \div len \in Int
  BY ResultTimes, DivFacts
<1>2. group \in [S -> Int] /\ \A i \in S : group[i] \in G
  BY <1>1
<1>3. /\ DOMAIN bars = G
      /\ \A g \in G : /\ bars[g]["total"] = Cardinality({i \in S : Wall(created[i]) \div len = g})
                      /\ bars[g]["failed"] = Cardinality(Failed({i \in S : Wall(created[i]) \div len = g}))
  BY DEF Grouped
<1>4. IsFiniteSet(S) /\ IsFiniteSet(Failed(S)) /\ Failed(S) \subseteq S
  <2>1. IsFiniteSet(S)
    BY ResultTimes, FS_Subset
  <2>2. Failed(S) \in SUBSET S
    BY DEF Failed
  <2> QED BY <2>1, <2>2, FS_Subset
<1> HIDE DEF bars, G
<1>5. Sum(bars, "total") = Cardinality(S)
  <2>1. \A g \in G : {i \in S : Wall(created[i]) \div len = g} = {i \in S : group[i] = g}
    OBVIOUS
  <2>2. \A g \in DOMAIN bars : bars[g]["total"] = Cardinality({i \in S : group[i] = g})
    BY <1>3, <2>1
  <2>3. \A i \in S : group[i] \in DOMAIN bars
    BY <1>2, <1>3
  <2> HIDE DEF group
  <2> QED BY <1>2, <1>4, <2>2, <2>3, GroupsAddUp
<1>6. Sum(bars, "failed") = Cardinality(Failed(S))
  <2> DEFINE part == [i \in Failed(S) |-> group[i]]
  <2>1. \A g \in G : Failed({i \in S : Wall(created[i]) \div len = g}) = {i \in Failed(S) : part[i] = g}
    BY DEF Failed
  <2>2. \A g \in DOMAIN bars : bars[g]["failed"] = Cardinality({i \in Failed(S) : part[i] = g})
    BY <1>3, <2>1
  <2>3. part \in [Failed(S) -> Int] /\ \A i \in Failed(S) : part[i] \in DOMAIN bars
    BY <1>2, <1>3, <1>4
  <2> HIDE DEF part
  <2> QED BY <1>4, <2>2, <2>3, GroupsAddUp
<1> QED BY <1>5, <1>6 DEF bars

LEMMA SuccessesAndFailures ==
  ASSUME ReportsInv, NEW S \in SUBSET DOMAIN results
  PROVE  Cardinality(Failed(S)) = Cardinality(S) - Cardinality(S \ Failed(S))
<1>1. IsFiniteSet(S)
  BY ResultTimes, FS_Subset
<1>2. Failed(S) \in SUBSET S
  BY DEF Failed
<1>3. S \cap Failed(S) = Failed(S) /\ IsFiniteSet(Failed(S))
  BY <1>1, <1>2, FS_Subset
<1>4. Cardinality(S \ Failed(S)) = Cardinality(S) - Cardinality(Failed(S))
  BY <1>1, <1>3, FS_Difference
<1>5. Cardinality(S) \in Nat /\ Cardinality(Failed(S)) \in Nat
  BY <1>1, <1>3, FS_CardinalityType
<1> QED BY <1>4, <1>5

(* The four parts of SummariesAgree. *)
LEMMA TodayAgrees ==
  ASSUME ReportsInv, NEW p \in Reported
  PROVE  LET bars == GetDailySummary(p, 1) IN
         /\ DOMAIN bars \subseteq {Today}
         /\ Sum(bars, "total") = GetStats(1)[p].todayTotal
         /\ Sum(bars, "failed") = GetStats(1)[p].todayTotal - GetStats(1)[p].todaySuccess
         /\ GetStatsRange(Today, Today)[p].total = GetStats(1)[p].todayTotal
<1> DEFINE S == OnDays(Of(p), Today, Today)
           bars == GetDailySummary(p, 1)
<1>1. S \in SUBSET DOMAIN results
  BY DEF OnDays, Of
<1>2. Today \in Int
  <2>1. change \in Int /\ now \in Nat
    BY TimesArePositive, ResultTimes DEF ReportsInv, TypeOK, Never
  <2>2. Wall(now) \in Int
    BY <2>1, TimesArePositive DEF Wall
  <2> QED BY <2>2, TimesArePositive, DivFacts DEF Today, Day
<1>3. bars = Grouped(S, DayLen)
  <2>1. FirstDay(1) = Today
    BY <1>2 DEF FirstDay
  <2> QED BY <2>1 DEF GetDailySummary
<1>4. /\ GetStats(1)[p].todayTotal = Cardinality(S)
      /\ GetStats(1)[p].todaySuccess = Cardinality(S \ Failed(S))
      /\ GetStatsRange(Today, Today)[p].total = Cardinality(S)
  BY DEF GetStats, GetStatsRange, Counts
<1>5. DOMAIN bars \subseteq {Today}
  <2>1. \A i \in S : Wall(created[i]) \div DayLen \in Today..Today
    BY DEF OnDays, Day
  <2>2. \A i \in S : Wall(created[i]) \div DayLen = Today
    BY <1>2, <2>1
  <2>3. DOMAIN bars = {Wall(created[i]) \div DayLen : i \in S}
    BY <1>3 DEF Grouped
  <2> HIDE DEF bars, S
  <2> QED BY <2>2, <2>3
<1> HIDE DEF S, bars
<1>6. Sum(bars, "total") = Cardinality(S) /\ Sum(bars, "failed") = Cardinality(Failed(S))
  BY <1>1, <1>3, BarsAddUp, TimesArePositive
<1>7. Cardinality(Failed(S)) = Cardinality(S) - Cardinality(S \ Failed(S))
  BY <1>1, SuccessesAndFailures
<1> QED BY <1>4, <1>5, <1>6, <1>7 DEF bars

LEMMA DaysAgree ==
  ASSUME NEW p \in Reported, NEW n
  PROVE  GetDailySummary(p, n) = GetDailyStats(n)[p]
BY DEF GetDailySummary, GetDailyStats, GetDailyStatsRange, FirstDay

LEMMA HoursAgree ==
  ASSUME ReportsInv, NEW p \in Reported, NEW n \in Windows
  PROVE  LET bars  == GetHourlyStats(n)[p]
             all   == GetStats(n)[p]
             exact == change = Never /\ \A i \in Of(p) : created[i] \notin (Since(n) - SecLen)..(Since(n) - 1) IN
         /\ Sum(bars, "total") <= all.total
         /\ exact => /\ Sum(bars, "total") = all.total
                     /\ Sum(bars, "failed") = all.total - all.success
<1> DEFINE S == FromText(Of(p), Since(n))
           H == {i \in S : created[i] >= Since(n)}
           bars == GetHourlyStats(n)[p]
           all  == GetStats(n)[p]
           exact == change = Never /\ \A i \in Of(p) : created[i] \notin (Since(n) - SecLen)..(Since(n) - 1)
<1>1. S \in SUBSET DOMAIN results /\ H \in SUBSET DOMAIN results /\ H \in SUBSET S /\ S \in SUBSET Of(p)
  BY DEF FromText, Of
<1>2. bars = Grouped(H, HourLen)
  BY DEF GetHourlyStats
<1>3. all.total = Cardinality(S) /\ all.success = Cardinality(S \ Failed(S))
  BY DEF GetStats, Counts
<1>4. exact => H = S
  <2> SUFFICES ASSUME exact, NEW i \in S PROVE created[i] >= Since(n)
    OBVIOUS
  <2> DEFINE c == created[i]
             s == Since(n)
  <2>1. c \in Nat /\ Wall(c) = c /\ s \in Int /\ Wall(s) = s
    BY <1>1, ResultTimes, SinceFacts
  <2>2. c \notin (s - SecLen)..(s - 1)
    BY <1>1
  <2>3. c \div SecLen >= s \div SecLen
    BY <2>1 DEF FromText, Second
  <2> HIDE DEF c, s
  <2> DEFINE x == c \div SecLen
             y == s \div SecLen
  <2>4. x \in Int /\ y \in Int /\ SecLen * x <= c /\ s < SecLen * y + SecLen
    BY <2>1, TimesArePositive, DivFacts
  <2>5. y <= x
    BY <2>3, <2>4
  <2> HIDE DEF x, y
  <2>6. SecLen * y <= SecLen * x /\ SecLen * y \in Int /\ SecLen * x \in Int
    BY <2>4, <2>5, TimesArePositive, SMTT(30)
  <2>7. s - SecLen < c
    BY <2>1, <2>4, <2>6, TimesArePositive
  <2> QED BY <2>1, <2>2, <2>7, TimesArePositive DEF c, s
<1> HIDE DEF H, S, bars, all, exact
<1>5. Sum(bars, "total") = Cardinality(H) /\ Sum(bars, "failed") = Cardinality(Failed(H))
  BY <1>1, <1>2, BarsAddUp, TimesArePositive
<1>6. Cardinality(H) <= Cardinality(S)
  <2>1. IsFiniteSet(S)
    BY <1>1, ResultTimes, FS_Subset
  <2> QED BY <1>1, <2>1, FS_Subset
<1>7. Cardinality(Failed(S)) = Cardinality(S) - Cardinality(S \ Failed(S))
  BY <1>1, SuccessesAndFailures
<1>8. Sum(bars, "total") <= all.total
  BY <1>3, <1>5, <1>6
<1>9. exact => Sum(bars, "total") = all.total /\ Sum(bars, "failed") = all.total - all.success
  BY <1>3, <1>4, <1>5, <1>7
<1> QED BY <1>8, <1>9 DEF bars, all, exact

LEMMA LastStatusAgrees ==
  ASSUME ReportsInv, NEW p, NEW n, NEW i \in Latest(p) \cap FromText(Of(p), Since(n)),
         \A j \in Of(p) : created[j] < now
  PROVE  LET periods == GetDowntimePeriods(p, Since(n)) IN
         i \in Failed(Of(p)) <=> periods # <<>> /\ LastEnd(periods) = now
<1> DEFINE S == FromText(Of(p), Since(n))
           ids == InOrder(S)
           N == Len(ids)
           end == Scan(ids)[N]
           periods == GetDowntimePeriods(p, Since(n))
           span == [start |-> end.start, end |-> now]
<1>1. S \in SUBSET DOMAIN results /\ S \in SUBSET Of(p) /\ i \in S
      /\ \A j \in Of(p) : j # i => Earlier(j, i)
  BY DEF FromText, Of, Latest
<1>2. /\ N \in Nat
      /\ \A j \in S : \E k \in 1..N : ids[k] = j
      /\ \A k \in 1..N : ids[k] \in S
      /\ \A k, m \in 1..N : k < m => Earlier(ids[k], ids[m])
  BY <1>1, InOrderFacts
<1>3. /\ end.start \in Nat /\ end.periods \in Seq(Downtime) /\ span \in Downtime
      /\ LoopFits(end, ids, N)
      /\ end.start = NoStart => periods = end.periods
      /\ end.start # NoStart => periods = Append(end.periods, span)
  BY LoopOfAProbe
<1>4. \A j \in S : ~(Earlier(i, j) /\ Earlier(j, i)) /\ ~Earlier(j, j)
  <2>1. \A j \in S : Wall(created[j]) \in Int /\ j \in Nat
    BY <1>1, ResultTimes
  <2> QED BY <1>1, <2>1 DEF Earlier
<1>5. i \in Failed(Of(p)) <=> Fails(i)
  BY <1>1 DEF Failed, Fails
<1>6. \A j \in S : created[j] < now /\ created[j] \in Nat
  BY <1>1, ResultTimes
<1>7. span.end = now /\ now \in Nat
  BY ResultTimes
<1> HIDE DEF S, ids, N, end, periods, span
(* The last row of the loop is the latest result. *)
<1>8. N > 0 /\ ids[N] = i
  <2>1. PICK k \in 1..N : ids[k] = i
    BY <1>1, <1>2
  <2>2. CASE k = N
    BY <1>2, <2>1, <2>2
  <2>3. CASE k # N
    <3>1. N \in 1..N /\ k < N
      BY <1>2, <2>3
    <3>2. Earlier(i, ids[N]) /\ ids[N] \in S
      BY <1>2, <2>1, <3>1
    <3>3. ids[N] # i
      BY <1>1, <1>4, <3>2
    <3>4. Earlier(ids[N], i)
      BY <1>1, <3>2, <3>3
    <3> QED BY <1>4, <3>2, <3>4
  <2> QED BY <2>2, <2>3
<1>9. Fails(i) <=> end.start # NoStart
  BY <1>3, <1>8 DEF LoopFits
<1>10. CASE end.start # NoStart
  <2> DEFINE m == Len(end.periods)
  <2>1. m \in Nat /\ Len(periods) = m + 1 /\ periods[m + 1] = span
    BY <1>3, <1>10, AppendFacts
  <2>2. LastEnd(periods) = now
    BY <1>7, <2>1 DEF LastEnd
  <2>3. periods # <<>>
    BY <2>1
  <2> QED BY <1>5, <1>9, <1>10, <2>2, <2>3 DEF periods
<1>11. CASE end.start = NoStart
  <2> DEFINE m == Len(periods)
  <2>1. periods = end.periods /\ m \in Nat /\ DOMAIN periods = 1..m
    BY <1>3, <1>11, PeriodFacts
  <2>2. ASSUME periods # <<>> PROVE LastEnd(periods) # now
    <3>1. m \in DOMAIN periods
      BY <1>3, <2>1, <2>2
    <3>2. \E q \in 1..N : periods[m].end = created[ids[q]]
      BY <1>3, <2>1, <3>1 DEF LoopFits
    <3>3. periods[m].end < now /\ periods[m].end \in Nat
      BY <1>2, <1>6, <3>2
    <3> QED BY <1>7, <3>3 DEF LastEnd
  <2> QED BY <1>5, <1>9, <1>11, <2>2 DEF periods
<1> QED BY <1>10, <1>11

LEMMA ReportsFitEachOther == ReportsInv => SummariesAgree
<1> SUFFICES ASSUME ReportsInv PROVE SummariesAgree
  OBVIOUS
<1> USE TodayAgrees, DaysAgree, HoursAgree, LastStatusAgrees
<1> QED BY DEF SummariesAgree

(* The reports never contradict each other: for any number of results, of  *)
(* hours and of days, and wherever the clocks change.                      *)
THEOREM SummariesAlwaysAgree == Spec => []SummariesAgree
BY ReportsInvariant, ReportsFitEachOther, PTL

(* Downtime periods are in order and cover what they should, in whatever   *)
(* order results were inserted, as long as the clocks do not change.       *)
THEOREM DowntimeIsAlwaysExact == Spec => []DowntimeIsExact
BY ReportsInvariant, ReportsFitTime, PTL
==============================================================================
