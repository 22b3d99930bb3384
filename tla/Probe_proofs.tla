---------------------------- MODULE Probe_proofs -----------------------------
(***************************************************************************)
(* The package probe: one probe, and the engine that runs probe cycles.    *)
(***************************************************************************)
EXTENDS ProbeEngine, Probing, FiniteSetTheorems, TLAPS

(***************************************************************************)
(* A probe, for any number of retries, any timeout, and streams of any     *)
(* length with any ids: timeouts are the deadline's, a request id is that  *)
(* of the answer, and the verdict is the one of the whole text.            *)
(***************************************************************************)

(* A request is only sent while retries are left, and a call that has come *)
(* to the deadline has come to it in time.                                 *)
Control ==
  /\ at \in {"send", "backoff"} => attempts <= Retries
  /\ at # "send" => attempts # 0
  /\ at \in {"send", "wait", "backoff", "body"} <=> cause = "none"
  /\ cause = "deadline" => now = Timeout
  /\ at # "done" => result = NoResult

(* The header is the newest of those that named an attempt. *)
Newest ==
  /\ header \in named \cup {0}
  /\ named # {} => header # 0
  /\ attempts \in named => header = attempts

----------------------------------------------------------------------------
Identified == {i \in DOMAIN sent : sent[i].id # 0}

(* The id of the accumulator is the first one of the stream. *)
FirstId ==
  IF Identified = {} THEN acc.id = 0
  ELSE \E j \in Identified : acc.id = sent[j].id /\ \A k \in Identified : j <= k

Visible == KeptWith({"word", "half", "phrase"})
Phrases == KeptWith({"phrase"})
Halves  == KeptWith({"half"})

(* What the accumulator knows of the text. *)
Accumulated ==
  /\ acc.choices \in BOOLEAN /\ acc.visible \in BOOLEAN /\ acc.halves \in 0..2
  /\ acc.visible <=> Visible # {}
  /\ acc.visible => acc.choices
  /\ acc.halves = 0 => Phrases = {} /\ Halves = {}
  /\ acc.halves = 1 => Phrases = {} /\ \E i : Halves = {i}
  /\ acc.halves = 2 => Phrases # {} \/ \E i, j \in Halves : i # j

Stream == sent \in Seq(Chunks) /\ FirstId /\ Accumulated

(* What the verdict was made of. *)
Decided ==
  at = "done" =>
    /\ Failed => \/ result.status = "timeout" /\ now = Timeout
                 \/ result.status = "error" /\ cause # "deadline"
    /\ ~Failed => result.status = Classified /\ result.request = RequestID

ProbingInv == ProbingTypeOK /\ Control /\ Newest /\ Stream /\ Decided

----------------------------------------------------------------------------
LEMMA AppendFacts ==
  ASSUME NEW S, NEW s \in Seq(S), NEW x \in S
  PROVE  /\ Append(s, x) \in Seq(S)
         /\ DOMAIN Append(s, x) = DOMAIN s \cup {Len(s) + 1}
         /\ Append(s, x)[Len(s) + 1] = x
         /\ \A i \in DOMAIN s : Append(s, x)[i] = s[i]
         /\ \A i \in DOMAIN s : i \in Int /\ i < Len(s) + 1
         /\ Len(s) + 1 \in Int
OBVIOUS

LEMMA ChunkIs ==
  ASSUME NEW c \in Chunks
  PROVE  c.id \in ChunkIds \cup {0} /\ c.piece \in Pieces
BY DEF Chunks

(* What the accumulator keeps of a longer stream. *)
LEMMA KeptAfterChunk ==
  ASSUME NEW c \in Chunks, sent \in Seq(Chunks), sent' = Append(sent, c), FirstId
  PROVE  Kept' = IF acc.id \in {0, c.id} THEN Kept \cup {Len(sent) + 1} ELSE Kept
<1> DEFINE n == Len(sent) + 1
<1>1. /\ DOMAIN sent' = DOMAIN sent \cup {n} /\ n \notin DOMAIN sent
      /\ sent'[n] = c /\ \A i \in DOMAIN sent : sent'[i] = sent[i]
      /\ n \in Int /\ \A i \in DOMAIN sent : i \in Int /\ i < n
  BY AppendFacts
<1> HIDE DEF n
<1>2. Identified' = IF c.id # 0 THEN Identified \cup {n} ELSE Identified
  BY <1>1 DEF Identified
<1>3. Kept = {i \in DOMAIN sent : \/ \A j \in Identified : i < j
                                  \/ \E j \in Identified : sent[i].id = sent[j].id /\ \A k \in Identified : j <= k}
  BY DEF Kept, Identified
<1>4. Kept' = {i \in DOMAIN sent' : \/ \A j \in Identified' : i < j
                                    \/ \E j \in Identified' : sent'[i].id = sent'[j].id /\ \A k \in Identified' : j <= k}
  BY DEF Kept, Identified
<1>5. Identified \subseteq DOMAIN sent
  BY DEF Identified
<1>6. ASSUME NEW i \in DOMAIN sent PROVE i \in Kept' <=> i \in Kept
  <2>1. CASE Identified = {}
    BY <1>1, <1>2, <1>3, <1>4, <1>6, <2>1
  <2>2. CASE Identified # {}
    <3>1. PICK f \in Identified : \A k \in Identified : f <= k
      BY <2>2 DEF FirstId
    <3>2. f \in Identified' /\ \A k \in Identified' : f <= k
      BY <1>1, <1>2, <1>5, <3>1
    <3>3. \A j \in Identified : (\A k \in Identified : j <= k) => j = f
      BY <1>1, <1>5, <3>1
    <3>4. \A j \in Identified' : (\A k \in Identified' : j <= k) => j = f
      BY <1>1, <1>2, <1>5, <3>1, <3>2
    <3>5. (\A j \in Identified : i < j) <=> i < f
      BY <1>1, <1>5, <1>6, <3>1
    <3>6. (\A j \in Identified' : i < j) <=> i < f
      BY <1>1, <1>2, <1>5, <1>6, <3>2
    <3>7. sent'[i] = sent[i] /\ sent'[f] = sent[f]
      BY <1>1, <1>5, <1>6, <3>1
    <3>8. i \in Kept <=> i < f \/ sent[i].id = sent[f].id
      BY <1>3, <1>6, <3>1, <3>3, <3>5
    <3>9. i \in Kept' <=> i < f \/ sent'[i].id = sent'[f].id
      BY <1>1, <1>4, <1>6, <3>2, <3>4, <3>6
    <3> QED BY <3>7, <3>8, <3>9
  <2> QED BY <2>1, <2>2
<1>7. n \in Kept' <=> acc.id \in {0, c.id}
  <2>1. CASE Identified = {}
    <3>1. acc.id = 0
      BY <2>1 DEF FirstId
    <3>2. CASE c.id = 0
      BY <1>1, <1>2, <1>4, <2>1, <3>1, <3>2
    <3>3. CASE c.id # 0
      <4>1. Identified' = {n} /\ n <= n
        BY <1>1, <1>2, <2>1, <3>3
      <4> QED BY <1>1, <1>4, <3>1, <4>1
    <3> QED BY <3>2, <3>3
  <2>2. CASE Identified # {}
    <3>1. PICK f \in Identified : acc.id = sent[f].id /\ \A k \in Identified : f <= k
      BY <2>2 DEF FirstId
    <3>2. f \in Identified' /\ \A k \in Identified' : f <= k
      BY <1>1, <1>2, <1>5, <3>1
    <3>3. \A j \in Identified' : (\A k \in Identified' : j <= k) => j = f
      BY <1>1, <1>2, <1>5, <3>1, <3>2
    <3>4. ~(\A j \in Identified' : n < j)
      BY <1>1, <1>5, <3>1, <3>2
    <3>5. sent'[f] = sent[f] /\ sent'[n] = c /\ acc.id # 0
      BY <1>1, <1>5, <3>1 DEF Identified
    <3>6. n \in Kept' <=> sent'[n].id = sent'[f].id
      BY <1>1, <1>4, <3>2, <3>3, <3>4
    <3> QED BY <3>1, <3>5, <3>6
  <2> QED BY <2>1, <2>2
<1>8. Kept \subseteq DOMAIN sent /\ Kept' \subseteq DOMAIN sent \cup {n}
  BY <1>1, <1>3, <1>4
<1>9. Kept' = IF acc.id \in {0, c.id} THEN Kept \cup {n} ELSE Kept
  BY <1>6, <1>7, <1>8
<1> QED BY <1>9 DEF n

LEMMA FirstIdAfterChunk ==
  ASSUME NEW c \in Chunks, sent \in Seq(Chunks), sent' = Append(sent, c), FirstId,
         acc' = AddChunk(c)
  PROVE  FirstId'
<1> DEFINE n == Len(sent) + 1
<1>1. /\ DOMAIN sent' = DOMAIN sent \cup {n} /\ n \notin DOMAIN sent
      /\ sent'[n] = c /\ \A i \in DOMAIN sent : sent'[i] = sent[i]
      /\ n \in Int /\ \A i \in DOMAIN sent : i \in Int /\ i < n
  BY AppendFacts
<1> HIDE DEF n
<1>2. Identified' = IF c.id # 0 THEN Identified \cup {n} ELSE Identified
  BY <1>1 DEF Identified
<1>3. Identified \subseteq DOMAIN sent
  BY DEF Identified
<1>4. acc'.id = IF acc.id \notin {0, c.id} THEN acc.id ELSE c.id
  BY DEF AddChunk
<1>5. CASE Identified = {}
  <2>1. acc.id = 0 /\ acc'.id = c.id
    BY <1>4, <1>5 DEF FirstId
  <2>2. CASE c.id = 0
    BY <1>2, <1>5, <2>1, <2>2 DEF FirstId
  <2>3. CASE c.id # 0
    <3>1. Identified' = {n} /\ n <= n
      BY <1>1, <1>2, <1>5, <2>3
    <3> QED BY <1>1, <2>1, <3>1 DEF FirstId
  <2> QED BY <2>2, <2>3
<1>6. CASE Identified # {}
  <2>1. PICK f \in Identified : acc.id = sent[f].id /\ \A k \in Identified : f <= k
    BY <1>6 DEF FirstId
  <2>2. f \in Identified' /\ (\A k \in Identified' : f <= k) /\ sent'[f] = sent[f]
    BY <1>1, <1>2, <1>3, <2>1
  <2>3. acc'.id = sent'[f].id
    BY <1>4, <2>1, <2>2 DEF Identified
  <2> QED BY <2>2, <2>3 DEF FirstId
<1> QED BY <1>5, <1>6

LEMMA AccumulatedAfterChunk ==
  ASSUME NEW c \in Chunks, Stream, sent' = Append(sent, c), acc' = AddChunk(c)
  PROVE  Accumulated'
<1> DEFINE n == Len(sent) + 1
<1>1. /\ DOMAIN sent' = DOMAIN sent \cup {n} /\ n \notin DOMAIN sent
      /\ sent'[n] = c /\ \A i \in DOMAIN sent : sent'[i] = sent[i]
  BY AppendFacts DEF Stream
<1>2. Kept' = IF acc.id \in {0, c.id} THEN Kept \cup {n} ELSE Kept
  BY KeptAfterChunk DEF Stream
<1>3. Kept \subseteq DOMAIN sent
  BY DEF Kept
<1> HIDE DEF n
<1>4. CASE acc.id \notin {0, c.id}
  <2>1. acc' = acc /\ Kept' = Kept
    BY <1>2, <1>4 DEF AddChunk
  <2>2. \A pieces : {i \in Kept' : sent'[i].piece \in pieces} = {i \in Kept : sent[i].piece \in pieces}
    BY <1>1, <1>3, <2>1
  <2>3. Visible' = Visible /\ Phrases' = Phrases /\ Halves' = Halves
    BY <2>2 DEF Visible, Phrases, Halves, KeptWith
  <2> QED BY <2>1, <2>3 DEF Stream, Accumulated
<1>5. CASE acc.id \in {0, c.id}
  <2>1. Kept' = Kept \cup {n} /\ n \notin Kept
    BY <1>1, <1>2, <1>3, <1>5
  <2>2. Visible' = IF c.piece \in {"word", "half", "phrase"} THEN Visible \cup {n} ELSE Visible
    BY <1>1, <1>3, <2>1 DEF Visible, KeptWith
  <2>3. Phrases' = IF c.piece = "phrase" THEN Phrases \cup {n} ELSE Phrases
    BY <1>1, <1>3, <2>1 DEF Phrases, KeptWith
  <2>4. Halves' = IF c.piece = "half" THEN Halves \cup {n} ELSE Halves
    BY <1>1, <1>3, <2>1 DEF Halves, KeptWith
  <2>5. n \notin Halves
    BY <2>1 DEF Halves, KeptWith
  <2>6. /\ acc'.choices = (acc.choices \/ c.piece # "none")
        /\ acc'.visible = (acc.visible \/ c.piece \in {"word", "half", "phrase"})
        /\ acc'.halves = CASE c.piece = "phrase" -> 2
                           [] c.piece = "half" /\ acc.halves < 2 -> acc.halves + 1
                           [] OTHER -> acc.halves
    BY <1>5 DEF AddChunk
  <2>7. Accumulated
    BY DEF Stream
  <2>8. CASE c.piece = "phrase"
    <3>1. acc'.choices /\ acc'.visible /\ acc'.halves = 2
      BY <2>6, <2>7, <2>8 DEF Accumulated
    <3>2. Visible' # {} /\ Phrases' # {}
      BY <2>2, <2>3, <2>8
    <3> QED BY <3>1, <3>2, <2>6, <2>7 DEF Accumulated
  <2>9. CASE c.piece = "half"
    <3>1. acc'.choices \in BOOLEAN /\ acc'.choices /\ acc'.visible \in BOOLEAN /\ acc'.visible
      BY <2>6, <2>7, <2>9 DEF Accumulated
    <3>2. acc'.halves = IF acc.halves < 2 THEN acc.halves + 1 ELSE acc.halves
      BY <2>6, <2>9
    <3>3. Visible' # {} /\ Phrases' = Phrases /\ Halves' = Halves \cup {n}
      BY <2>2, <2>3, <2>4, <2>9
    <3>4. CASE acc.halves = 0
      <4>1. acc'.halves = 1 /\ Phrases' = {} /\ Halves' = {n}
        BY <2>7, <3>2, <3>3, <3>4 DEF Accumulated
      <4>2. acc'.halves \in 0..2 /\ acc'.halves # 0 /\ acc'.halves # 2
        BY <4>1
      <4>3. \E i : Halves' = {i}
        BY <4>1
      <4> QED BY <3>1, <3>3, <4>1, <4>2, <4>3 DEF Accumulated
    <3>5. CASE acc.halves = 1
      <4>1. PICK i : Halves = {i}
        BY <2>7, <3>5 DEF Accumulated
      <4>2. i \in Halves' /\ n \in Halves' /\ i # n /\ acc'.halves = 2
        BY <2>5, <3>2, <3>3, <3>5, <4>1
      <4>3. /\ acc'.halves \in 0..2 /\ acc'.halves # 0 /\ acc'.halves # 1
            /\ \E k, j \in Halves' : k # j
        BY <4>2
      <4> QED BY <3>1, <3>3, <4>3 DEF Accumulated
    <3>6. CASE acc.halves = 2
      <4>1. acc'.halves = 2
        BY <3>2, <3>6
      <4>2. Phrases # {} \/ \E i, j \in Halves : i # j
        BY <2>7, <3>6 DEF Accumulated
      <4>3. Phrases' = Phrases /\ Halves \subseteq Halves'
        BY <3>3
      <4>4. Phrases' # {} \/ \E i, j \in Halves' : i # j
        <5>1. CASE Phrases # {}
          BY <4>3, <5>1
        <5>2. CASE \E i, j \in Halves : i # j
          <6>1. PICK i \in Halves, j \in Halves : i # j
            BY <5>2, Zenon
          <6>2. i \in Halves' /\ j \in Halves'
            BY <4>3
          <6> QED BY <6>1, <6>2, Zenon
        <5> QED BY <4>2, <5>1, <5>2
      <4>5. /\ acc'.halves \in 0..2 /\ acc'.halves # 0 /\ acc'.halves # 1
            /\ Phrases' # {} \/ \E i, j \in Halves' : i # j
        BY <4>1, <4>4
      <4>6. /\ acc'.choices \in BOOLEAN /\ acc'.visible \in BOOLEAN
            /\ acc'.visible <=> Visible' # {}
            /\ acc'.visible => acc'.choices
        BY <3>1, <3>3
      <4> QED BY <4>5, <4>6 DEF Accumulated
    <3>7. acc.halves \in {0, 1, 2}
      BY <2>7 DEF Accumulated
    <3> QED BY <3>4, <3>5, <3>6, <3>7
  <2>10. CASE c.piece \notin {"half", "phrase"}
    <3>1. acc'.halves = acc.halves /\ Phrases' = Phrases /\ Halves' = Halves
      BY <2>3, <2>4, <2>6, <2>10
    <3>2. /\ acc'.choices \in BOOLEAN /\ acc'.visible \in BOOLEAN
          /\ acc'.visible <=> Visible' # {}
          /\ acc'.visible => acc'.choices
      BY <2>2, <2>6, <2>7, <2>10 DEF Accumulated
    <3> QED BY <2>7, <3>1, <3>2 DEF Accumulated
  <2> QED BY <2>8, <2>9, <2>10
<1> QED BY <1>4, <1>5

(* Two halves are at least two chunks. *)
LEMMA TwoHalves ==
  ASSUME sent \in Seq(Chunks)
  PROVE  Cardinality(Halves) > 1 <=> \E i, j \in Halves : i # j
<1>1. IsFiniteSet(1..Len(sent))
  BY FS_Interval
<1>2. Halves \subseteq 1..Len(sent)
  BY DEF Halves, KeptWith, Kept
<1>3. IsFiniteSet(Halves)
  BY <1>1, <1>2, FS_Subset
<1>4. Cardinality(Halves) \in Nat
  BY <1>3, FS_CardinalityType
<1>5. Cardinality(Halves) = 0 <=> Halves = {}
  BY <1>3, FS_EmptySet
<1>6. Cardinality(Halves) = 1 <=> \E i : Halves = {i}
  BY <1>3, FS_Singleton
<1>7. Cardinality(Halves) > 1 <=> Cardinality(Halves) # 0 /\ Cardinality(Halves) # 1
  BY <1>4
<1>8. (\E i, j \in Halves : i # j) <=> Halves # {} /\ ~\E i : Halves = {i}
  <2>1. ASSUME NEW i \in Halves, \A j \in Halves : i = j PROVE Halves = {i}
    BY <2>1
  <2>2. Halves # {} /\ (~\E i : Halves = {i}) => \E i, j \in Halves : i # j
    BY <2>1
  <2>3. (\E i, j \in Halves : i # j) => Halves # {} /\ ~\E i : Halves = {i}
    <3> SUFFICES ASSUME NEW i \in Halves, NEW j \in Halves, i # j, NEW k, Halves = {k}
                 PROVE  FALSE
      OBVIOUS
    <3> QED OBVIOUS
  <2> QED BY <2>2, <2>3
<1> QED BY <1>5, <1>6, <1>7, <1>8

----------------------------------------------------------------------------
LEMMA DecidedIsExact ==
  ASSUME ProbingInv, at = "done"
  PROVE  /\ cause # "eof" => result.status \in {"timeout", "error"}
         /\ cause = "eof" => result.status = Classified /\ result.request = RequestID
BY DEF ProbingInv, Decided, Failed

LEMMA VerdictFollows ==
  ASSUME ProbingInv
  PROVE  VerdictIsExact
<1> SUFFICES ASSUME at = "done" PROVE VerdictIsExact
  BY DEF VerdictIsExact
<1>1. CASE cause # "eof"
  BY <1>1, DecidedIsExact DEF VerdictIsExact
<1>2. CASE cause = "eof"
  <2>1. result.status = Classified
    BY <1>2, DecidedIsExact
  <2>2. Accumulated /\ sent \in Seq(Chunks)
    BY DEF ProbingInv, Stream
  <2>3. Cardinality(Halves) > 1 <=> \E i, j \in Halves : i # j
    BY <2>2, TwoHalves
  <2>4. acc.halves = 2 <=> Phrases # {} \/ \E i, j \in Halves : i # j
    <3>1. acc.halves \in {0, 1, 2}
      BY <2>2 DEF Accumulated
    <3> QED BY <2>2, <3>1 DEF Accumulated
  <2>5. result.status = IF Visible = {} THEN "empty_content"
                        ELSE IF acc.halves = 2 THEN "soft_fail" ELSE "success"
    BY <2>1, <2>2 DEF Accumulated, Classified
  <2> QED BY <1>2, <2>3, <2>4, <2>5 DEF VerdictIsExact, Visible, Phrases, Halves
<1> QED BY <1>1, <1>2

LEMMA TimeoutsFollow ==
  ASSUME ProbingInv
  PROVE  TimeoutsAreReal
<1>1. Classified # "timeout"
  BY DEF Classified
<1> QED BY <1>1 DEF ProbingInv, Decided, Failed, TimeoutsAreReal

LEMMA NameFollows ==
  ASSUME ProbingInv
  PROVE  AnswerIsNamed
<1> SUFFICES ASSUME at = "done", cause = "eof"
             PROVE  /\ attempts \in named => result.request = <<"header", attempts>>
                    /\ named = {} => result.request[1] = "body"
  BY DEF AnswerIsNamed
<1>1. result.request = IF header # 0 THEN <<"header", header>> ELSE <<"body", acc.id>>
  BY DecidedIsExact DEF RequestID
<1>2. attempts \in named => header = attempts /\ header # 0
  BY DEF ProbingInv, Newest
<1>3. named = {} => header = 0
  BY DEF ProbingInv, Newest
<1> QED BY <1>1, <1>2, <1>3

----------------------------------------------------------------------------
LEMMA InitIsFine == ProbingInit => ProbingInv
<1> SUFFICES ASSUME ProbingInit PROVE ProbingInv
  OBVIOUS
<1> USE ProbingAssumption
<1>1. ProbingTypeOK
  BY DEF ProbingInit, ProbingTypeOK, Places, Statuses, NoResult
<1>2. Control /\ Newest /\ Decided
  BY DEF ProbingInit, Control, Newest, Decided
<1>3. DOMAIN sent = {} /\ sent \in Seq(Chunks)
  <2>1. sent \in Seq(Chunks) /\ Len(sent) = 0
    BY DEF ProbingInit
  <2> QED BY <2>1
<1>4. FirstId /\ Accumulated
  <2>1. Identified = {} /\ Visible = {} /\ Phrases = {} /\ Halves = {}
    BY <1>3 DEF Identified, Visible, Phrases, Halves, KeptWith, Kept
  <2>2. acc.id = 0 /\ acc.choices = FALSE /\ acc.visible = FALSE /\ acc.halves = 0
    BY DEF ProbingInit, Empty
  <2>3. FirstId
    BY <2>1, <2>2 DEF FirstId
  <2>4. Accumulated
    <3>1. acc.choices \in BOOLEAN /\ acc.visible \in BOOLEAN
      BY <2>2, Zenon
    <3>2. acc.halves \in 0..2 /\ acc.halves # 1 /\ acc.halves # 2
      BY <2>2
    <3>3. ~acc.visible
      BY <2>2
    <3> QED BY <2>1, <3>1, <3>2, <3>3 DEF Accumulated
  <2> QED BY <2>3, <2>4
<1> QED BY <1>1, <1>2, <1>3, <1>4 DEF ProbingInv, Stream

(* A step that neither reads from the stream nor decides. *)
LEMMA StreamStays ==
  ASSUME Stream, UNCHANGED <<acc, sent>>
  PROVE  Stream'
<1>1. Identified' = Identified /\ Kept' = Kept
  BY DEF Identified, Kept
<1>2. Visible' = Visible /\ Phrases' = Phrases /\ Halves' = Halves
  BY <1>1 DEF Visible, Phrases, Halves, KeptWith
<1>3. FirstId'
  BY <1>1 DEF Stream, FirstId
<1>4. Accumulated'
  BY <1>2 DEF Stream, Accumulated
<1> QED BY <1>3, <1>4 DEF Stream

LEMMA NextIsFine == ProbingInv /\ [ProbingNext]_probingVars => ProbingInv'
<1> SUFFICES ASSUME ProbingInv, [ProbingNext]_probingVars PROVE ProbingInv'
  OBVIOUS
<1> USE ProbingAssumption DEF ProbingInv
<1>t. /\ attempts \in 0..Retries + 1 /\ now \in 0..Timeout /\ named \subseteq 1..attempts
      /\ header \in 0..attempts
  BY DEF ProbingTypeOK
<1>1. CASE TimePasses
  <2>1. now' = now + 1 /\ now' \in 0..Timeout
    BY <1>t, <1>1 DEF TimePasses
  <2>2. ProbingTypeOK'
    BY <1>1, <2>1 DEF TimePasses, ProbingTypeOK, Places, wire, reading
  <2>3. Control' /\ Newest' /\ Decided'
    BY <1>1, <1>t DEF TimePasses, Control, Newest, Decided, wire, reading
  <2>4. Stream'
    BY <1>1, StreamStays DEF TimePasses, wire, reading
  <2> QED BY <2>2, <2>3, <2>4
<1>2. CASE Send
  <2>1. attempts' = attempts + 1 /\ attempts <= Retries /\ attempts' \notin named
    BY <1>t, <1>2 DEF Send, Control
  <2>2. ProbingTypeOK'
    BY <1>2, <1>t, <2>1 DEF Send, ProbingTypeOK, Places, wire, reading
  <2>3. Control' /\ Newest' /\ Decided'
    BY <1>2, <1>t, <2>1 DEF Send, Control, Newest, Decided, wire, reading
  <2>4. Stream'
    BY <1>2, StreamStays DEF Send, wire, reading
  <2> QED BY <2>2, <2>3, <2>4
<1>3. ASSUME NEW code \in {"2xx", "4xx", "5xx"}, NEW id \in BOOLEAN, Answer(code, id)
      PROVE  ProbingInv'
  <2>1. /\ attempts \in 1..attempts
        /\ header' \in 0..attempts /\ named' \subseteq 1..attempts
    <3>1. attempts # 0
      BY <1>3 DEF Answer, Control
    <3>2. attempts \in 1..attempts
      BY <1>t, <3>1
    <3>3. header' \in {header, attempts} /\ named' \subseteq named \cup {attempts}
      BY <1>3 DEF Answer, Middleware
    <3> QED BY <1>t, <3>2, <3>3
  <2>2. \/ at' = "body" /\ cause' = "none"
        \/ at' = "backoff" /\ cause' = "none" /\ attempts <= Retries
        \/ at' = "returned" /\ cause' = "refused"
    BY <1>3 DEF Answer, RetryOrReturn, Return, Control
  <2>3. ProbingTypeOK'
    BY <1>3, <2>1, <2>2 DEF Answer, ProbingTypeOK, Places, reading
  <2>4. Newest'
    BY <1>3, <2>1 DEF Answer, Newest, Middleware
  <2>5. Control' /\ Decided'
    BY <1>3, <2>2 DEF Answer, Control, Decided, reading
  <2>6. Stream'
    BY <1>3, StreamStays DEF Answer, reading
  <2> QED BY <2>3, <2>4, <2>5, <2>6
<1>4. CASE ConnectionFails
  <2>1. \/ at' = "backoff" /\ cause' = "none" /\ attempts <= Retries
        \/ at' = "returned" /\ cause' = "refused"
    BY <1>4 DEF ConnectionFails, RetryOrReturn, Return, Control
  <2>2. ProbingTypeOK'
    BY <1>4, <2>1 DEF ConnectionFails, ProbingTypeOK, Places, wire, reading
  <2>3. Control' /\ Newest' /\ Decided'
    BY <1>4, <2>1 DEF ConnectionFails, Control, Newest, Decided, wire, reading
  <2>4. Stream'
    BY <1>4, StreamStays DEF ConnectionFails, wire, reading
  <2> QED BY <2>2, <2>3, <2>4
<1>5. CASE BackoffEnds
  <2>1. ProbingTypeOK' /\ Control' /\ Newest' /\ Decided'
    BY <1>5 DEF BackoffEnds, ProbingTypeOK, Places, Control, Newest, Decided, wire, reading
  <2>2. Stream'
    BY <1>5, StreamStays DEF BackoffEnds, wire, reading
  <2> QED BY <2>1, <2>2
<1>6. CASE Expire
  <2>1. ProbingTypeOK' /\ Control' /\ Newest' /\ Decided'
    BY <1>6 DEF Expire, Return, Awaiting, DeadlineExceeded, ProbingTypeOK, Places, Control, Newest,
       Decided, wire, reading
  <2>2. Stream'
    BY <1>6, StreamStays DEF Expire, wire, reading
  <2> QED BY <2>1, <2>2
<1>7. ASSUME NEW c \in Chunks, Chunk(c) PROVE ProbingInv'
  <2>1. ProbingTypeOK'
    BY <1>7, <1>t DEF Chunk, ProbingTypeOK, Places
  <2>2. Control' /\ Newest' /\ Decided'
    BY <1>7 DEF Chunk, Control, Newest, Decided
  <2>3. sent \in Seq(Chunks) /\ sent' = Append(sent, c) /\ acc' = AddChunk(c) /\ FirstId
    BY <1>7 DEF Chunk, Stream
  <2>4. Stream'
    BY <2>3, AppendFacts, FirstIdAfterChunk, AccumulatedAfterChunk DEF Stream
  <2> QED BY <2>1, <2>2, <2>4
<1>8. CASE BodyEnds \/ BodyBreaks
  <2>1. ProbingTypeOK' /\ Control' /\ Newest' /\ Decided'
    BY <1>8 DEF BodyEnds, BodyBreaks, Return, ProbingTypeOK, Places, Control, Newest, Decided, wire, reading
  <2>2. Stream'
    BY <1>8, StreamStays DEF BodyEnds, BodyBreaks, wire, reading
  <2> QED BY <2>1, <2>2
<1>9. CASE Measure
  <2>1. ProbingTypeOK'
    BY <1>9, <1>t DEF Measure, ProbingTypeOK, Places, wire
  <2>2. Control' /\ Newest' /\ Decided'
    BY <1>9 DEF Measure, Control, Newest, Decided, wire
  <2>3. Stream'
    BY <1>9, StreamStays DEF Measure, wire
  <2> QED BY <2>1, <2>2, <2>3
<1>10. CASE Verdict
  <2>1. /\ result' = IF Failed THEN [NoResult EXCEPT !.status = Failure]
                     ELSE [status |-> Classified, request |-> RequestID, usage |-> Used]
        /\ at = "measured" /\ at' = "done" /\ UNCHANGED <<api, attempts, now, header, ttft, acc, cause, latency, named, sent>>
    BY <1>10 DEF Verdict, reading, wire
  <2>2. Classified \in {"success", "soft_fail", "empty_content"} /\ Failure \in {"timeout", "error"}
    BY DEF Classified, Failure
  <2>3. Failed => result'.status = Failure
    BY <2>1 DEF NoResult
  <2>4. ~Failed => result'.status = Classified /\ result'.request = RequestID
    BY <2>1
  <2>5. ProbingTypeOK'
    BY <2>1, <2>2, <2>3, <2>4 DEF ProbingTypeOK, Places, Statuses
  <2>6. Control' /\ Newest'
    BY <1>10, <2>1 DEF Verdict, Control, Newest
  <2>7. Decided'
    <3>1. Failed' = Failed /\ Classified' = Classified /\ RequestID' = RequestID
      BY <2>1 DEF Failed, Classified, RequestID
    <3>2. Failed => \/ result'.status = "timeout" /\ now' = Timeout
                    \/ result'.status = "error" /\ cause' # "deadline"
      BY <2>1, <2>3 DEF Failure, DeadlineExceeded, Control
    <3> QED BY <2>4, <3>1, <3>2 DEF Decided
  <2>8. Stream'
    BY <2>1, StreamStays
  <2> QED BY <2>5, <2>6, <2>7, <2>8
<1>11. CASE UNCHANGED probingVars
  <2>1. ProbingTypeOK' /\ Control' /\ Newest'
    BY <1>11 DEF probingVars, ProbingTypeOK, Control, Newest, wire, reading
  <2>2. Decided'
    BY <1>11 DEF probingVars, Decided, Failed, Classified, RequestID, wire, reading
  <2>3. Stream'
    BY <1>11, StreamStays DEF probingVars, wire, reading
  <2> QED BY <2>1, <2>2, <2>3
<1> QED BY <1>1, <1>2, <1>3, <1>4, <1>5, <1>6, <1>7, <1>8, <1>9, <1>10, <1>11 DEF ProbingNext, Program

----------------------------------------------------------------------------
LEMMA Invariance == ProbingSpec => []ProbingInv
BY InitIsFine, NextIsFine, PTL DEF ProbingSpec

(* Attempts, times and the header stay in their bounds for any number of   *)
(* retries: the SDK sends one request more than PROBE_RETRIES.             *)
THEOREM ProbingTypeCorrect == ProbingSpec => []ProbingTypeOK
BY Invariance, PTL DEF ProbingInv

(* The status of a probe is the one of the whole text that the accumulator *)
(* kept, for streams of any length, ids in any order and phrases that come *)
(* in pieces.                                                              *)
THEOREM VerdictsAreExact == ProbingSpec => []VerdictIsExact
BY Invariance, VerdictFollows, PTL

(* A timeout is recorded at the deadline and never before, and what the    *)
(* deadline ended is recorded as a timeout, for any timeout.               *)
THEOREM TimeoutsMeanTheDeadline == ProbingSpec => []TimeoutsAreReal
BY Invariance, TimeoutsFollow, PTL

(* If the attempt that was answered sent a request id, that one is         *)
(* recorded, whatever the attempts before it sent, for any number of       *)
(* retries; an id of the body only if no attempt sent one.  (When only an  *)
(* attempt that failed sent one, the code records that.)                   *)
THEOREM RequestIdsAreTheAnswers == ProbingSpec => []AnswerIsNamed
BY Invariance, NameFollows, PTL

----------------------------------------------------------------------------
(***************************************************************************)
(* Safety of the probe engine for any number of callers, starts, stops and *)
(* manual cycles: IInv is inductive, it implies the invariants that the    *)
(* runs check, and every step of the engine is a step of EngineContract.   *)
(***************************************************************************)

USE DEF MayStart, MayTrigger, LoopIsDone, WorkIsDone, WorkAdded, StopDoneClosed, RunningAfterStop

(* The parts of IInv that say nothing of the WaitGroup. *)
Others == /\ FlagsAgree /\ OneWaiter /\ ChannelsAgree
          /\ SpawnAlone /\ LoopIsAwaited /\ JoinedStopHasOwner

----------------------------------------------------------------------------
(* The manual goroutines and the counter of the WaitGroup. *)

LEMMA LiveManualIsFinite ==
  IsFiniteSet(LiveManual) /\ Cardinality(LiveManual) \in Nat
<1>1. LiveManual \subseteq Manual
  BY DEF LiveManual
<1> QED BY <1>1, ManualAssumption, FS_Subset, FS_CardinalityType

(* A zero counter means that no manual goroutine is left. *)
LEMMA ZeroMeansNoWork ==
  ASSUME WorkCounts, work = 0
  PROVE  LiveManual = {}
BY LiveManualIsFinite, FS_EmptySet DEF WorkCounts

(* A trigger adds one goroutine and one to the counter. *)
LEMMA TriggerCounts ==
  ASSUME TypeOK, WorkCounts, NEW w \in Manual, Trigger(w)
  PROVE  WorkCounts' /\ work' \in Nat
<1>1. w \notin LiveManual
  BY DEF Trigger, LiveManual
<1>2. LiveManual' = LiveManual \cup {w}
  BY DEF Trigger, LiveManual, TypeOK
<1>3. Cardinality(LiveManual') = Cardinality(LiveManual) + 1
  BY <1>1, <1>2, LiveManualIsFinite, FS_AddElement
<1>4. work' = work + 1
  BY DEF Trigger
<1> QED BY <1>3, <1>4, LiveManualIsFinite DEF WorkCounts

(* The end of a manual cycle takes one from both, so never below zero. *)
LEMMA ManualDoneCounts ==
  ASSUME TypeOK, WorkCounts, NEW w \in Manual, ManualDone(w)
  PROVE  WorkCounts' /\ work' \in Nat
<1>1. w \in LiveManual
  BY DEF ManualDone, LiveManual
<1>2. LiveManual' = LiveManual \ {w}
  BY DEF ManualDone, LiveManual, TypeOK
<1>3. /\ IsFiniteSet(LiveManual')
      /\ Cardinality(LiveManual') = Cardinality(LiveManual) - 1
  BY <1>1, <1>2, LiveManualIsFinite, FS_RemoveElement
<1>4. work' = work - 1
  BY DEF ManualDone
<1>5. Cardinality(LiveManual') \in Nat
  BY <1>3, FS_CardinalityType
<1> QED BY <1>3, <1>4, <1>5 DEF WorkCounts

(* Every other step leaves the set and the counter alone. *)
LEMMA OtherStepsKeepWork ==
  ASSUME TypeOK, WorkCounts, Next, ~\E w \in Manual : Trigger(w) \/ ManualDone(w)
  PROVE  LiveManual' = LiveManual /\ work' = work
<1>1. ASSUME NEW c \in Callers, CallerStep(c)
      PROVE  manual' = manual /\ work' = work
  BY <1>1 DEF CallerStep, Start, Spawn, Stop, StopJoin, StopLoopDone, StopWorkDone,
     StopFinish, StopJoined
<1>2. ASSUME NEW g \in Loops, LoopStep(g)
      PROVE  manual' = manual /\ work' = work
  BY <1>2 DEF LoopStep, LoopBegin, LoopCycleEnds, Tick, LoopTick, LoopStop
<1>3. ASSUME NEW w \in Manual, ManualBegin(w)
      PROVE  LiveManual' = LiveManual /\ work' = work
  BY <1>3 DEF ManualBegin, LiveManual, TypeOK
<1> QED BY <1>1, <1>2, <1>3 DEF Next, ManualStep, LiveManual

LEMMA WorkStep ==
  ASSUME TypeOK, WorkCounts, [Next]_vars
  PROVE  WorkCounts' /\ work' \in Nat
<1>1. CASE \E w \in Manual : Trigger(w) \/ ManualDone(w)
  BY <1>1, TriggerCounts, ManualDoneCounts
<1>2. CASE Next /\ ~\E w \in Manual : Trigger(w) \/ ManualDone(w)
  <2>1. LiveManual' = LiveManual /\ work' = work
    BY <1>2, OtherStepsKeepWork
  <2> QED BY <2>1 DEF WorkCounts, TypeOK
<1>3. CASE UNCHANGED vars
  BY <1>3 DEF vars, WorkCounts, LiveManual, TypeOK
<1> QED BY <1>1, <1>2, <1>3

----------------------------------------------------------------------------
(* Types. *)

LEMMA TypeStep ==
  ASSUME TypeOK, WorkCounts, FlagsAgree, ChannelsAgree, [Next]_vars
  PROVE  TypeOK'
<1> USE BoundsAssumption DEF Loops
<1> DEFINE PCs == {"idle", "spawn", "waitDone", "waitWork", "finish", "waitOther"}
<1>0. work' \in Nat
  BY WorkStep
<1>1. ASSUME NEW c \in Callers, Start(c) PROVE TypeOK'
  <2>1. pc' \in [Callers -> PCs] /\ done' \in [Callers -> 0..MaxStarts]
    BY <1>1 DEF Start, TypeOK
  <2>2. stopCh' \in 0..MaxStarts /\ doneCh' \in 0..MaxStarts
    BY <1>1 DEF Start, TypeOK
  <2> QED BY <1>1, <2>1, <2>2 DEF Start, TypeOK, loops
<1>2. ASSUME NEW c \in Callers, Spawn(c) PROVE TypeOK'
  BY <1>2 DEF Spawn, TypeOK, flags, channels
<1>3. ASSUME NEW c \in Callers, Stop(c) PROVE TypeOK'
  <2>1. /\ pc' \in [Callers -> PCs]
        /\ done' \in [Callers -> 0..MaxStarts]
        /\ myStopDone' \in [Callers -> 0..MaxStops]
    BY <1>3 DEF Stop, TypeOK
  <2>2. /\ closedStop' \subseteq 0..MaxStarts
        /\ stops' \in 0..MaxStops /\ stopDone' \in 0..MaxStops
    BY <1>3 DEF Stop, TypeOK
  <2> QED BY <1>3, <2>1, <2>2 DEF Stop, TypeOK, loops
<1>4. ASSUME NEW c \in Callers, StopJoin(c) PROVE TypeOK'
  BY <1>4 DEF StopJoin, TypeOK, flags, channels, loops
<1>5. ASSUME NEW c \in Callers, StopLoopDone(c) PROVE TypeOK'
  BY <1>5 DEF StopLoopDone, TypeOK, flags, channels, loops
<1>6. ASSUME NEW c \in Callers, StopWorkDone(c) PROVE TypeOK'
  BY <1>6 DEF StopWorkDone, TypeOK, flags, channels, loops
<1>7. ASSUME NEW c \in Callers, StopFinish(c) PROVE TypeOK'
  <2>1. pc' \in [Callers -> PCs]
    BY <1>7 DEF StopFinish, TypeOK
  <2>2. closedStopDone' \subseteq 0..MaxStops /\ stopDone' \in 0..MaxStops
    <3>1. myStopDone[c] \in 0..MaxStops /\ 0 \in 0..MaxStops
      BY DEF TypeOK
    <3> QED BY <1>7, <3>1 DEF StopFinish, TypeOK
  <2> QED BY <1>7, <2>1, <2>2 DEF StopFinish, TypeOK, loops
<1>8. ASSUME NEW c \in Callers, StopJoined(c) PROVE TypeOK'
  BY <1>8 DEF StopJoined, TypeOK, flags, channels, loops
<1>9. ASSUME NEW g \in Loops, LoopBegin(g) PROVE TypeOK'
  BY <1>9 DEF LoopBegin, TypeOK, flags, channels, callers
<1>10. ASSUME NEW g \in Loops, LoopCycleEnds(g) PROVE TypeOK'
  BY <1>10 DEF LoopCycleEnds, TypeOK, flags, channels, callers
<1>11. ASSUME NEW g \in Loops, Tick(g) PROVE TypeOK'
  BY <1>11 DEF Tick, TypeOK, flags, channels, callers
<1>12. ASSUME NEW g \in Loops, LoopTick(g) PROVE TypeOK'
  BY <1>12 DEF LoopTick, TypeOK, flags, channels, callers
<1>13. ASSUME NEW g \in Loops, LoopStop(g) PROVE TypeOK'
  BY <1>13 DEF LoopStop, TypeOK, flags, callers
<1>14. ASSUME NEW w \in Manual, Trigger(w) PROVE TypeOK'
  BY <1>14 DEF Trigger, TypeOK, flags, channels, callers, loops
<1>15. ASSUME NEW w \in Manual, ManualBegin(w) PROVE TypeOK'
  BY <1>15 DEF ManualBegin, TypeOK, flags, channels, callers, loops
<1>16. ASSUME NEW w \in Manual, ManualDone(w) PROVE TypeOK'
  <2>1. manual' \in [Manual -> {"none", "added", "probing"}]
    BY <1>16 DEF ManualDone, TypeOK
  <2> QED BY <1>16, <1>0, <2>1 DEF ManualDone, TypeOK, flags, channels, callers, loops
<1>u. CASE UNCHANGED vars
  BY <1>u DEF vars, TypeOK, flags, channels, callers, loops
<1> QED BY <1>1, <1>2, <1>3, <1>4, <1>5, <1>6, <1>7, <1>8, <1>9, <1>10, <1>11,
   <1>12, <1>13, <1>14, <1>15, <1>16, <1>u DEF Next, CallerStep, LoopStep,
   ManualStep

----------------------------------------------------------------------------
(* Flags, channels, callers and loops. *)

LEMMA OthersStep ==
  ASSUME TypeOK, Others, [Next]_vars
  PROVE  Others'
<1> USE BoundsAssumption
<1>1. ASSUME NEW c \in Callers, Start(c) PROVE Others'
  <2>1. FlagsAgree'
    BY <1>1 DEF Start, Others, TypeOK, FlagsAgree, OneWaiter, Waiters, loops
  <2>2. OneWaiter'
    BY <1>1 DEF Start, Others, TypeOK, FlagsAgree, OneWaiter, Waiters, loops
  <2>3. ChannelsAgree'
    <3>1. \A g \in Loops : loop[g] \in {"none", "over"}
      BY <1>1 DEF Start, Others, TypeOK, FlagsAgree, OneWaiter, LoopIsAwaited, Waiters,
         LiveLoops, LiveLoop
    <3>2. \A n \in closedStop' : n <= stopCh'
      BY <1>1 DEF Start, Others, TypeOK, ChannelsAgree
    <3>3. \A n \in closedDone' : n \in Loops /\ n <= stopCh' /\ loop'[n] = "over"
      BY <1>1 DEF Start, Others, TypeOK, ChannelsAgree, Loops, loops
    <3>4. stopCh' \notin closedStop'
      BY <1>1 DEF Start, Others, TypeOK, ChannelsAgree
    <3>5. \A g \in Loops : g > stopCh' => loop'[g] = "none"
      BY <1>1 DEF Start, Others, TypeOK, ChannelsAgree, Loops, loops
    <3>6. loop' = loop /\ doneCh' = stopCh'
      BY <1>1 DEF Start, loops
    <3> QED BY <3>1, <3>2, <3>3, <3>4, <3>5, <3>6 DEF ChannelsAgree
  <2>4. SpawnAlone'
    BY <1>1 DEF Start, Others, TypeOK, ChannelsAgree, SpawnAlone,
       LoopIsAwaited, FlagsAgree, OneWaiter, LiveLoops, LiveLoop, Pending,
       Waiters, Loops, loops
  <2>5. LoopIsAwaited'
    BY <1>1 DEF Start, Others, TypeOK, ChannelsAgree, SpawnAlone,
       LoopIsAwaited, FlagsAgree, OneWaiter, LiveLoops, LiveLoop, Pending,
       Waiters, Loops, loops
  <2>6. JoinedStopHasOwner'
    BY <1>1 DEF Start, Others, TypeOK, FlagsAgree, OneWaiter,
       JoinedStopHasOwner, Waiters, loops
  <2> QED BY <2>1, <2>2, <2>3, <2>4, <2>5, <2>6 DEF Others
<1>2. ASSUME NEW c \in Callers, Spawn(c) PROVE Others'
  <2>1. FlagsAgree'
    BY <1>2 DEF Spawn, Others, TypeOK, FlagsAgree, OneWaiter, Waiters, flags,
       channels
  <2>2. OneWaiter'
    BY <1>2 DEF Spawn, Others, TypeOK, FlagsAgree, OneWaiter, Waiters, flags,
       channels
  <2>3. ChannelsAgree'
    BY <1>2 DEF Spawn, Others, TypeOK, ChannelsAgree, SpawnAlone,
       LoopIsAwaited, FlagsAgree, OneWaiter, LiveLoops, LiveLoop, Pending,
       Waiters, Loops, flags, channels
  <2>4. SpawnAlone'
    BY <1>2 DEF Spawn, Others, TypeOK, ChannelsAgree, SpawnAlone,
       LoopIsAwaited, FlagsAgree, OneWaiter, LiveLoops, LiveLoop, Pending,
       Waiters, Loops, flags, channels
  <2>5. LoopIsAwaited'
    BY <1>2 DEF Spawn, Others, TypeOK, ChannelsAgree, SpawnAlone,
       LoopIsAwaited, FlagsAgree, OneWaiter, LiveLoops, LiveLoop, Pending,
       Waiters, Loops, flags, channels
  <2>6. JoinedStopHasOwner'
    BY <1>2 DEF Spawn, Others, TypeOK, FlagsAgree, OneWaiter,
       JoinedStopHasOwner, Waiters, flags, channels
  <2> QED BY <2>1, <2>2, <2>3, <2>4, <2>5, <2>6 DEF Others
<1>3. ASSUME NEW c \in Callers, Stop(c) PROVE Others'
  <2>1. FlagsAgree'
    BY <1>3 DEF Stop, Others, TypeOK, FlagsAgree, OneWaiter, Waiters, loops
  <2>2. OneWaiter'
    BY <1>3 DEF Stop, Others, TypeOK, FlagsAgree, OneWaiter, Waiters, loops
  <2>3. ChannelsAgree'
    BY <1>3 DEF Stop, Others, TypeOK, ChannelsAgree, SpawnAlone,
       LoopIsAwaited, FlagsAgree, OneWaiter, LiveLoops, LiveLoop, Pending,
       Waiters, Loops, loops
  <2>4. SpawnAlone'
    BY <1>3 DEF Stop, Others, TypeOK, ChannelsAgree, SpawnAlone,
       LoopIsAwaited, FlagsAgree, OneWaiter, LiveLoops, LiveLoop, Pending,
       Waiters, Loops, loops
  <2>5. LoopIsAwaited'
    BY <1>3 DEF Stop, Others, TypeOK, ChannelsAgree, SpawnAlone,
       LoopIsAwaited, FlagsAgree, OneWaiter, LiveLoops, LiveLoop, Pending,
       Waiters, Loops, loops
  <2>6. JoinedStopHasOwner'
    BY <1>3 DEF Stop, Others, TypeOK, FlagsAgree, OneWaiter,
       JoinedStopHasOwner, Waiters, loops
  <2> QED BY <2>1, <2>2, <2>3, <2>4, <2>5, <2>6 DEF Others
<1>4. ASSUME NEW c \in Callers, StopJoin(c) PROVE Others'
  <2>1. FlagsAgree'
    BY <1>4 DEF StopJoin, Others, TypeOK, FlagsAgree, OneWaiter, Waiters,
       flags, channels, loops
  <2>2. OneWaiter'
    BY <1>4 DEF StopJoin, Others, TypeOK, FlagsAgree, OneWaiter, Waiters,
       flags, channels, loops
  <2>3. ChannelsAgree'
    BY <1>4 DEF StopJoin, Others, TypeOK, ChannelsAgree, SpawnAlone,
       LoopIsAwaited, FlagsAgree, OneWaiter, LiveLoops, LiveLoop, Pending,
       Waiters, Loops, flags, channels, loops
  <2>4. SpawnAlone'
    BY <1>4 DEF StopJoin, Others, TypeOK, ChannelsAgree, SpawnAlone,
       LoopIsAwaited, FlagsAgree, OneWaiter, LiveLoops, LiveLoop, Pending,
       Waiters, Loops, flags, channels, loops
  <2>5. LoopIsAwaited'
    BY <1>4 DEF StopJoin, Others, TypeOK, ChannelsAgree, SpawnAlone,
       LoopIsAwaited, FlagsAgree, OneWaiter, LiveLoops, LiveLoop, Pending,
       Waiters, Loops, flags, channels, loops
  <2>6. JoinedStopHasOwner'
    BY <1>4 DEF StopJoin, Others, TypeOK, FlagsAgree, OneWaiter,
       JoinedStopHasOwner, Waiters, flags, channels, loops
  <2> QED BY <2>1, <2>2, <2>3, <2>4, <2>5, <2>6 DEF Others
<1>5. ASSUME NEW c \in Callers, StopLoopDone(c) PROVE Others'
  <2>1. FlagsAgree'
    BY <1>5 DEF StopLoopDone, Others, TypeOK, FlagsAgree, OneWaiter, Waiters,
       flags, channels, loops
  <2>2. OneWaiter'
    BY <1>5 DEF StopLoopDone, Others, TypeOK, FlagsAgree, OneWaiter, Waiters,
       flags, channels, loops
  <2>3. ChannelsAgree'
    BY <1>5 DEF StopLoopDone, Others, TypeOK, ChannelsAgree, SpawnAlone,
       LoopIsAwaited, FlagsAgree, OneWaiter, LiveLoops, LiveLoop, Pending,
       Waiters, Loops, flags, channels, loops
  <2>4. SpawnAlone'
    BY <1>5 DEF StopLoopDone, Others, TypeOK, ChannelsAgree, SpawnAlone,
       LoopIsAwaited, FlagsAgree, OneWaiter, LiveLoops, LiveLoop, Pending,
       Waiters, Loops, flags, channels, loops
  <2>a. LiveLoops = {}
    <3>1. loop[stopCh] = "over" /\ stopCh \in Loops
      BY <1>5 DEF StopLoopDone, Others, ChannelsAgree, LoopIsAwaited
    <3>2. \A g \in Loops : ~LiveLoop(g)
      BY <3>1 DEF Others, ChannelsAgree, SpawnAlone, LiveLoop, Pending
    <3> QED BY <3>2 DEF LiveLoops
  <2>5. LoopIsAwaited'
    <3>1. LiveLoops' = {}
      BY <1>5, <2>a DEF StopLoopDone, TypeOK, LiveLoops, LiveLoop, Pending, loops
    <3>2. \A d \in Callers : pc'[d] = "waitDone" => done'[d] = stopCh'
      BY <1>5 DEF StopLoopDone, Others, TypeOK, LoopIsAwaited, channels
    <3> QED BY <3>1, <3>2 DEF LoopIsAwaited
  <2>6. JoinedStopHasOwner'
    BY <1>5 DEF StopLoopDone, Others, TypeOK, FlagsAgree, OneWaiter,
       JoinedStopHasOwner, Waiters, flags, channels, loops
  <2> QED BY <2>1, <2>2, <2>3, <2>4, <2>5, <2>6 DEF Others
<1>6. ASSUME NEW c \in Callers, StopWorkDone(c) PROVE Others'
  <2>1. FlagsAgree'
    BY <1>6 DEF StopWorkDone, Others, TypeOK, FlagsAgree, OneWaiter, Waiters,
       flags, channels, loops
  <2>2. OneWaiter'
    BY <1>6 DEF StopWorkDone, Others, TypeOK, FlagsAgree, OneWaiter, Waiters,
       flags, channels, loops
  <2>3. ChannelsAgree'
    BY <1>6 DEF StopWorkDone, Others, TypeOK, ChannelsAgree, SpawnAlone,
       LoopIsAwaited, FlagsAgree, OneWaiter, LiveLoops, LiveLoop, Pending,
       Waiters, Loops, flags, channels, loops
  <2>4. SpawnAlone'
    BY <1>6 DEF StopWorkDone, Others, TypeOK, ChannelsAgree, SpawnAlone,
       LoopIsAwaited, FlagsAgree, OneWaiter, LiveLoops, LiveLoop, Pending,
       Waiters, Loops, flags, channels, loops
  <2>5. LoopIsAwaited'
    BY <1>6 DEF StopWorkDone, Others, TypeOK, ChannelsAgree, SpawnAlone,
       LoopIsAwaited, FlagsAgree, OneWaiter, LiveLoops, LiveLoop, Pending,
       Waiters, Loops, flags, channels, loops
  <2>6. JoinedStopHasOwner'
    BY <1>6 DEF StopWorkDone, Others, TypeOK, FlagsAgree, OneWaiter,
       JoinedStopHasOwner, Waiters, flags, channels, loops
  <2> QED BY <2>1, <2>2, <2>3, <2>4, <2>5, <2>6 DEF Others
<1>7. ASSUME NEW c \in Callers, StopFinish(c) PROVE Others'
  <2>1. FlagsAgree'
    BY <1>7 DEF StopFinish, Others, TypeOK, FlagsAgree, OneWaiter, Waiters,
       loops
  <2>2. OneWaiter'
    BY <1>7 DEF StopFinish, Others, TypeOK, FlagsAgree, OneWaiter, Waiters,
       loops
  <2>3. ChannelsAgree'
    BY <1>7 DEF StopFinish, Others, TypeOK, ChannelsAgree, SpawnAlone,
       LoopIsAwaited, FlagsAgree, OneWaiter, LiveLoops, LiveLoop, Pending,
       Waiters, Loops, loops
  <2>4. SpawnAlone'
    BY <1>7 DEF StopFinish, Others, TypeOK, ChannelsAgree, SpawnAlone,
       LoopIsAwaited, FlagsAgree, OneWaiter, LiveLoops, LiveLoop, Pending,
       Waiters, Loops, loops
  <2>5. LoopIsAwaited'
    BY <1>7 DEF StopFinish, Others, TypeOK, ChannelsAgree, SpawnAlone,
       LoopIsAwaited, FlagsAgree, OneWaiter, LiveLoops, LiveLoop, Pending,
       Waiters, Loops, loops
  <2>6. JoinedStopHasOwner'
    BY <1>7 DEF StopFinish, Others, TypeOK, FlagsAgree, OneWaiter,
       JoinedStopHasOwner, Waiters, loops
  <2> QED BY <2>1, <2>2, <2>3, <2>4, <2>5, <2>6 DEF Others
<1>8. ASSUME NEW c \in Callers, StopJoined(c) PROVE Others'
  <2>1. FlagsAgree'
    BY <1>8 DEF StopJoined, Others, TypeOK, FlagsAgree, OneWaiter, Waiters,
       flags, channels, loops
  <2>2. OneWaiter'
    BY <1>8 DEF StopJoined, Others, TypeOK, FlagsAgree, OneWaiter, Waiters,
       flags, channels, loops
  <2>3. ChannelsAgree'
    BY <1>8 DEF StopJoined, Others, TypeOK, ChannelsAgree, SpawnAlone,
       LoopIsAwaited, FlagsAgree, OneWaiter, LiveLoops, LiveLoop, Pending,
       Waiters, Loops, flags, channels, loops
  <2>4. SpawnAlone'
    BY <1>8 DEF StopJoined, Others, TypeOK, ChannelsAgree, SpawnAlone,
       LoopIsAwaited, FlagsAgree, OneWaiter, LiveLoops, LiveLoop, Pending,
       Waiters, Loops, flags, channels, loops
  <2>5. LoopIsAwaited'
    BY <1>8 DEF StopJoined, Others, TypeOK, ChannelsAgree, SpawnAlone,
       LoopIsAwaited, FlagsAgree, OneWaiter, LiveLoops, LiveLoop, Pending,
       Waiters, Loops, flags, channels, loops
  <2>6. JoinedStopHasOwner'
    BY <1>8 DEF StopJoined, Others, TypeOK, FlagsAgree, OneWaiter,
       JoinedStopHasOwner, Waiters, flags, channels, loops
  <2> QED BY <2>1, <2>2, <2>3, <2>4, <2>5, <2>6 DEF Others
<1>9. ASSUME NEW g \in Loops, LoopBegin(g) PROVE Others'
  <2>1. FlagsAgree'
    BY <1>9 DEF LoopBegin, Others, TypeOK, FlagsAgree, OneWaiter, Waiters,
       flags, channels, callers
  <2>2. OneWaiter'
    BY <1>9 DEF LoopBegin, Others, TypeOK, FlagsAgree, OneWaiter, Waiters,
       flags, channels, callers
  <2>3. ChannelsAgree'
    BY <1>9 DEF LoopBegin, Others, TypeOK, ChannelsAgree, SpawnAlone,
       LoopIsAwaited, FlagsAgree, OneWaiter, LiveLoops, LiveLoop, Pending,
       Waiters, Loops, flags, channels, callers
  <2>4. SpawnAlone'
    BY <1>9 DEF LoopBegin, Others, TypeOK, ChannelsAgree, SpawnAlone,
       LoopIsAwaited, FlagsAgree, OneWaiter, LiveLoops, LiveLoop, Pending,
       Waiters, Loops, flags, channels, callers
  <2>5. LoopIsAwaited'
    BY <1>9 DEF LoopBegin, Others, TypeOK, ChannelsAgree, SpawnAlone,
       LoopIsAwaited, FlagsAgree, OneWaiter, LiveLoops, LiveLoop, Pending,
       Waiters, Loops, flags, channels, callers
  <2>6. JoinedStopHasOwner'
    BY <1>9 DEF LoopBegin, Others, TypeOK, FlagsAgree, OneWaiter,
       JoinedStopHasOwner, Waiters, flags, channels, callers
  <2> QED BY <2>1, <2>2, <2>3, <2>4, <2>5, <2>6 DEF Others
<1>10. ASSUME NEW g \in Loops, LoopCycleEnds(g) PROVE Others'
  <2>1. FlagsAgree'
    BY <1>10 DEF LoopCycleEnds, Others, TypeOK, FlagsAgree, OneWaiter,
       Waiters, flags, channels, callers
  <2>2. OneWaiter'
    BY <1>10 DEF LoopCycleEnds, Others, TypeOK, FlagsAgree, OneWaiter,
       Waiters, flags, channels, callers
  <2>3. ChannelsAgree'
    BY <1>10 DEF LoopCycleEnds, Others, TypeOK, ChannelsAgree, SpawnAlone,
       LoopIsAwaited, FlagsAgree, OneWaiter, LiveLoops, LiveLoop, Pending,
       Waiters, Loops, flags, channels, callers
  <2>4. SpawnAlone'
    BY <1>10 DEF LoopCycleEnds, Others, TypeOK, ChannelsAgree, SpawnAlone,
       LoopIsAwaited, FlagsAgree, OneWaiter, LiveLoops, LiveLoop, Pending,
       Waiters, Loops, flags, channels, callers
  <2>5. LoopIsAwaited'
    BY <1>10 DEF LoopCycleEnds, Others, TypeOK, ChannelsAgree, SpawnAlone,
       LoopIsAwaited, FlagsAgree, OneWaiter, LiveLoops, LiveLoop, Pending,
       Waiters, Loops, flags, channels, callers
  <2>6. JoinedStopHasOwner'
    BY <1>10 DEF LoopCycleEnds, Others, TypeOK, FlagsAgree, OneWaiter,
       JoinedStopHasOwner, Waiters, flags, channels, callers
  <2> QED BY <2>1, <2>2, <2>3, <2>4, <2>5, <2>6 DEF Others
<1>11. ASSUME NEW g \in Loops, Tick(g) PROVE Others'
  <2>1. FlagsAgree'
    BY <1>11 DEF Tick, Others, TypeOK, FlagsAgree, OneWaiter, Waiters, flags,
       channels, callers
  <2>2. OneWaiter'
    BY <1>11 DEF Tick, Others, TypeOK, FlagsAgree, OneWaiter, Waiters, flags,
       channels, callers
  <2>3. ChannelsAgree'
    BY <1>11 DEF Tick, Others, TypeOK, ChannelsAgree, SpawnAlone,
       LoopIsAwaited, FlagsAgree, OneWaiter, LiveLoops, LiveLoop, Pending,
       Waiters, Loops, flags, channels, callers
  <2>4. SpawnAlone'
    BY <1>11 DEF Tick, Others, TypeOK, ChannelsAgree, SpawnAlone,
       LoopIsAwaited, FlagsAgree, OneWaiter, LiveLoops, LiveLoop, Pending,
       Waiters, Loops, flags, channels, callers
  <2>5. LoopIsAwaited'
    BY <1>11 DEF Tick, Others, TypeOK, ChannelsAgree, SpawnAlone,
       LoopIsAwaited, FlagsAgree, OneWaiter, LiveLoops, LiveLoop, Pending,
       Waiters, Loops, flags, channels, callers
  <2>6. JoinedStopHasOwner'
    BY <1>11 DEF Tick, Others, TypeOK, FlagsAgree, OneWaiter,
       JoinedStopHasOwner, Waiters, flags, channels, callers
  <2> QED BY <2>1, <2>2, <2>3, <2>4, <2>5, <2>6 DEF Others
<1>12. ASSUME NEW g \in Loops, LoopTick(g) PROVE Others'
  <2>1. FlagsAgree'
    BY <1>12 DEF LoopTick, Others, TypeOK, FlagsAgree, OneWaiter, Waiters,
       flags, channels, callers
  <2>2. OneWaiter'
    BY <1>12 DEF LoopTick, Others, TypeOK, FlagsAgree, OneWaiter, Waiters,
       flags, channels, callers
  <2>3. ChannelsAgree'
    BY <1>12 DEF LoopTick, Others, TypeOK, ChannelsAgree, SpawnAlone,
       LoopIsAwaited, FlagsAgree, OneWaiter, LiveLoops, LiveLoop, Pending,
       Waiters, Loops, flags, channels, callers
  <2>4. SpawnAlone'
    BY <1>12 DEF LoopTick, Others, TypeOK, ChannelsAgree, SpawnAlone,
       LoopIsAwaited, FlagsAgree, OneWaiter, LiveLoops, LiveLoop, Pending,
       Waiters, Loops, flags, channels, callers
  <2>5. LoopIsAwaited'
    BY <1>12 DEF LoopTick, Others, TypeOK, ChannelsAgree, SpawnAlone,
       LoopIsAwaited, FlagsAgree, OneWaiter, LiveLoops, LiveLoop, Pending,
       Waiters, Loops, flags, channels, callers
  <2>6. JoinedStopHasOwner'
    BY <1>12 DEF LoopTick, Others, TypeOK, FlagsAgree, OneWaiter,
       JoinedStopHasOwner, Waiters, flags, channels, callers
  <2> QED BY <2>1, <2>2, <2>3, <2>4, <2>5, <2>6 DEF Others
<1>13. ASSUME NEW g \in Loops, LoopStop(g) PROVE Others'
  <2>1. FlagsAgree'
    BY <1>13 DEF LoopStop, Others, TypeOK, FlagsAgree, OneWaiter, Waiters,
       flags, callers
  <2>2. OneWaiter'
    BY <1>13 DEF LoopStop, Others, TypeOK, FlagsAgree, OneWaiter, Waiters,
       flags, callers
  <2>3. ChannelsAgree'
    BY <1>13 DEF LoopStop, Others, TypeOK, ChannelsAgree, SpawnAlone,
       LoopIsAwaited, FlagsAgree, OneWaiter, LiveLoops, LiveLoop, Pending,
       Waiters, Loops, flags, callers
  <2>4. SpawnAlone'
    BY <1>13 DEF LoopStop, Others, TypeOK, ChannelsAgree, SpawnAlone,
       LoopIsAwaited, FlagsAgree, OneWaiter, LiveLoops, LiveLoop, Pending,
       Waiters, Loops, flags, callers
  <2>5. LoopIsAwaited'
    BY <1>13 DEF LoopStop, Others, TypeOK, ChannelsAgree, SpawnAlone,
       LoopIsAwaited, FlagsAgree, OneWaiter, LiveLoops, LiveLoop, Pending,
       Waiters, Loops, flags, callers
  <2>6. JoinedStopHasOwner'
    BY <1>13 DEF LoopStop, Others, TypeOK, FlagsAgree, OneWaiter,
       JoinedStopHasOwner, Waiters, flags, callers
  <2> QED BY <2>1, <2>2, <2>3, <2>4, <2>5, <2>6 DEF Others
<1>14. ASSUME NEW w \in Manual, Trigger(w) PROVE Others'
  <2>1. FlagsAgree'
    BY <1>14 DEF Trigger, Others, TypeOK, FlagsAgree, OneWaiter, Waiters,
       flags, channels, callers, loops
  <2>2. OneWaiter'
    BY <1>14 DEF Trigger, Others, TypeOK, FlagsAgree, OneWaiter, Waiters,
       flags, channels, callers, loops
  <2>3. ChannelsAgree'
    BY <1>14 DEF Trigger, Others, TypeOK, ChannelsAgree, SpawnAlone,
       LoopIsAwaited, FlagsAgree, OneWaiter, LiveLoops, LiveLoop, Pending,
       Waiters, Loops, flags, channels, callers, loops
  <2>4. SpawnAlone'
    BY <1>14 DEF Trigger, Others, TypeOK, ChannelsAgree, SpawnAlone,
       LoopIsAwaited, FlagsAgree, OneWaiter, LiveLoops, LiveLoop, Pending,
       Waiters, Loops, flags, channels, callers, loops
  <2>5. LoopIsAwaited'
    BY <1>14 DEF Trigger, Others, TypeOK, ChannelsAgree, SpawnAlone,
       LoopIsAwaited, FlagsAgree, OneWaiter, LiveLoops, LiveLoop, Pending,
       Waiters, Loops, flags, channels, callers, loops
  <2>6. JoinedStopHasOwner'
    BY <1>14 DEF Trigger, Others, TypeOK, FlagsAgree, OneWaiter,
       JoinedStopHasOwner, Waiters, flags, channels, callers, loops
  <2> QED BY <2>1, <2>2, <2>3, <2>4, <2>5, <2>6 DEF Others
<1>15. ASSUME NEW w \in Manual, ManualBegin(w) PROVE Others'
  <2>1. FlagsAgree'
    BY <1>15 DEF ManualBegin, Others, TypeOK, FlagsAgree, OneWaiter, Waiters,
       flags, channels, callers, loops
  <2>2. OneWaiter'
    BY <1>15 DEF ManualBegin, Others, TypeOK, FlagsAgree, OneWaiter, Waiters,
       flags, channels, callers, loops
  <2>3. ChannelsAgree'
    BY <1>15 DEF ManualBegin, Others, TypeOK, ChannelsAgree, SpawnAlone,
       LoopIsAwaited, FlagsAgree, OneWaiter, LiveLoops, LiveLoop, Pending,
       Waiters, Loops, flags, channels, callers, loops
  <2>4. SpawnAlone'
    BY <1>15 DEF ManualBegin, Others, TypeOK, ChannelsAgree, SpawnAlone,
       LoopIsAwaited, FlagsAgree, OneWaiter, LiveLoops, LiveLoop, Pending,
       Waiters, Loops, flags, channels, callers, loops
  <2>5. LoopIsAwaited'
    BY <1>15 DEF ManualBegin, Others, TypeOK, ChannelsAgree, SpawnAlone,
       LoopIsAwaited, FlagsAgree, OneWaiter, LiveLoops, LiveLoop, Pending,
       Waiters, Loops, flags, channels, callers, loops
  <2>6. JoinedStopHasOwner'
    BY <1>15 DEF ManualBegin, Others, TypeOK, FlagsAgree, OneWaiter,
       JoinedStopHasOwner, Waiters, flags, channels, callers, loops
  <2> QED BY <2>1, <2>2, <2>3, <2>4, <2>5, <2>6 DEF Others
<1>16. ASSUME NEW w \in Manual, ManualDone(w) PROVE Others'
  <2>1. FlagsAgree'
    BY <1>16 DEF ManualDone, Others, TypeOK, FlagsAgree, OneWaiter, Waiters,
       flags, channels, callers, loops
  <2>2. OneWaiter'
    BY <1>16 DEF ManualDone, Others, TypeOK, FlagsAgree, OneWaiter, Waiters,
       flags, channels, callers, loops
  <2>3. ChannelsAgree'
    BY <1>16 DEF ManualDone, Others, TypeOK, ChannelsAgree, SpawnAlone,
       LoopIsAwaited, FlagsAgree, OneWaiter, LiveLoops, LiveLoop, Pending,
       Waiters, Loops, flags, channels, callers, loops
  <2>4. SpawnAlone'
    BY <1>16 DEF ManualDone, Others, TypeOK, ChannelsAgree, SpawnAlone,
       LoopIsAwaited, FlagsAgree, OneWaiter, LiveLoops, LiveLoop, Pending,
       Waiters, Loops, flags, channels, callers, loops
  <2>5. LoopIsAwaited'
    BY <1>16 DEF ManualDone, Others, TypeOK, ChannelsAgree, SpawnAlone,
       LoopIsAwaited, FlagsAgree, OneWaiter, LiveLoops, LiveLoop, Pending,
       Waiters, Loops, flags, channels, callers, loops
  <2>6. JoinedStopHasOwner'
    BY <1>16 DEF ManualDone, Others, TypeOK, FlagsAgree, OneWaiter,
       JoinedStopHasOwner, Waiters, flags, channels, callers, loops
  <2> QED BY <2>1, <2>2, <2>3, <2>4, <2>5, <2>6 DEF Others
<1>u. CASE UNCHANGED vars
  BY <1>u DEF vars, Others, FlagsAgree, OneWaiter, ChannelsAgree, SpawnAlone,
     LoopIsAwaited, JoinedStopHasOwner, Waiters, LiveLoops, LiveLoop, Pending,
     flags, channels, callers, loops
<1> QED BY <1>1, <1>2, <1>3, <1>4, <1>5, <1>6, <1>7, <1>8, <1>9, <1>10, <1>11,
   <1>12, <1>13, <1>14, <1>15, <1>16, <1>u DEF Next, CallerStep, LoopStep,
   ManualStep

----------------------------------------------------------------------------
(* A Stop passes work.Wait only when no manual goroutine is left, and none *)
(* is accepted before the next Start.                                      *)
LEMMA AwaitedStep ==
  ASSUME TypeOK, WorkCounts, Others, WorkIsAwaited, [Next]_vars
  PROVE  WorkIsAwaited'
<1> USE DEF WorkIsAwaited
<1>1. ASSUME NEW w \in Manual, Trigger(w)
      PROVE  WorkIsAwaited'
  <2>1. \A c \in Callers : pc[c] # "finish"
    BY <1>1 DEF Trigger, Others, OneWaiter, Waiters
  <2> QED BY <1>1, <2>1 DEF Trigger, flags, callers
<1>2. ASSUME NEW w \in Manual, ManualDone(w)
      PROVE  WorkIsAwaited'
  BY <1>2 DEF ManualDone, LiveManual, TypeOK, flags, callers
<1>3. ASSUME NEW c \in Callers, StopWorkDone(c)
      PROVE  WorkIsAwaited'
  <2>1. LiveManual = {}
    BY <1>3, ZeroMeansNoWork DEF StopWorkDone
  <2> QED BY <1>3, <2>1 DEF StopWorkDone, LiveManual
<1>4. ASSUME NEW c \in Callers, StopFinish(c)
      PROVE  WorkIsAwaited'
  BY <1>4 DEF StopFinish, LiveManual
<1>5. ASSUME NEW c \in Callers, Start(c) \/ Stop(c)
      PROVE  WorkIsAwaited'
  BY <1>5 DEF Start, Stop, LiveManual, TypeOK, Others, OneWaiter, Waiters
<1>6. ASSUME NEW c \in Callers,
             Spawn(c) \/ StopJoin(c) \/ StopLoopDone(c) \/ StopJoined(c)
      PROVE  WorkIsAwaited'
  BY <1>6 DEF Spawn, StopJoin, StopLoopDone, StopJoined, LiveManual, TypeOK, flags
<1>7. ASSUME NEW g \in Loops, LoopStep(g)
      PROVE  WorkIsAwaited'
  BY <1>7 DEF LoopStep, LoopBegin, LoopCycleEnds, Tick, LoopTick, LoopStop, LiveManual,
     flags, callers
<1>8. ASSUME NEW w \in Manual, ManualBegin(w)
      PROVE  WorkIsAwaited'
  BY <1>8 DEF ManualBegin, LiveManual, TypeOK, flags, callers
<1>9. CASE UNCHANGED vars
  BY <1>9 DEF vars, LiveManual, flags, callers
<1> QED BY <1>1, <1>2, <1>3, <1>4, <1>5, <1>6, <1>7, <1>8, <1>9
        DEF Next, CallerStep, ManualStep

----------------------------------------------------------------------------
LEMMA InitIInv == Init => IInv
<1> SUFFICES ASSUME Init PROVE IInv
  OBVIOUS
<1>1. LiveManual = {} /\ LiveLoops = {} /\ Waiters = {}
  BY DEF Init, LiveManual, LiveLoops, LiveLoop, Pending, Waiters
<1>2. WorkCounts
  BY <1>1, FS_EmptySet DEF Init, WorkCounts
<1>3. TypeOK
  <2>1. 0 \in 0..MaxStarts /\ 0 \in 0..MaxStops /\ 0 \in Nat
    BY BoundsAssumption
  <2> QED BY <2>1 DEF Init, TypeOK
<1>4. FlagsAgree /\ OneWaiter /\ ChannelsAgree /\ SpawnAlone
  BY <1>1 DEF Init, FlagsAgree, OneWaiter, ChannelsAgree, SpawnAlone
<1>5. LoopIsAwaited /\ JoinedStopHasOwner /\ WorkIsAwaited
  BY <1>1 DEF Init, LoopIsAwaited, JoinedStopHasOwner, WorkIsAwaited
<1> QED BY <1>2, <1>3, <1>4, <1>5 DEF IInv

LEMMA StepIInv == IInv /\ [Next]_vars => IInv'
BY WorkStep, TypeStep, OthersStep, AwaitedStep DEF IInv, Others

(* IInv holds in every reachable state. *)
THEOREM InductiveInvariant == Spec => []IInv
BY InitIInv, StepIInv, PTL DEF Spec

(* Every variable keeps its type; the counter of the WaitGroup never goes  *)
(* negative (Done would panic).                                            *)
THEOREM TypeCorrect == Spec => []TypeOK
<1>1. IInv => TypeOK
  BY DEF IInv
<1> QED BY <1>1, InductiveInvariant, PTL

(* Between the return of Stop and the next Start nothing is probing.       *)
THEOREM StopQuiesces == Spec => []StoppedIsQuiet
<1>1. IInv => StoppedIsQuiet
  BY DEF IInv, FlagsAgree, OneWaiter, LoopIsAwaited, WorkIsAwaited, StoppedIsQuiet, Waiters
<1> QED BY <1>1, InductiveInvariant, PTL

(* No Start replaces the channels that a live loop reads without the       *)
(* mutex, hence no two loops are alive.                                    *)
THEOREM ChannelsAreStable == Spec => []LoopReadsItsChannels
<1>1. IInv => LoopReadsItsChannels
  BY DEF IInv, ChannelsAgree, SpawnAlone, LoopReadsItsChannels, LiveLoops, LiveLoop, Pending
<1> QED BY <1>1, InductiveInvariant, PTL

(* No channel is closed twice. *)
THEOREM ClosesOnce == Spec => []NoDoubleClose
<1>1. IInv => NoDoubleClose
  <2> SUFFICES ASSUME IInv PROVE NoDoubleClose
    OBVIOUS
  <2>1. running => stopCh \notin closedStop
    BY DEF IInv, ChannelsAgree
  <2>2. \A g \in Loops : loop[g] \in {"first", "select", "probing"} => loopDone[g] \notin closedDone
    BY DEF IInv, ChannelsAgree
  <2>3. \A c \in Callers : pc[c] = "finish" => myStopDone[c] \notin closedStopDone
    BY DEF IInv, FlagsAgree, OneWaiter, Waiters
  <2> QED BY <2>1, <2>2, <2>3 DEF NoDoubleClose
<1> QED BY <1>1, InductiveInvariant, PTL

(* TriggerOnce never adds to the WaitGroup while a Stop waits for it. *)
THEOREM AddsBeforeWait == Spec => NoAddDuringWait
<1>1. IInv /\ [Next]_vars => [work' > work => \A c \in Callers : pc[c] # "waitWork"]_vars
  <2> SUFFICES ASSUME IInv, Next, work' > work, NEW c \in Callers, pc[c] = "waitWork"
               PROVE  FALSE
    OBVIOUS
  <2>1. stopping
    BY DEF IInv, OneWaiter, Waiters
  <2>2. ~\E w \in Manual : Trigger(w)
    BY <2>1 DEF Trigger
  <2>3. ~\E w \in Manual : ManualDone(w)
    BY DEF ManualDone, IInv, TypeOK
  <2>4. work' = work
    BY <2>2, <2>3, OtherStepsKeepWork DEF IInv
  <2> QED BY <2>4 DEF IInv, TypeOK
<1> QED BY <1>1, InductiveInvariant, PTL DEF Spec, NoAddDuringWait

----------------------------------------------------------------------------
(* How a step changes the set of live loops. *)

LEMMA IdleEngineHasNoLoop ==
  ASSUME IInv, ~running, ~stopping
  PROVE  LiveLoops = {}
BY DEF IInv, OneWaiter, LoopIsAwaited, Waiters

LEMMA StartAddsItsLoop ==
  ASSUME IInv, NEW c \in Callers, Start(c)
  PROVE  LiveLoops = {} /\ stopCh + 1 \in Loops /\ LiveLoops' = {stopCh + 1}
<1>1. LiveLoops = {}
  BY IdleEngineHasNoLoop DEF Start
<1>2. stopCh + 1 \in Loops
  BY BoundsAssumption DEF Start, IInv, TypeOK, Loops
<1>3. \A d \in Callers : pc'[d] = "spawn" <=> d = c
  <2>1. \A d \in Callers : pc[d] # "spawn"
    BY <1>1 DEF IInv, SpawnAlone, LiveLoops, LiveLoop, Pending
  <2> QED BY <2>1 DEF Start, IInv, TypeOK
<1>4. done'[c] = stopCh + 1 /\ loop' = loop
  BY DEF Start, IInv, TypeOK, loops
<1>5. \A g \in Loops : LiveLoop(g)' <=> g = stopCh + 1
  BY <1>1, <1>3, <1>4 DEF LiveLoops, LiveLoop, Pending
<1> QED BY <1>1, <1>2, <1>5 DEF LiveLoops

LEMMA LoopStopRemovesItsLoop ==
  ASSUME IInv, NEW g \in Loops, LoopStop(g)
  PROVE  g \in LiveLoops /\ LiveLoops' = LiveLoops \ {g}
<1>1. g \in LiveLoops
  BY DEF LoopStop, LiveLoops, LiveLoop
<1>2. ~Pending(g) /\ (\A h \in Loops : Pending(h)' <=> Pending(h))
  BY DEF LoopStop, IInv, ChannelsAgree, SpawnAlone, Pending, callers
<1>3. \A h \in Loops : LiveLoop(h)' <=> LiveLoop(h) /\ h # g
  BY <1>2 DEF LoopStop, LiveLoop, IInv, TypeOK
<1> QED BY <1>1, <1>3 DEF LiveLoops

LEMMA SpawnKeepsLoops ==
  ASSUME IInv, NEW c \in Callers, Spawn(c)
  PROVE  LiveLoops' = LiveLoops
<1>1. done[c] \in Loops /\ Pending(done[c]) /\ loop' = [loop EXCEPT ![done[c]] = "spawned"]
  BY DEF Spawn, IInv, SpawnAlone, Pending
<1>2. \A h \in Loops : h # done[c] => ~Pending(h) /\ ~Pending(h)'
  BY DEF Spawn, IInv, TypeOK, SpawnAlone, Pending
<1>3. \A h \in Loops : LiveLoop(h)' <=> LiveLoop(h)
  BY <1>1, <1>2 DEF LiveLoop, IInv, TypeOK
<1> QED BY <1>3 DEF LiveLoops

LEMMA CallersKeepLoops ==
  ASSUME IInv, NEW c \in Callers,
         Stop(c) \/ StopJoin(c) \/ StopLoopDone(c) \/ StopWorkDone(c) \/ StopFinish(c) \/ StopJoined(c)
  PROVE  LiveLoops' = LiveLoops
<1>1. \A d \in Callers : (pc'[d] = "spawn" <=> pc[d] = "spawn")
                         /\ (pc[d] = "spawn" => done'[d] = done[d])
  BY DEF Stop, StopJoin, StopLoopDone, StopWorkDone, StopFinish, StopJoined, IInv, TypeOK
<1>2. loop' = loop
  BY DEF Stop, StopJoin, StopLoopDone, StopWorkDone, StopFinish, StopJoined, loops
<1>3. \A h \in Loops : LiveLoop(h)' <=> LiveLoop(h)
  BY <1>1, <1>2 DEF LiveLoop, Pending
<1> QED BY <1>3 DEF LiveLoops

LEMMA LoopsKeepLoops ==
  ASSUME IInv, NEW g \in Loops, LoopBegin(g) \/ LoopCycleEnds(g) \/ Tick(g) \/ LoopTick(g)
  PROVE  LiveLoops' = LiveLoops
<1>1. pc' = pc /\ done' = done
  BY DEF LoopBegin, LoopCycleEnds, Tick, LoopTick, callers
<1>2. \A h \in Loops : loop'[h] \in {"spawned", "first", "select", "probing"}
                       <=> loop[h] \in {"spawned", "first", "select", "probing"}
  BY DEF LoopBegin, LoopCycleEnds, Tick, LoopTick, IInv, TypeOK
<1>3. \A h \in Loops : LiveLoop(h)' <=> LiveLoop(h)
  BY <1>1, <1>2 DEF LiveLoop, Pending
<1> QED BY <1>3 DEF LiveLoops

----------------------------------------------------------------------------
(* The refinement.  Phase and Jobs are the mapping of ProbeEngine. *)
Phase == IF stopping THEN "draining" ELSE IF stopped THEN "closed" ELSE "open"
Jobs  == ({"loop"} \X LiveLoops) \cup ({"manual"} \X LiveManual)

LEMMA InitRefines == Init => Contract!Init
<1> SUFFICES ASSUME Init PROVE Contract!Init
  OBVIOUS
<1>1. LiveManual = {} /\ LiveLoops = {}
  BY DEF Init, LiveManual, LiveLoops, LiveLoop, Pending
<1> QED BY <1>1 DEF Init, Contract!Init

LEMMA StepRefines == IInv /\ [Next]_vars => [Contract!Next]_(Contract!vars)
<1> SUFFICES ASSUME IInv, [Next]_vars PROVE [Contract!Next]_(Contract!vars)
  OBVIOUS
<1> USE DEF Contract!Next, Contract!vars
<1>1. ASSUME NEW c \in Callers, Start(c)
      PROVE  Contract!Next
  <2> DEFINE j == <<"loop", stopCh + 1>>
  <2>1. LiveLoops = {} /\ stopCh + 1 \in Loops /\ LiveLoops' = {stopCh + 1}
    BY <1>1, StartAddsItsLoop
  <2>2. LiveManual' = LiveManual
    BY <1>1 DEF Start, LiveManual
  <2>3. j \in {"loop"} \X Loops
    BY <2>1
  <2>4. Jobs \cap ({"loop"} \X Loops) = {}
    BY <2>1 DEF Jobs
  <2>5. Jobs' = Jobs \cup {j}
    BY <2>1, <2>2 DEF Jobs
  <2>6. Phase # "draining" /\ Phase' = "open"
    BY <1>1 DEF Start, Phase
  <2>7. Contract!StartLoop(j)
    BY <2>4, <2>5, <2>6 DEF Contract!StartLoop, Jobs, Phase
  <2> QED BY <2>3, <2>7
<1>2. ASSUME NEW c \in Callers, Stop(c)
      PROVE  Contract!Next
  <2>1. LiveLoops' = LiveLoops /\ LiveManual' = LiveManual
    BY <1>2, CallersKeepLoops DEF Stop, LiveManual
  <2>2. Contract!Stop
    BY <1>2, <2>1 DEF Stop, Contract!Stop
  <2> QED BY <2>2
<1>3. ASSUME NEW c \in Callers, StopFinish(c)
      PROVE  Contract!Next
  <2>1. LiveLoops' = LiveLoops /\ LiveManual' = LiveManual
    BY <1>3, CallersKeepLoops DEF StopFinish, LiveManual
  <2>2. c \in Waiters /\ stopping /\ stopped /\ ~running
    BY <1>3 DEF StopFinish, IInv, Waiters, OneWaiter, FlagsAgree
  <2>3. LiveManual = {}
    BY <1>3 DEF StopFinish, IInv, WorkIsAwaited
  <2>4. LiveLoops = {}
    BY <1>3, <2>2 DEF StopFinish, IInv, OneWaiter, LoopIsAwaited, Waiters
  <2>5. Contract!Drained
    BY <1>3, <2>1, <2>2, <2>3, <2>4 DEF StopFinish, Contract!Drained
  <2> QED BY <2>5
<1>4. ASSUME NEW g \in Loops, LoopStop(g)
      PROVE  Contract!Next
  <2> DEFINE j == <<"loop", g>>
  <2>1. g \in LiveLoops /\ LiveLoops' = LiveLoops \ {g}
    BY <1>4, LoopStopRemovesItsLoop
  <2>2. LiveManual' = LiveManual /\ Phase' = Phase
    BY <1>4 DEF LoopStop, LiveManual, Phase, flags
  <2>3. j \in Jobs /\ Jobs' = Jobs \ {j} /\ j \in {"loop"} \X Loops
    BY <2>1, <2>2 DEF Jobs
  <2>4. Contract!Finish(j)
    BY <2>2, <2>3 DEF Contract!Finish, Jobs, Phase
  <2> QED BY <2>3, <2>4
<1>5. ASSUME NEW w \in Manual, Trigger(w)
      PROVE  Contract!Next
  <2> DEFINE j == <<"manual", w>>
  <2>1. w \notin LiveManual /\ LiveManual' = LiveManual \cup {w}
    BY <1>5 DEF Trigger, LiveManual, IInv, TypeOK
  <2>2. LiveLoops' = LiveLoops /\ Phase' = Phase /\ Phase = "open"
    BY <1>5 DEF Trigger, LiveLoops, LiveLoop, Pending, Phase, flags, callers, loops
  <2>3. j \notin Jobs /\ Jobs' = Jobs \cup {j} /\ j \in {"manual"} \X Manual
    BY <2>1, <2>2 DEF Jobs
  <2>4. Contract!Trigger(j)
    BY <2>2, <2>3 DEF Contract!Trigger, Jobs, Phase
  <2> QED BY <2>3, <2>4
<1>6. ASSUME NEW w \in Manual, ManualDone(w)
      PROVE  Contract!Next
  <2> DEFINE j == <<"manual", w>>
  <2>1. w \in LiveManual /\ LiveManual' = LiveManual \ {w}
    BY <1>6 DEF ManualDone, LiveManual, IInv, TypeOK
  <2>2. LiveLoops' = LiveLoops /\ Phase' = Phase
    BY <1>6 DEF ManualDone, LiveLoops, LiveLoop, Pending, Phase, flags, callers, loops
  <2>3. j \in Jobs /\ Jobs' = Jobs \ {j} /\ j \in {"manual"} \X Manual
    BY <2>1, <2>2 DEF Jobs
  <2>4. Contract!Finish(j)
    BY <2>2, <2>3 DEF Contract!Finish, Jobs, Phase
  <2> QED BY <2>3, <2>4
<1>7. ASSUME NEW c \in Callers,
             Spawn(c) \/ StopJoin(c) \/ StopLoopDone(c) \/ StopWorkDone(c) \/ StopJoined(c)
      PROVE  UNCHANGED Contract!vars
  <2>1. LiveLoops' = LiveLoops
    BY <1>7, SpawnKeepsLoops, CallersKeepLoops
  <2>2. LiveManual' = LiveManual /\ Phase' = Phase
    BY <1>7 DEF Spawn, StopJoin, StopLoopDone, StopWorkDone, StopJoined, LiveManual, Phase, flags
  <2> QED BY <2>1, <2>2 DEF Phase
<1>8. ASSUME NEW g \in Loops, LoopBegin(g) \/ LoopCycleEnds(g) \/ Tick(g) \/ LoopTick(g)
      PROVE  UNCHANGED Contract!vars
  <2>1. LiveLoops' = LiveLoops
    BY <1>8, LoopsKeepLoops
  <2>2. LiveManual' = LiveManual /\ Phase' = Phase
    BY <1>8 DEF LoopBegin, LoopCycleEnds, Tick, LoopTick, LiveManual, Phase, flags
  <2> QED BY <2>1, <2>2 DEF Phase
<1>9. ASSUME NEW w \in Manual, ManualBegin(w)
      PROVE  UNCHANGED Contract!vars
  <2>1. LiveManual' = LiveManual
    BY <1>9 DEF ManualBegin, LiveManual, IInv, TypeOK
  <2>2. LiveLoops' = LiveLoops /\ Phase' = Phase
    BY <1>9 DEF ManualBegin, LiveLoops, LiveLoop, Pending, Phase, flags, callers, loops
  <2> QED BY <2>1, <2>2 DEF Phase
<1>10. CASE UNCHANGED vars
  BY <1>10 DEF vars, LiveLoops, LiveLoop, Pending, LiveManual, flags, callers, loops
<1> QED BY <1>1, <1>2, <1>3, <1>4, <1>5, <1>6, <1>7, <1>8, <1>9, <1>10
        DEF Next, CallerStep, LoopStep, ManualStep

(* The engine implements the safety part of its contract: whatever the     *)
(* interleaving, a drain ends only with nothing running, nothing starts    *)
(* unless the engine is open, and no second loop starts beside a first.    *)
THEOREM EngineRefinesContract == Spec => Contract!Safety
BY InitRefines, StepRefines, InductiveInvariant, PTL DEF Spec, Contract!Safety
==============================================================================
