------------------------------- MODULE Probing -------------------------------
(***************************************************************************)
(* One probe: probeOne of the engine with probeOpenAI and probeAnthropic.  *)
(* The SDK sends the request and repeats it after failures that may pass;  *)
(* a 2xx answer is a stream of chunks (OpenAI) or one message (Anthropic,  *)
(* here a stream of exactly one chunk).  One context with a deadline       *)
(* covers everything.  What comes over the wire is the provider's choice;  *)
(* the SDK (retries, accumulator) is modelled as the code relies on it.    *)
(*                                                                         *)
(* A chunk has an id (0: none), a piece of the text and a usage.  Of the   *)
(* text only this matters: "none" has no choice at all, "blank" nothing    *)
(* visible, "phrase" is one of the known failure phrases and two "half"    *)
(* make one together.  Logging, TPS and the wording of errors are left     *)
(* out; time is capped at the deadline, later instants are all the same.   *)
(***************************************************************************)
EXTENDS Integers, FiniteSets, Sequences

CONSTANTS Retries,    \* PROBE_RETRIES
          Timeout,    \* PROBE_TIMEOUT, in ticks
          MaxChunks,  \* bound on the chunks of a stream
          ChunkIds, Usages  \* the ids and the usages that providers send

ASSUME ProbingAssumption ==
  /\ Retries \in Nat /\ Timeout \in Nat \ {0} /\ MaxChunks \in Nat
  /\ 0 \notin ChunkIds
  /\ Usages \subseteq [prompt : Nat, completion : Nat]

VARIABLES api,       \* the API type of the provider
          at,        \* where the probe is
          attempts,  \* requests sent so far
          now,       \* time since the start
          header,    \* requestIDFromHeader: the attempt it came with, or 0
          ttft,      \* ttftMs
          acc,       \* the accumulator of the SDK, or the message
          usage,     \* lastUsage...
          cause,     \* how the call of the SDK ended
          latency, result,
          named,     \* history: the attempts whose answer had an id header
          sent       \* history: the chunks of the answer

wire == <<named, sent>>
reading == <<ttft, acc, usage>>
probingVars == <<api, at, attempts, now, header, reading, cause, latency, result, wire>>

NoUsage == [prompt |-> 0, completion |-> 0]
Pieces  == {"none", "blank", "word", "half", "phrase"}
Chunks  == [id : ChunkIds \cup {0}, piece : Pieces, usage : Usages \cup {NoUsage}]

Empty == [id |-> 0, choices |-> FALSE, visible |-> FALSE, halves |-> 0, usage |-> NoUsage]
NoResult == [status |-> "none", request |-> <<"none", 0>>, usage |-> NoUsage]

Statuses == {"none", "success", "error", "timeout", "empty_content", "soft_fail"}
Places == {"send", "wait", "backoff", "body", "returned", "measured", "done"}

(* In particular no probe has the status empty_response. *)
ProbingTypeOK ==
  /\ api \in {"openai", "anthropic"} /\ at \in Places
  /\ attempts \in 0..Retries + 1 /\ now \in 0..Timeout
  /\ header \in 0..attempts /\ named \subseteq 1..attempts
  /\ ttft \in 0..now /\ latency \in 0..now
  /\ cause \in {"none", "eof", "broken", "refused", "deadline"}
  /\ result.status \in Statuses /\ (result.status # "none") = (at = "done")

ProbingInit ==
  /\ api \in {"openai", "anthropic"}
  /\ at = "send" /\ attempts = 0 /\ now = 0
  /\ header = 0 /\ ttft = 0 /\ acc = Empty /\ usage = NoUsage
  /\ cause = "none" /\ latency = 0 /\ result = NoResult
  /\ named = {} /\ sent = <<>>

----------------------------------------------------------------------------
TimePasses ==
  /\ at # "done" /\ now < Timeout
  /\ now' = now + 1
  /\ UNCHANGED <<api, at, attempts, header, reading, cause, latency, result, wire>>

DeadlineExceeded == now = Timeout

Return(why) == at' = "returned" /\ cause' = why

Send ==
  /\ at = "send"
  /\ at' = "wait" /\ attempts' = attempts + 1
  /\ UNCHANGED <<api, now, header, reading, cause, latency, result, wire>>

(* The SDK repeats the request after connection errors, 408, 409, 429 and  *)
(* 5xx, up to MaxRetries times.                                            *)
RetryOrReturn ==
  IF attempts <= Retries THEN at' = "backoff" /\ UNCHANGED cause ELSE Return("refused")

(* The middleware sees every answer: of each attempt, not of the last. *)
Middleware_KeepsFirst(id) == IF id /\ header = 0 THEN attempts ELSE header
Middleware(id) == IF id THEN attempts ELSE header

Answer(code, id) ==
  /\ at = "wait"
  /\ header' = Middleware(id)
  /\ named' = IF id THEN named \cup {attempts} ELSE named
  /\ \/ code = "2xx" /\ at' = "body" /\ UNCHANGED cause
     \/ code = "5xx" /\ RetryOrReturn
     \/ code = "4xx" /\ Return("refused")
  /\ UNCHANGED <<api, attempts, now, reading, latency, result, sent>>

ConnectionFails ==
  /\ at = "wait"
  /\ RetryOrReturn
  /\ UNCHANGED <<api, attempts, now, header, reading, latency, result, wire>>

BackoffEnds ==
  /\ at = "backoff"
  /\ at' = "send"
  /\ UNCHANGED <<api, attempts, now, header, reading, cause, latency, result, wire>>

(* The context ends whatever the SDK is waiting for. *)
Awaiting_OnlyHeaders == {"wait", "backoff"}
Awaiting == {"wait", "backoff", "body"}

Expire ==
  /\ at \in Awaiting /\ DeadlineExceeded
  /\ Return("deadline")
  /\ UNCHANGED <<api, attempts, now, header, reading, latency, result, wire>>

(* The accumulator refuses chunks of another id than the first one; the    *)
(* code ignores that it does.                                              *)
AddChunk(c) ==
  IF acc.id \notin {0, c.id} THEN acc
  ELSE [id      |-> c.id,
        choices |-> acc.choices \/ c.piece # "none",
        visible |-> acc.visible \/ c.piece \in {"word", "half", "phrase"},
        halves  |-> CASE c.piece = "phrase" -> 2
                      [] c.piece = "half" /\ acc.halves < 2 -> acc.halves + 1
                      [] OTHER -> acc.halves,
        usage   |-> [prompt     |-> acc.usage.prompt + c.usage.prompt,
                     completion |-> acc.usage.completion + c.usage.completion]]

Chunk(c) ==
  /\ at = "body" /\ Len(sent) < (IF api = "openai" THEN MaxChunks ELSE 1)
  /\ sent' = Append(sent, c)
  /\ acc' = AddChunk(c)
  /\ ttft' = IF api = "openai" /\ c.piece # "none" /\ \A i \in DOMAIN sent : sent[i].piece = "none"
             THEN now ELSE ttft
  /\ usage' = IF c.usage = NoUsage THEN usage ELSE c.usage
  /\ UNCHANGED <<api, at, attempts, now, header, cause, latency, result, named>>

(* A stream may end with or without [DONE]; a message has to be complete.  *)
BodyEnds ==
  /\ at = "body" /\ (api = "anthropic" => sent # <<>>)
  /\ Return("eof")
  /\ UNCHANGED <<api, attempts, now, header, reading, latency, result, wire>>

(* A connection that is reset, an error event, a body that is not JSON. *)
BodyBreaks ==
  /\ at = "body"
  /\ Return("broken")
  /\ UNCHANGED <<api, attempts, now, header, reading, latency, result, wire>>

Measure ==
  /\ at = "returned"
  /\ at' = "measured"
  /\ latency' = now
  /\ ttft' = IF api = "anthropic" THEN now ELSE ttft
  /\ UNCHANGED <<api, attempts, now, header, acc, usage, cause, result, wire>>

RequestID ==
  IF header # 0 THEN <<"header", header>> ELSE <<"body", acc.id>>

(* The usage of the accumulator, or else the last one of any chunk. *)
Used ==
  IF api = "openai" /\ acc.usage.prompt = 0 /\ usage.prompt > 0 THEN usage ELSE acc.usage

Failure_CutIsTimeout == IF cause \in {"deadline", "broken"} THEN "timeout" ELSE "error"
Failure == IF DeadlineExceeded THEN "timeout" ELSE "error"

Failed_OnlyByContext == DeadlineExceeded
Failed == cause # "eof"

Classified ==
  IF ~acc.choices \/ ~acc.visible THEN "empty_content"
  ELSE IF acc.halves = 2 THEN "soft_fail" ELSE "success"

Verdict ==
  /\ at = "measured"
  /\ at' = "done"
  /\ result' = IF Failed THEN [NoResult EXCEPT !.status = Failure]
               ELSE [status |-> Classified, request |-> RequestID, usage |-> Used]
  /\ UNCHANGED <<api, attempts, now, header, reading, cause, latency, wire>>

Program == Send \/ BackoffEnds \/ Expire \/ Measure \/ Verdict

ProbingNext ==
  \/ TimePasses \/ Program
  \/ \E code \in {"2xx", "4xx", "5xx"}, id \in BOOLEAN : Answer(code, id)
  \/ \E c \in Chunks : Chunk(c)
  \/ ConnectionFails \/ BodyEnds \/ BodyBreaks

(* Time passes and the program goes on; a provider need not do anything. *)
ProbingSpec == ProbingInit /\ [][ProbingNext]_probingVars /\ WF_probingVars(TimePasses) /\ WF_probingVars(Program)

----------------------------------------------------------------------------
(* The chunks that belong to the answer: those of its first id. *)
Kept ==
  LET Named == {i \in DOMAIN sent : sent[i].id # 0}
  IN {i \in DOMAIN sent : \/ \A j \in Named : i < j
                          \/ \E j \in Named : sent[i].id = sent[j].id /\ \A k \in Named : j <= k}
KeptWith(pieces) == {i \in Kept : sent[i].piece \in pieces}

(* What is recorded is what happened on the wire, whatever the attempts,   *)
(* the order of the chunks and the clock did: a complete answer counts by  *)
(* its whole text, even when the deadline passes before the verdict, and   *)
(* no answer that was cut, broken or refused counts as one.                *)
VerdictIsExact ==
  at = "done" =>
    LET visible == KeptWith({"word", "half", "phrase"}) # {}
        phrase  == KeptWith({"phrase"}) # {} \/ Cardinality(KeptWith({"half"})) > 1
    IN IF cause # "eof" THEN result.status \in {"timeout", "error"}
       ELSE result.status = IF ~visible THEN "empty_content"
                            ELSE IF phrase THEN "soft_fail" ELSE "success"

(* An outage that is the deadline's is never recorded as an error of the   *)
(* provider, and no timeout is recorded before its time.                   *)
TimeoutsAreReal ==
  at = "done" => /\ cause = "deadline" => result.status = "timeout"
                 /\ result.status = "timeout" => now = Timeout

(* The request id that is recorded names the attempt that was answered, if *)
(* that attempt had one; it is the body's only if no attempt had one.      *)
AnswerIsNamed ==
  (at = "done" /\ cause = "eof") =>
    /\ attempts \in named => result.request = <<"header", attempts>>
    /\ named = {} => result.request[1] = "body"

(* A probe ends, even when the provider never answers, or stalls. *)
ProbeEnds == <>(at = "done")

(* README: "empty_response: HTTP 200 but empty body". *)
EmptyBodyIsEmptyResponse ==
  at = "done" /\ cause = "eof" /\ sent = <<>> => result.status = "empty_response"

(* redteam_test.go: the probe detects a stalled stream by its timeout and  *)
(* "should return whatever content was accumulated".                       *)
StalledContentIsReturned ==
  at = "done" /\ api = "openai" /\ cause = "deadline" /\ KeptWith({"word"}) # {} =>
    result.status \in {"success", "soft_fail"}
=============================================================================
