---------------------------- MODULE ProviderCalls ----------------------------
(***************************************************************************)
(* The calls of one provider client: the answerer's, and those of the four *)
(* benchmarks' judges.  A call makes requests; the transport spaces them   *)
(* by the rate limit, repeats one that met a transient error and gives up  *)
(* on any other; the judge asks again when a reply is malformed or cut     *)
(* short.  A reply is its form, the word that carries its verdict, whether *)
(* it is complete, and its tokens; its wording is left out, and so is the  *)
(* count of retries in the metrics.                                        *)
(***************************************************************************)
EXTENDS Integers, Sequences, SequencesExt, FiniteSets, Functions

CONSTANTS
    Adapters,            \* the adapters of this instance
    MaxRetries,          \* runtime.max_retries
    MaxResponseRetries,  \* runtime.response_max_retries of a judge
    Interval,            \* 60 / rpm, in the unit of time of the back-off
    Criteria,            \* criteria of a BEAM rubric
    MaxCalls             \* bound: calls of the client

\* What is assumed of the constants; the instances check it.
AdapterAssumption ==
    Adapters \subseteq {"answerer", "locomo", "longmemeval", "memoryagentbench", "beam"}
BoundAssumption ==
    /\ MaxRetries \in Nat /\ MaxResponseRetries \in Nat /\ Interval \in Nat
    /\ Criteria \in Nat \ {0} /\ MaxCalls \in Nat

Tokens == {1, 2}
Texts(adapter) ==
    CASE adapter \in {"locomo", "longmemeval"} ->
             [form : {"label", "judgment", "VERDICT:", "JUDGMENT:"},
              word : {"CORRECT", "WRONG", "PASS"}]
      [] adapter = "memoryagentbench" -> [form : {"answer"}, word : {"yes", "no"}]
      [] adapter = "beam" -> [form : {"score"}, word : {"0", "0.5", "1"}]
      [] adapter = "answerer" -> [form : {"text"}, word : {"answer"}]
Unusable == [form : {"empty", "malformed"}, word : {""}]
Replies(adapter) ==
    {[form |-> t.form, word |-> t.word, complete |-> c, tokens |-> n] :
        t \in Texts(adapter) \cup Unusable, c \in BOOLEAN, n \in Tokens}

\* A rate limit, a timeout or a server error may pass; a bad request does not,
\* nor does a reply without content, which the transport raises as its own
\* error and whose tokens no adapter sees.
Transient == {"timeout", "throttled"}
Permanent == {"rejected", "no content"}

VARIABLES
    adapter,
    doing,      \* "idle", "waiting", "sent", "received"
    since,      \* time since the last request, up to Interval
    gap,        \* time between the last two requests, up to Interval
    tries,      \* requests of the transport's call under way
    requests,   \* requests of the adapter's call
    replies,    \* the replies of the adapter's call
    scores,     \* BEAM: the scores of the criteria judged so far
    counted,    \* what the call added to the metrics
    outcome,    \* of the last call: a result, or what it failed with
    calls

callVars == <<adapter, doing, since, gap, tries, requests, replies, scores, counted, outcome, calls>>

Becomes(from, to) == doing = from /\ doing' = to
AtMost(bound, n) == IF n > bound THEN bound ELSE n
Capped(n) == AtMost(Interval, n)
Total(tokens) == SumFunction(tokens)
LastReply == replies[Len(replies)]
NoCount == [completed |-> 0, failed |-> 0, tokens |-> 0]

-----------------------------------------------------------------------------
\* What a reply says.

\* Out of two halves: a verdict's score.
Meaning(word) ==
    CASE word \in {"CORRECT", "PASS", "yes", "1"} -> 2
      [] word = "0.5" -> 1
      [] OTHER -> 0

\* Variant: a truncated reply is read as far as it goes.
AcceptedCutShort(reply) ==
    CASE adapter = "answerer" -> reply.form # "empty"
      [] adapter \in {"locomo", "longmemeval"} ->
             \/ reply.form \in {"label", "judgment"}
                /\ (reply.word = "PASS" => adapter = "longmemeval")
             \/ reply.form \in {"VERDICT:", "JUDGMENT:"}
      [] OTHER -> reply.form \in {"answer", "score"}

\* The answerer takes what is not empty; a judge what is complete and well
\* formed: for LoCoMo and LongMemEval JSON with a label, or a verdict line.
Accepted(reply) ==
    CASE adapter = "answerer" -> reply.form # "empty"
      [] adapter \in {"locomo", "longmemeval"} ->
             /\ reply.complete
             /\ \/ reply.form \in {"label", "judgment"}
                   /\ (reply.word = "PASS" => adapter = "longmemeval")
                \/ reply.form \in {"VERDICT:", "JUDGMENT:"}
      [] OTHER -> reply.complete /\ reply.form \in {"answer", "score"}

\* An accepted reply goes to the benchmark's own parser, and LoCoMo's knows
\* one key and one kind of line; whatever else it is given is WRONG.
Score(reply) ==
    IF adapter = "locomo" /\ (reply.form \notin {"label", "VERDICT:"} \/ reply.word = "PASS")
    THEN 0 ELSE Meaning(reply.word)

-----------------------------------------------------------------------------
\* The transport.

\* Variant: the slot is waited for once per call, not once per attempt.
SendOnceSpaced ==
    /\ Becomes("waiting", "sent")
    /\ gap' = IF since < Interval /\ tries = 0 THEN Interval ELSE since
    /\ since' = 0
    /\ tries' = tries + 1 /\ requests' = requests + 1
    /\ UNCHANGED <<adapter, replies, scores, counted, outcome, calls>>

\* The slot is waited for before each request.
Send ==
    /\ Becomes("waiting", "sent")
    /\ gap' = IF since < Interval THEN Interval ELSE since
    /\ since' = 0
    /\ tries' = tries + 1 /\ requests' = requests + 1
    /\ UNCHANGED <<adapter, replies, scores, counted, outcome, calls>>

\* The back-off doubles, up to 16, and then some.
BackOff(attempt) == AtMost(16, 2 ^ (attempt - 1))

\* A transport failure ends the adapter's call.  The adapters of LoCoMo,
\* LongMemEval and the answerer count it; the other judges do not.
GiveUp(error) ==
    /\ doing' = "idle"
    /\ outcome' = [is |-> error]
    /\ counted' = IF adapter \in {"memoryagentbench", "beam"} THEN counted
                  ELSE [counted EXCEPT !.failed = @ + 1]

Retry(error, delay) ==
    /\ doing = "sent" /\ error \in Transient
    /\ tries < MaxRetries + 1
    /\ doing' = "waiting"
    /\ since' = Capped(since + delay + BackOff(tries))
    /\ UNCHANGED <<adapter, gap, tries, requests, replies, scores, counted, outcome, calls>>

Fail(error, delay) ==
    /\ doing = "sent"
    /\ error \in Permanent \/ tries >= MaxRetries + 1
    /\ GiveUp(error)
    /\ since' = Capped(since + delay)
    /\ UNCHANGED <<adapter, gap, tries, requests, replies, scores, calls>>

Receive(reply, delay) ==
    /\ Becomes("sent", "received")
    /\ replies' = Append(replies, reply)
    /\ since' = Capped(since + delay)
    /\ UNCHANGED <<adapter, gap, tries, requests, scores, counted, outcome, calls>>

-----------------------------------------------------------------------------
\* The adapters.

Rounds == IF adapter \in {"locomo", "longmemeval"} THEN MaxResponseRetries + 1 ELSE 1

BeginCall ==
    /\ Becomes("idle", "waiting")
    /\ calls < MaxCalls /\ calls' = calls + 1
    /\ tries' = 0 /\ requests' = 0 /\ replies' = <<>> /\ scores' = <<>>
    /\ counted' = NoCount /\ outcome' = [is |-> "none"]
    /\ UNCHANGED <<adapter, since, gap>>

\* Most tasks of MemoryAgentBench are scored by rule, without a provider.
ScoreByRule ==
    /\ adapter = "memoryagentbench" /\ doing = "idle"
    /\ calls < MaxCalls /\ calls' = calls + 1
    /\ tries' = 0 /\ requests' = 0 /\ replies' = <<>> /\ scores' = <<>>
    /\ counted' = NoCount
    /\ \E score \in {0, 2} : outcome' = [is |-> "result", score |-> score, usage |-> 0]
    /\ UNCHANGED <<adapter, doing, since, gap>>

\* The usage of the call is that of every reply, those rejected included.
Usage == Total([i \in DOMAIN replies |-> replies[i].tokens])

\* The answerer records an empty reply as a failure like any other, without
\* the reply; a judge records the reply that it rejects.
Recorded(kind) ==
    IF adapter = "answerer" /\ kind = "failed" THEN 0 ELSE LastReply.tokens

Count(kind) ==
    counted' = [counted EXCEPT ![kind] = @ + 1, !.tokens = @ + Recorded(kind)]

NextCriterion == adapter = "beam" /\ Len(scores) + 1 < Criteria

Accept ==
    /\ doing = "received" /\ Accepted(LastReply)
    /\ Count("completed")
    /\ IF NextCriterion
       THEN doing' = "waiting" /\ tries' = 0 /\ scores' = Append(scores, Score(LastReply))
            /\ UNCHANGED outcome
       ELSE doing' = "idle" /\ UNCHANGED <<tries, scores>>
            /\ outcome' = [is |-> "result", usage |-> Usage,
                           score |-> IF adapter = "answerer" THEN 0
                                     ELSE Total(scores) + Score(LastReply)]
    /\ UNCHANGED <<adapter, since, gap, requests, replies, calls>>

Reject ==
    /\ doing = "received" /\ ~Accepted(LastReply)
    /\ Count("failed")
    /\ \/ Len(replies) < Rounds /\ doing' = "waiting" /\ tries' = 0 /\ UNCHANGED outcome
       \/ Len(replies) >= Rounds /\ doing' = "idle" /\ outcome' = [is |-> "unusable"]
          /\ UNCHANGED tries
    /\ UNCHANGED <<adapter, since, gap, requests, replies, scores, calls>>

\* Time goes by between calls.
Pass ==
    /\ doing = "idle" /\ calls < MaxCalls /\ since < Interval
    /\ since' = since + 1
    /\ UNCHANGED <<adapter, doing, gap, tries, requests, replies, scores, counted, outcome, calls>>

-----------------------------------------------------------------------------
CallInit ==
    /\ adapter \in Adapters
    /\ doing = "idle" /\ since = Interval /\ gap = Interval
    /\ tries = 0 /\ requests = 0 /\ replies = <<>> /\ scores = <<>>
    /\ counted = NoCount /\ outcome = [is |-> "none"] /\ calls = 0

\* The provider answers or errs within the timeout of the request.
Answered ==
    \E delay \in 0 .. 1 :
        \/ \E error \in Transient \cup Permanent : Retry(error, delay) \/ Fail(error, delay)
        \/ \E reply \in Replies(adapter) : Receive(reply, delay)

Call == Send \/ Answered \/ Accept \/ Reject

CallNext == BeginCall \/ ScoreByRule \/ Call \/ Pass

\* A call under way goes on, and the client's timeout answers for a provider
\* that does not.
CallSpec == CallInit /\ [][CallNext]_callVars /\ WF_callVars(Call)

-----------------------------------------------------------------------------
CallTypeOK ==
    /\ adapter \in Adapters
    /\ doing \in {"idle", "waiting", "sent", "received"}
    /\ since \in 0 .. Interval /\ gap \in 0 .. Interval
    /\ tries \in 0 .. MaxRetries + 1 /\ calls \in 0 .. MaxCalls
    /\ \A i \in DOMAIN replies : replies[i] \in Replies(adapter)
    /\ scores \in BoundedSeq(0 .. 2, Criteria)
    /\ counted \in [completed : Nat, failed : Nat, tokens : Nat]

\* Two requests of a client are never closer than its rate allows, whether a
\* retry, another round, another criterion or another call made the second.
SpacedByRate == gap >= Interval

\* What a call costs is bounded: so many requests per round, so many rounds.
\* A call gives up on a transient error only when it has retried it as often
\* as it may, and never repeats a request that met another error.
RetriesAreBounded ==
    /\ requests <= (MaxRetries + 1) * (IF adapter = "beam" THEN Criteria ELSE Rounds)
    /\ outcome.is \in Transient => tries = MaxRetries + 1

\* Requests keep the distance the rate demands and are bounded in number.
RequestsSpaced == SpacedByRate /\ RetriesAreBounded

\* A result's usage is the tokens of every reply of the call, the rejected ones
\* included, and the metrics are told the same, each reply counted once.  So are
\* they of a call that fails, but for the answerer's: the tokens of a reply that
\* it finds empty are told to nobody.
UsageIsOfEveryReply ==
    LET tokens == Total([i \in DOMAIN replies |-> replies[i].tokens]) IN
    /\ outcome.is = "result" =>
          /\ outcome.usage = tokens /\ counted.tokens = tokens
          /\ counted.completed + counted.failed = Len(replies)
    /\ doing = "idle" =>
          counted.tokens = IF adapter = "answerer" /\ outcome.is = "unusable"
                           THEN 0 ELSE tokens

\* The replies that a judge's result is made from: BEAM's are all of them.
UsedReplies == IF adapter = "beam" THEN 1 .. Len(replies) ELSE {Len(replies)}

\* A judge's result rests on complete replies, one for each criterion.
RestsOnComplete ==
    outcome.is = "result" /\ adapter # "answerer" /\ replies # <<>> =>
        /\ \A i \in UsedReplies : replies[i].complete
        /\ adapter = "beam" => Len(replies) = Criteria

\* It never says more for the answer than these replies did.
VerdictOfReplies ==
    outcome.is = "result" /\ adapter # "answerer" /\ replies # <<>> =>
        outcome.score <=
            Total([i \in DOMAIN replies |->
                      IF i \in UsedReplies THEN Meaning(replies[i].word) ELSE 0])

\* A verdict never says more for the answer than complete replies did.  Its
\* usage, and what the metrics were told of it, is that of every reply, those a
\* judge rejected included; only an answer that failed as empty is told without.
NeverFlattered == RestsOnComplete /\ VerdictOfReplies /\ UsageIsOfEveryReply

\* "The runner does not invent a score": a result's score is the verdict that
\* the reply gives.
VerdictAsGiven ==
    outcome.is = "result" /\ adapter \in {"locomo", "longmemeval"} =>
        outcome.score = Meaning(LastReply.word)

\* A call ends, with a result or an error.
Idle == doing = "idle"
=============================================================================
