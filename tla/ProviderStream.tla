--------------------------- MODULE ProviderStream ---------------------------
(***************************************************************************)
(* What a provider's event stream is made into, for the three wire         *)
(* protocols: Anthropic messages, OpenAI-compatible chat, and Codex        *)
(* responses (provider/anthropic.rs, provider/openai_compat.rs).           *)
(*                                                                         *)
(* An event is one decoded frame.  "think" and "text" are pieces of        *)
(* reasoning and of the answer; "call" names a tool, "frag" is a piece of  *)
(* its arguments, "whole" the last piece, after which they parse; "stop"   *)
(* and "length" are the reason why the model ended; "done" is the          *)
(* protocol's terminal event, "over" the same with more tokens used than   *)
(* the request allowed.  "bad" is a frame that is not JSON or an error of  *)
(* the provider, "big" one beyond a size limit, "cut" a lost connection.   *)
(* A stream that ends without any of these is an early end of file.        *)
(***************************************************************************)
EXTENDS Naturals, Sequences, SequencesExt

Kinds == {"anthropic", "chat", "codex"}

PiecesOf(kind) == {"think", "text"} \cup IF kind = "codex" THEN {"item", "broken"}
                                          ELSE {"call", "frag", "whole", "stop", "length"}

ClosingsOf(kind) == {"done", "bad", "big", "cut"} \cup IF kind = "codex" THEN {"over"} ELSE {}

\* A decoder: whether it ended and how, the pieces it holds, what was displayed.
\* `calls` counts the calls with parsed arguments, `open` is the one being sent.
Start(kind) ==
    [end |-> "open", begun |-> kind # "anthropic", text |-> FALSE, calls |-> 0, open |-> "none",
     reason |-> "none", shown |-> FALSE, candidate |-> FALSE]

End(d, how) == [d EXCEPT !.end = how]

\* No event but the first is taken before message_start, and no chat delta after finish_reason.
OutOfOrder(kind, d) ==
    \/ ~d.begun
    \/ kind = "chat" /\ d.reason # "none"

\* Arguments for a call that was never named: an error at once, or when the calls are parsed.
Argument(kind, d, last) ==
    IF d.open = "none" /\ kind = "anthropic" THEN End(d, "protocol")
    ELSE IF last /\ d.open \in {"empty", "part"} THEN [d EXCEPT !.open = "none", !.calls = d.calls + 1]
    ELSE [d EXCEPT !.open = IF d.open \in {"none", "lost"} THEN "lost" ELSE "part"]

Piece(kind, d, e) ==
    CASE e = "think"  -> [d EXCEPT !.shown = TRUE]
      [] e = "text"   -> [d EXCEPT !.text = TRUE, !.candidate = TRUE]
      [] e = "item"   -> [d EXCEPT !.calls = d.calls + 1]
      [] e = "broken" -> [d EXCEPT !.open = "part"]
      [] e = "call"   -> [d EXCEPT !.open = IF d.open = "lost" THEN "part" ELSE "empty"]
      [] e = "frag"   -> Argument(kind, d, FALSE)
      [] e = "whole"  -> Argument(kind, d, TRUE)
      [] OTHER        -> [d EXCEPT !.reason = e]

\* An accepted response has text or a call.
Accept(d, calls) ==
    IF d.text \/ calls > 0 THEN [d EXCEPT !.end = "ok", !.calls = calls] ELSE End(d, "protocol")

\* An anthropic call without arguments does not parse; the other protocols read it as {}.
AnthropicDone(d) ==
    IF d.reason = "none" \/ (d.open # "none" /\ d.reason # "length") THEN End(d, "protocol")
    ELSE Accept(d, IF d.reason = "length" THEN 0 ELSE d.calls)

ParsedCalls(d) == d.calls + (IF d.open = "empty" THEN 1 ELSE 0)

ChatDone(d) ==
    IF d.reason = "none" \/ (d.open \in {"part", "lost"} /\ d.reason # "length") THEN End(d, "protocol")
    ELSE Accept(d, ParsedCalls(d))

\* response.completed is both the reason and the end.  A usage above the limit drops the calls.
CodexDone(d, over) ==
    IF over THEN Accept(d, 0)
    ELSE IF d.open = "part" THEN End(d, "protocol") ELSE Accept(d, ParsedCalls(d))

Done(kind, d, over) ==
    CASE kind = "anthropic" -> AnthropicDone(d)
      [] kind = "chat"      -> ChatDone(d)
      [] OTHER              -> CodexDone(d, over)

Step(kind, d, e) ==
    IF d.end # "open" THEN d
    ELSE CASE e = "bad"              -> End(d, "protocol")
           [] e = "big"              -> End(d, "toobig")
           [] e = "cut"              -> End(d, "transport")
           [] e = "begin"            -> IF d.begun THEN End(d, "protocol") ELSE [d EXCEPT !.begun = TRUE]
           [] e \in {"done", "over"} -> IF d.begun THEN Done(kind, d, e = "over") ELSE End(d, "protocol")
           [] OTHER                  -> IF OutOfOrder(kind, d) THEN End(d, "protocol") ELSE Piece(kind, d, e)

\* The end of the stream before any terminal event is a truncated stream.
Decode(kind, events) ==
    LET upTo[i \in 0 .. Len(events)] ==
            IF i = 0 THEN Start(kind) ELSE Step(kind, upTo[i - 1], events[i])
        d == upTo[Len(events)]
    IN IF d.end = "open" THEN End(d, "protocol") ELSE d

----------------------------------------------------------------------------
(***************************************************************************)
(* A reply in one piece: its text, a call that is whole, without           *)
(* arguments or broken, the reason why it ended, and for Codex whether it  *)
(* used more tokens than allowed.  Codex has no reason but "completed".    *)
(***************************************************************************)
Bodies(kind) ==
    [text : BOOLEAN, call : {"none", "whole", "empty", "broken"}, reason : {"stop", "length", "other"},
     over : IF kind = "codex" THEN BOOLEAN ELSE {FALSE}]

Parse(kind, b) ==
    LET d == [Start(kind) EXCEPT !.text = b.text]
    IN IF \/ b.reason = "other" \/ (kind = "codex" /\ b.reason = "length")
          \/ b.call = "broken" /\ b.reason # "length"
       THEN End(d, "protocol")
       ELSE Accept(d, IF b.call \in {"none", "broken"} \/ b.over THEN 0 ELSE 1)

\* A body that cannot be read, or is too long, is an error before it is parsed.
BodyOutcome(kind, b) ==
    LET d == Parse(kind, b)
    IN [end |-> d.end, shown |-> FALSE, candidate |-> FALSE,
        sound |-> d.end = "ok" => b.reason # "other" /\ (d.calls > 0 => b.call \in {"whole", "empty"} /\ ~b.over)]

BodyOutcomes ==
    (UNION {{BodyOutcome(k, b) : b \in Bodies(k)} : k \in Kinds})
    \cup {[end |-> e, shown |-> FALSE, candidate |-> FALSE, sound |-> TRUE] : e \in {"protocol", "toobig", "transport"}}

----------------------------------------------------------------------------
(***************************************************************************)
(* The streams a provider may send: pieces in any order, none twice, and   *)
(* one closing event or none.                                              *)
(***************************************************************************)
Distinct(S, n) == {s \in UNION {[1 .. k -> S] : k \in 0 .. n} : \A i, j \in DOMAIN s : s[i] = s[j] => i = j}

Opening(kind) == IF kind = "anthropic" THEN {<<>>, <<"begin">>} ELSE {<<>>}

Streams(kind) ==
    {o \o b \o c : o \in Opening(kind), b \in Distinct(PiecesOf(kind), 4),
                   c \in {<<>>} \cup {<<e>> : e \in ClosingsOf(kind)}}

----------------------------------------------------------------------------
(***************************************************************************)
(* A reference that reads the whole stream at once: a reply is sound if    *)
(* the provider ended it, and each call in it had all of its arguments,    *)
(* or none at all and was not cut off.                                     *)
(***************************************************************************)
Has(s, e) == \E i \in DOMAIN s : s[i] = e

Before(s, a, b) == \E i, j \in DOMAIN s : i < j /\ s[i] = a /\ s[j] = b

Ended(kind, s) ==
    /\ Has(s, "done") \/ Has(s, "over")
    /\ kind \in {"anthropic", "chat"} => Has(s, "stop") \/ Has(s, "length")

CutOff(s) == Has(s, "length") /\ ~Before(s, "length", "stop")

NoArguments(s) == Has(s, "call") /\ ~Has(s, "frag") /\ ~Has(s, "whole")

\* The calls a reader of the whole stream would run.
RealCalls(kind, s) ==
    IF Has(s, "over") \/ (kind = "anthropic" /\ CutOff(s)) THEN 0
    ELSE IF Before(s, "call", "whole") \/ Has(s, "item") THEN 1
    ELSE IF kind = "chat" /\ NoArguments(s) /\ ~CutOff(s) THEN 1 ELSE 0

\* A chat call cut off before the first byte of its arguments is run as one without arguments.
CutBeforeArguments(kind, s) == kind = "chat" /\ CutOff(s) /\ NoArguments(s)

Sound(kind, s, d) == Ended(kind, s) /\ (d.calls <= RealCalls(kind, s) \/ CutBeforeArguments(kind, s))

\* What a caller can tell apart of a stream.
Outcome(kind, s) ==
    LET d == Decode(kind, s)
    IN [end |-> d.end, shown |-> d.shown, candidate |-> d.candidate, sound |-> d.end = "ok" => Sound(kind, s, d)]

StreamOutcomes == UNION {{Outcome(k, s) : s \in Streams(k)} : k \in Kinds}
=============================================================================
