--------------------------- MODULE ModelCallProofs ---------------------------
(***************************************************************************)
(* Decoding, binding, budget and causes of ModelCall, for any calls, tasks,*)
(* settings, streams and accounts.                                         *)
(*                                                                         *)
(* Decode and the two recursive functions of Binding are reasoned about    *)
(* through the set of indices at which a claim holds (Up).  What a step    *)
(* does to the tables is first reduced to what it does at its own call     *)
(* (Others, Moved); the invariant of a call, CallInv, then speaks of plain *)
(* values.                                                                 *)
(***************************************************************************)
EXTENDS ModelCall, FiniteSetTheorems, WellFoundedInduction, TLAPS

\* The order of the naturals is well-founded.
LEMMA NatOrder ==
  \E R : IsWellFoundedOn(R, Nat) /\ \A m, n \in Nat : <<m, n>> \in R <=> m < n
<1>1. \A m, n \in Nat : <<m, n>> \in OpToRel(<, Nat) <=> m < n
  BY DEF OpToRel
<1> QED BY <1>1, NatLessThanWellFounded, Zenon

\* Induction: a set with 0 and each successor has every natural.
LEMMA Up ==
  ASSUME NEW T, 0 \in T, \A n \in Nat : n \in T => n + 1 \in T
  PROVE  Nat \subseteq T
<1>1. PICK R : IsWellFoundedOn(R, Nat) /\ \A m, n \in Nat : <<m, n>> \in R <=> m < n
  BY NatOrder
<1>2. ASSUME Nat \ T # {} PROVE FALSE
  <2>1. IsWellFoundedOn(R, Nat) /\ Nat \ T \subseteq Nat
    BY <1>1
  <2>2. PICK n \in Nat \ T : \A m \in Nat \ T : ~ (<<m, n>> \in R)
    BY <1>2, <2>1, WFMin
  <2>3. n # 0 /\ n - 1 \in Nat /\ n - 1 < n
    BY <2>2
  <2>4. n - 1 \in T
    BY <1>1, <2>2, <2>3
  <2>5. (n - 1) + 1 = n
    BY <2>2
  <2> QED BY <2>2, <2>3, <2>4, <2>5
<1> QED BY <1>2

-----------------------------------------------------------------------------
(* What a stream is decoded into *)

\* The decoder takes one event after the other.
LEMMA DecodeDef ==
  ASSUME NEW kind, NEW s, Len(s) \in Nat
  PROVE  \E f : /\ f[0] = Start(kind)
                /\ \A i \in Nat : i + 1 <= Len(s) => f[i + 1] = Step(kind, f[i], s[i + 1])
                /\ Decode(kind, s) = IF f[Len(s)].end = "open" THEN End(f[Len(s)], "protocol") ELSE f[Len(s)]
<1> DEFINE Body(f, j) == IF j = 0 THEN Start(kind) ELSE Step(kind, f[j - 1], s[j])
           Good(n, f) == f = [j \in 0 .. n |-> Body(f, j)]
           T == {n \in Nat : \E f : Good(n, f)}
           upTo == CHOOSE f : Good(Len(s), f)
<1>1. 0 \in T
  <2>1. Good(0, [j \in 0 .. 0 |-> Start(kind)])
    OBVIOUS
  <2> QED BY <2>1
<1>2. ASSUME NEW n \in Nat, n \in T PROVE n + 1 \in T
  <2>1. PICK f : Good(n, f)
    BY <1>2
  <2> DEFINE g == [j \in 0 .. n + 1 |-> IF j = n + 1 THEN Body(f, j) ELSE f[j]]
  <2>2. Good(n + 1, g)
    <3> SUFFICES ASSUME NEW j \in 0 .. n + 1 PROVE g[j] = Body(g, j)
      OBVIOUS
    <3>1. CASE j = n + 1
      BY <3>1
    <3>2. CASE j \in 0 .. n
      BY <2>1, <3>2
    <3> QED BY <3>1, <3>2
  <2> HIDE DEF g, Good
  <2> QED BY <2>2
<1>3. \E f : Good(Len(s), f)
  <2> HIDE DEF Good
  <2> QED BY <1>1, <1>2, Up
<1>4. Good(Len(s), upTo)
  <2> HIDE DEF Good
  <2> QED BY <1>3
<1>5. Decode(kind, s) = IF upTo[Len(s)].end = "open" THEN End(upTo[Len(s)], "protocol") ELSE upTo[Len(s)]
  BY DEF Decode
<1>6. \A j \in 0 .. Len(s) : upTo[j] = Body(upTo, j)
  <2> HIDE DEF upTo
  <2> QED BY <1>4
<1> HIDE DEF upTo
<1>7. upTo[0] = Start(kind)
  BY <1>6
<1>8. ASSUME NEW i \in Nat, i + 1 <= Len(s) PROVE upTo[i + 1] = Step(kind, upTo[i], s[i + 1])
  <2>1. i + 1 \in 0 .. Len(s) /\ i + 1 # 0 /\ (i + 1) - 1 = i
    BY <1>8
  <2> QED BY <1>6, <2>1
<1> QED BY <1>5, <1>7, <1>8

Events(kind) == PiecesOf(kind) \cup ClosingsOf(kind) \cup {"begin"}

Ends == {"ok", "protocol", "toobig", "transport"}

Decoder == [end : Ends \cup {"open"}, begun : BOOLEAN, text : BOOLEAN, calls : Nat,
            open : {"none", "empty", "part", "lost"}, reason : {"none", "stop", "length"},
            shown : BOOLEAN, candidate : BOOLEAN]

\* An event decoded keeps the types.
LEMMA StepType ==
  ASSUME NEW kind \in Kinds, NEW d \in Decoder, NEW e \in Events(kind)
  PROVE  Step(kind, d, e) \in Decoder
<1> USE DEF Decoder, Ends
<1>1. \A how \in Ends : End(d, how) \in Decoder
  BY DEF End, Decoder
<1>2. \A n \in Nat : Accept(d, n) \in Decoder
  BY <1>1 DEF Accept
<1>3. d.calls \in Nat /\ ParsedCalls(d) \in Nat
  BY DEF ParsedCalls
<1>4. \A over \in BOOLEAN : Done(kind, d, over) \in Decoder
  BY <1>1, <1>2, <1>3 DEF Done, AnthropicDone, ChatDone, CodexDone
<1>5. ASSUME e \in PiecesOf(kind) PROVE Piece(kind, d, e) \in Decoder
  <2>1. \A x \in {"none", "empty", "part", "lost"}, n \in Nat :
          [d EXCEPT !.open = x, !.calls = n] \in Decoder /\ [d EXCEPT !.open = x] \in Decoder
    OBVIOUS
  <2>2. \A last \in BOOLEAN : Argument(kind, d, last) \in Decoder
    <3> HIDE DEF Decoder
    <3> SUFFICES ASSUME NEW last \in BOOLEAN PROVE Argument(kind, d, last) \in Decoder
      OBVIOUS
    <3>1. CASE d.open = "none" /\ kind = "anthropic"
      BY <1>1, <3>1 DEF Argument
    <3>2. CASE ~(d.open = "none" /\ kind = "anthropic") /\ last /\ d.open \in {"empty", "part"}
      <4>1. Argument(kind, d, last) = [d EXCEPT !.open = "none", !.calls = d.calls + 1]
        BY <3>2 DEF Argument
      <4>2. d.calls + 1 \in Nat
        BY <1>3
      <4> QED BY <2>1, <4>1, <4>2
    <3>3. CASE ~(d.open = "none" /\ kind = "anthropic") /\ ~(last /\ d.open \in {"empty", "part"})
      BY <2>1, <3>3 DEF Argument
    <3> QED BY <3>1, <3>2, <3>3
  <2>3. CASE e = "think"
    BY <2>3 DEF Piece
  <2>4. CASE e = "text"
    BY <2>4 DEF Piece
  <2>5. CASE e = "item"
    BY <2>5 DEF Piece
  <2>6. CASE e = "broken"
    BY <2>6 DEF Piece
  <2>7. CASE e = "call"
    BY <2>7 DEF Piece
  <2>8. CASE e \in {"frag", "whole"}
    BY <2>2, <2>8 DEF Piece
  <2>9. CASE e \in {"stop", "length"}
    BY <2>9 DEF Piece
  <2>10. e \in {"think", "text", "item", "broken", "call", "frag", "whole", "stop", "length"}
    BY <1>5 DEF PiecesOf
  <2> QED BY <2>3, <2>4, <2>5, <2>6, <2>7, <2>8, <2>9, <2>10
<1> HIDE DEF Decoder
<1>6. CASE e \in PiecesOf(kind)
  <2>1. e \notin {"bad", "big", "cut", "begin", "done", "over"}
    BY <1>6 DEF PiecesOf
  <2> QED BY <1>1, <1>5, <1>6, <2>1 DEF Step
<1>7. CASE e = "begin"
  <2>1. [d EXCEPT !.begun = TRUE] \in Decoder
    BY DEF Decoder
  <2> QED BY <1>1, <1>7, <2>1 DEF Step
<1>8. CASE e \in {"done", "over"}
  BY <1>1, <1>4, <1>8 DEF Step
<1>9. CASE e \in {"bad", "big", "cut"}
  BY <1>1, <1>9 DEF Step
<1> QED BY <1>6, <1>7, <1>8, <1>9 DEF Events, ClosingsOf

\* What the decoder holds of the events it has taken, as a set and as the pairs of which one came
\* before the other: `calls` counts the calls that are whole, `open` is the one being sent, `reason`
\* the last one.
Holds(kind, d, seen, ord) ==
    /\ d.end # "ok"
    /\ d.calls <= 1
    /\ kind = "codex" =>
         /\ d.open \in {"none", "part"}
         /\ d.calls = 1 => "item" \in seen
    /\ kind # "codex" =>
         /\ d.calls = 1 => "whole" \in seen /\ <<"call", "whole">> \in ord
         /\ d.open = "none" => "call" \in seen \/ seen \cap {"frag", "whole"} = {}
         /\ d.open = "empty" => "call" \in seen /\ seen \cap {"frag", "whole"} = {}
         /\ d.open = "part" => "call" \in seen
         /\ d.reason = "none" => seen \cap {"stop", "length"} = {}
         /\ d.reason = "stop" => "stop" \in seen /\ ("length" \in seen => <<"length", "stop">> \in ord)
         /\ d.reason = "length" => "length" \in seen /\ <<"length", "stop">> \notin ord
    /\ <<"length", "stop">> \in ord => {"length", "stop"} \subseteq seen

LEMMA HoldsStep ==
  ASSUME NEW kind \in Kinds, NEW d \in Decoder, NEW e \in PiecesOf(kind) \cup {"begin"},
         NEW seen, NEW ord, e \notin seen, Holds(kind, d, seen, ord), Step(kind, d, e).end = "open"
  PROVE  Holds(kind, Step(kind, d, e), seen \cup {e}, ord \cup {<<x, e>> : x \in seen})
<1> DEFINE after == seen \cup {e}
           pairs == ord \cup {<<x, e>> : x \in seen}
           n == Step(kind, d, e)
<1>0. /\ seen \subseteq after /\ ord \subseteq pairs /\ e \in after
      /\ \A x \in after : x = e \/ x \in seen
      /\ \A x \in seen : <<x, e>> \in pairs
      /\ \A x, y : <<x, y>> \in pairs => <<x, y>> \in ord \/ (y = e /\ x \in seen)
  OBVIOUS
<1>1. d.end = "open"
  BY DEF Step, Decoder, Ends
<1> SUFFICES Holds(kind, n, after, pairs)
  OBVIOUS
<1> HIDE DEF after, pairs
<1> USE DEF Decoder, Ends
<1>2. CASE e = "begin"
  <2>1. n.end = "open" /\ n.calls = d.calls /\ n.open = d.open /\ n.reason = d.reason
    BY <1>1, <1>2 DEF Step, End
  <2> HIDE DEF n
  <2> QED BY <1>0, <1>1, <1>2, <2>1 DEF Holds
<1>3. CASE e # "begin"
  <2>1. e \in PiecesOf(kind) /\ e \notin {"bad", "big", "cut", "begin", "done", "over"}
    BY <1>3 DEF PiecesOf
  <2>2. n = Piece(kind, d, e) /\ n.end = "open"
    BY <1>1, <2>1 DEF Step, End
  <2> HIDE DEF n
  <2>3. CASE kind = "codex"
    <3>1. e \in {"think", "text", "item", "broken"}
      BY <2>1, <2>3 DEF PiecesOf
    <3>2. /\ n.calls = IF e = "item" THEN d.calls + 1 ELSE d.calls
          /\ n.open = IF e = "broken" THEN "part" ELSE d.open
      BY <2>2, <3>1 DEF Piece
    <3> QED BY <1>0, <1>1, <2>2, <2>3, <3>1, <3>2 DEF Holds
  <2>4. CASE kind # "codex"
    <3>1. e \in {"think", "text", "call", "frag", "whole", "stop", "length"}
      BY <2>1, <2>4 DEF PiecesOf
    <3>2. CASE e \in {"think", "text"}
      <4>1. n.calls = d.calls /\ n.open = d.open /\ n.reason = d.reason
        BY <2>2, <3>2 DEF Piece
      <4> QED BY <1>0, <1>1, <2>2, <2>4, <3>2, <4>1 DEF Holds
    <3>3. CASE e = "call"
      <4>1. /\ n.calls = d.calls /\ n.open = (IF d.open = "lost" THEN "part" ELSE "empty")
            /\ n.reason = d.reason
        BY <2>2, <3>3 DEF Piece
      <4> QED BY <1>0, <1>1, <2>2, <2>4, <3>3, <4>1 DEF Holds
    <3>4. CASE e = "frag"
      <4>1. /\ n.calls = d.calls /\ n.open = (IF d.open \in {"none", "lost"} THEN "lost" ELSE "part")
            /\ n.reason = d.reason
        BY <2>2, <3>4 DEF Piece, Argument, End
      <4>2. ~(d.open = "none" /\ kind = "anthropic")
        BY <2>2, <3>4 DEF Piece, Argument, End
      <4> QED BY <1>0, <1>1, <2>2, <2>4, <3>4, <4>1, <4>2 DEF Holds
    <3>5. CASE e = "whole"
      <4>1. n.reason = d.reason /\ IF d.open \in {"empty", "part"}
                                   THEN n.calls = d.calls + 1 /\ n.open = "none"
                                   ELSE n.calls = d.calls /\ n.open = "lost"
        BY <2>2, <3>5 DEF Piece, Argument, End
      <4> QED BY <1>0, <1>1, <2>2, <2>4, <3>5, <4>1 DEF Holds
    <3>6. CASE e \in {"stop", "length"}
      <4>1. n.calls = d.calls /\ n.open = d.open /\ n.reason = e
        BY <2>2, <3>6 DEF Piece
      <4> QED BY <1>0, <1>1, <2>2, <2>4, <3>6, <4>1 DEF Holds
    <3> QED BY <3>1, <3>2, <3>3, <3>4, <3>5, <3>6
  <2> QED BY <2>3, <2>4
<1> QED BY <1>2, <1>3

\* The event that ends a stream, after what it holds: a reply that is accepted is sound.
LEMMA DoneSound ==
  ASSUME NEW kind \in Kinds, NEW d \in Decoder, NEW seen, NEW ord, Holds(kind, d, seen, ord),
         d.end = "open", NEW e \in {"done", "over"} \cap ClosingsOf(kind), Step(kind, d, e).end = "ok",
         seen \cap {"done", "over"} = {}, NEW s, Has(s, e), \A x : Has(s, x) => x \in seen \cup {e}, \A x \in seen : Has(s, x),
         \A x, y : Before(s, x, y) <=> <<x, y>> \in ord \/ (y = e /\ x \in seen)
  PROVE  Sound(kind, s, Step(kind, d, e))
<1> DEFINE n == Step(kind, d, e)
           over == e = "over"
<1>1. n = Done(kind, d, over) /\ n.end = "ok"
  BY DEF Step, End, Decoder
<1>2. /\ d.text \in BOOLEAN /\ d.calls \in Nat /\ d.open \in {"none", "empty", "part", "lost"}
      /\ d.reason \in {"none", "stop", "length"}
  BY DEF Decoder
<1>3. \A k \in Nat : Accept(d, k).end = "ok" => Accept(d, k).calls = k
  BY DEF Accept, End, Decoder
<1>4. \A k \in Nat : End(d, "protocol").end # "ok"
  BY DEF End, Decoder
<1>5. ParsedCalls(d) = IF d.open = "empty" THEN d.calls + 1 ELSE d.calls
  BY <1>2 DEF ParsedCalls
<1> SUFFICES Sound(kind, s, n)
  OBVIOUS
<1> HIDE DEF n
<1>6. kind \in {"anthropic", "chat", "codex"} /\ (over => kind = "codex")
  BY DEF Kinds, ClosingsOf
<1>7. Has(s, "done") \/ Has(s, "over")
  OBVIOUS
<1>8. /\ \A x \in {"stop", "length", "call", "frag", "whole", "item"} : Has(s, x) <=> x \in seen
      /\ \A x \in {"stop", "length", "call", "frag", "whole", "item"}, y \in {"stop", "whole"} :
           Before(s, x, y) <=> <<x, y>> \in ord
      /\ over <=> Has(s, "over")
  <2>1. e = "done" \/ e = "over"
    OBVIOUS
  <2>2. over <=> Has(s, "over")
    BY <2>1
  <2>3. \A x \in {"stop", "length", "call", "frag", "whole", "item"} : Has(s, x) <=> x \in seen
    BY <2>1
  <2>4. \A x \in {"stop", "length", "call", "frag", "whole", "item"}, y \in {"stop", "whole"} :
          Before(s, x, y) <=> <<x, y>> \in ord
    BY <2>1
  <2> QED BY <2>2, <2>3, <2>4
<1>9. CASE kind = "codex"
  <2>1. n.calls = IF over THEN 0 ELSE d.calls
    BY <1>1, <1>2, <1>3, <1>4, <1>5, <1>9 DEF Done, CodexDone, Holds
  <2> QED BY <1>2, <1>7, <1>8, <1>9, <2>1 DEF Sound, Ended, RealCalls, Holds
<1>10. CASE kind = "anthropic"
  <2>1. d.reason # "none" /\ n.calls = (IF d.reason = "length" THEN 0 ELSE d.calls)
    BY <1>1, <1>2, <1>3, <1>4, <1>10 DEF Done, AnthropicDone
  <2>2. Ended(kind, s)
    BY <1>2, <1>7, <1>8, <1>10, <2>1 DEF Ended, Holds
  <2>3. d.reason = "stop" => ~CutOff(s)
    BY <1>8, <1>10 DEF CutOff, Holds
  <2>4. d.calls = 1 => Before(s, "call", "whole")
    BY <1>8, <1>10 DEF Holds
  <2>5. d.calls <= 1 /\ ~Has(s, "over")
    BY <1>6, <1>8, <1>10 DEF Holds
  <2> QED BY <1>2, <1>10, <2>1, <2>2, <2>3, <2>4, <2>5 DEF Sound, RealCalls
<1>11. CASE kind = "chat"
  <2>1. d.reason # "none" /\ n.calls = ParsedCalls(d) /\ d.open \in {"none", "empty", "part", "lost"}
    BY <1>1, <1>2, <1>3, <1>4, <1>5, <1>11 DEF Done, ChatDone
  <2>2. Ended(kind, s)
    BY <1>2, <1>7, <1>8, <1>11, <2>1 DEF Ended, Holds
  <2>3. d.calls = 1 => Before(s, "call", "whole") /\ Has(s, "whole")
    BY <1>8, <1>11 DEF Holds
  <2>4. d.open = "empty" => NoArguments(s)
    BY <1>8, <1>11 DEF Holds, NoArguments
  <2>5. d.calls <= 1 /\ ~Has(s, "over")
    BY <1>6, <1>8, <1>11 DEF Holds
  <2>6. CASE d.open = "empty"
    <3>1. n.calls = 1
      BY <1>2, <1>5, <2>1, <2>3, <2>4, <2>5, <2>6 DEF NoArguments
    <3>2. CutOff(s) => CutBeforeArguments(kind, s)
      BY <1>11, <2>4, <2>6 DEF CutBeforeArguments
    <3>3. ~CutOff(s) => RealCalls(kind, s) = 1
      BY <1>11, <2>4, <2>5, <2>6 DEF RealCalls
    <3> QED BY <2>2, <3>1, <3>2, <3>3 DEF Sound
  <2>7. CASE d.open # "empty"
    <3>1. n.calls = d.calls
      BY <1>5, <2>1, <2>7
    <3>2. d.calls = 1 => RealCalls(kind, s) = 1
      BY <1>11, <2>3, <2>5 DEF RealCalls
    <3>3. RealCalls(kind, s) \in {0, 1}
      BY DEF RealCalls
    <3> QED BY <1>2, <2>2, <2>5, <3>1, <3>2, <3>3 DEF Sound
  <2> QED BY <2>6, <2>7
<1> QED BY <1>6, <1>9, <1>10, <1>11

Once(s) == \A i, j \in 1 .. Len(s) : s[i] = s[j] => i = j

LEMMA OnceConcat ==
  ASSUME NEW S, NEW T, S \cap T = {}, NEW s \in Seq(S), NEW t \in Seq(T), Once(s), Once(t)
  PROVE  s \o t \in Seq(S \cup T) /\ Once(s \o t) /\ Len(s \o t) = Len(s) + Len(t)
<1>1. Len(s) \in Nat /\ Len(t) \in Nat /\ Len(s \o t) = Len(s) + Len(t)
  OBVIOUS
<1>2. s \o t \in Seq(S \cup T)
  <2>1. s \in Seq(S \cup T) /\ t \in Seq(S \cup T)
    OBVIOUS
  <2> QED BY <2>1
<1>3. \A i \in 1 .. Len(s \o t) :
        IF i <= Len(s) THEN i \in 1 .. Len(s) /\ (s \o t)[i] = s[i] /\ s[i] \in S
        ELSE i - Len(s) \in 1 .. Len(t) /\ (s \o t)[i] = t[i - Len(s)] /\ t[i - Len(s)] \in T
  BY <1>1
<1>4. ASSUME NEW i \in 1 .. Len(s \o t), NEW j \in 1 .. Len(s \o t), (s \o t)[i] = (s \o t)[j]
      PROVE  i = j
  <2>1. CASE i <= Len(s) /\ j <= Len(s)
    BY <1>1, <1>3, <1>4, <2>1 DEF Once
  <2>2. CASE i > Len(s) /\ j > Len(s)
    <3>1. i - Len(s) = j - Len(s)
      BY <1>1, <1>3, <1>4, <2>2 DEF Once
    <3> QED BY <1>1, <3>1
  <2>3. CASE ~(i <= Len(s) <=> j <= Len(s))
    BY <1>1, <1>3, <1>4, <2>3
  <2> QED BY <1>1, <2>1, <2>2, <2>3
<1> QED BY <1>1, <1>2, <1>4 DEF Once

\* No event of a stream comes twice, and only its last one may close it.
LEMMA StreamShape ==
  ASSUME NEW kind \in Kinds, NEW s \in Streams(kind)
  PROVE  /\ s \in Seq(Events(kind)) /\ Once(s)
         /\ \A i \in 1 .. Len(s) : s[i] \in ClosingsOf(kind) => i = Len(s)
<1>1. PICK o \in Opening(kind), b \in Distinct(PiecesOf(kind), 4),
           c \in {<<>>} \cup {<<e>> : e \in ClosingsOf(kind)} : s = o \o b \o c
  BY DEF Streams
<1>2. o \in Seq({"begin"}) /\ Once(o)
  <2>1. o = <<>> \/ o = <<"begin">>
    BY <1>1 DEF Opening
  <2>2. CASE o = <<>>
    BY <2>2 DEF Once
  <2>3. CASE o = <<"begin">>
    BY <2>3 DEF Once
  <2> QED BY <2>1, <2>2, <2>3
<1>3. b \in Seq(PiecesOf(kind)) /\ Once(b)
  <2>1. PICK k \in 0 .. 4 : b \in [1 .. k -> PiecesOf(kind)]
    BY <1>1 DEF Distinct
  <2>2. b \in Seq(PiecesOf(kind)) /\ Len(b) = k
    BY <2>1
  <2>3. \A i, j \in DOMAIN b : b[i] = b[j] => i = j
    BY <1>1 DEF Distinct
  <2> QED BY <2>1, <2>2, <2>3 DEF Once
<1>4. c \in Seq(ClosingsOf(kind)) /\ Once(c) /\ Len(c) <= 1
  <2>1. CASE c = <<>>
    BY <2>1 DEF Once
  <2>2. ASSUME NEW e \in ClosingsOf(kind), c = <<e>> PROVE c \in Seq(ClosingsOf(kind)) /\ Once(c) /\ Len(c) = 1
    BY <2>2 DEF Once
  <2> QED BY <1>1, <2>1, <2>2
<1>5. {"begin"} \cap PiecesOf(kind) = {} /\ ({"begin"} \cup PiecesOf(kind)) \cap ClosingsOf(kind) = {}
  BY DEF PiecesOf, ClosingsOf
<1> DEFINE p == o \o b
           P == {"begin"} \cup PiecesOf(kind)
<1>6. p \in Seq(P) /\ Once(p)
  BY <1>2, <1>3, <1>5, OnceConcat
<1>7. s = p \o c
  BY <1>1
<1> HIDE DEF p, P
<1>8. P \cap ClosingsOf(kind) = {} /\ P \cup ClosingsOf(kind) = Events(kind)
  BY <1>5 DEF P, Events
<1>9. s \in Seq(Events(kind)) /\ Once(s) /\ Len(s) = Len(p) + Len(c)
  <2>1. p \o c \in Seq(P \cup ClosingsOf(kind)) /\ Once(p \o c) /\ Len(p \o c) = Len(p) + Len(c)
    <3>1. P \cap ClosingsOf(kind) = {}
      BY <1>8
    <3>2. p \in Seq(P) /\ Once(p) /\ c \in Seq(ClosingsOf(kind)) /\ Once(c)
      BY <1>4, <1>6
    <3> QED BY <3>1, <3>2, OnceConcat
  <2> QED BY <1>7, <1>8, <2>1
<1>10. ASSUME NEW i \in 1 .. Len(s), s[i] \in ClosingsOf(kind) PROVE i = Len(s)
  <2>1. Len(p) \in Nat /\ Len(c) <= 1 /\ Len(c) \in Nat /\ i \in Nat /\ 1 <= i /\ i <= Len(p) + Len(c)
    BY <1>4, <1>6, <1>9, <1>10
  <2>2. CASE i <= Len(p)
    <3>1. i \in 1 .. Len(p)
      BY <2>1, <2>2
    <3>2. s[i] = p[i] /\ p[i] \in P
      BY <1>4, <1>6, <1>7, <3>1
    <3> QED BY <1>8, <1>10, <3>2
  <2>3. CASE i > Len(p)
    BY <1>9, <2>1, <2>3
  <2> QED BY <2>1, <2>2, <2>3
<1> QED BY <1>9, <1>10

\* Only the events that close a stream end it well, and they all end it.
LEMMA StepEnd ==
  ASSUME NEW kind \in Kinds, NEW d \in Decoder, NEW e \in Events(kind), d.end = "open"
  PROVE  IF e \in ClosingsOf(kind)
         THEN Step(kind, d, e).end # "open" /\ (Step(kind, d, e).end = "ok" => e \in {"done", "over"})
         ELSE Step(kind, d, e).end # "ok"
<1>1. \A how \in Ends : End(d, how).end = how
  BY DEF End, Decoder, Ends
<1>2. \A n \in Nat : Accept(d, n).end # "open"
  BY <1>1 DEF Accept, Decoder, Ends
<1>3. d.calls \in Nat /\ ParsedCalls(d) \in Nat
  BY DEF ParsedCalls, Decoder
<1>4. \A over \in BOOLEAN : Done(kind, d, over).end # "open"
  BY <1>1, <1>2, <1>3 DEF Done, AnthropicDone, ChatDone, CodexDone, Ends
<1>5. CASE e \in ClosingsOf(kind)
  <2>1. e \in {"done", "over", "bad", "big", "cut"}
    BY <1>5 DEF ClosingsOf
  <2>2. CASE e \in {"done", "over"}
    BY <1>1, <1>4, <1>5, <2>2 DEF Step, Ends
  <2>3. CASE e \in {"bad", "big", "cut"}
    BY <1>1, <1>5, <2>3 DEF Step, Ends
  <2> QED BY <2>1, <2>2, <2>3
<1>6. CASE e \notin ClosingsOf(kind)
  <2>1. e \in PiecesOf(kind) \cup {"begin"}
    BY <1>6 DEF Events
  <2>2. CASE e = "begin"
    <3>1. [d EXCEPT !.begun = TRUE].end = "open"
      BY DEF Decoder
    <3> QED BY <1>1, <1>6, <2>2, <3>1 DEF Step, Ends
  <2>3. CASE e # "begin"
    <3>1. e \in PiecesOf(kind) /\ e \notin {"bad", "big", "cut", "begin", "done", "over"}
      BY <2>1, <2>3 DEF PiecesOf
    <3>2. \A last \in BOOLEAN : Argument(kind, d, last).end # "ok"
      BY <1>1 DEF Argument, Decoder, Ends
    <3>3. Piece(kind, d, e).end # "ok"
      <4>1. CASE e \in {"frag", "whole"}
        BY <3>2, <4>1 DEF Piece
      <4>2. CASE e \in {"think", "text", "item"}
        BY <4>2 DEF Piece, Decoder
      <4>3. CASE e \in {"broken", "call"}
        BY <4>3 DEF Piece, Decoder
      <4>4. CASE e \in {"stop", "length"}
        BY <4>4 DEF Piece, Decoder
      <4> QED BY <3>1, <4>1, <4>2, <4>3, <4>4 DEF PiecesOf
    <3>4. Step(kind, d, e) \in {End(d, "protocol"), Piece(kind, d, e)}
      BY <3>1 DEF Step
    <3> QED BY <1>1, <1>6, <3>3, <3>4 DEF Ends
  <2> QED BY <2>2, <2>3
<1> QED BY <1>5, <1>6

\* Every stream, of any of the three protocols: a reply that the decoder accepts is sound.
LEMMA StreamSound ==
  ASSUME NEW kind \in Kinds, NEW s \in Streams(kind)
  PROVE  /\ Decode(kind, s) \in Decoder /\ Decode(kind, s).end \in Ends
         /\ Decode(kind, s).end = "ok" => Sound(kind, s, Decode(kind, s))
<1>1. /\ s \in Seq(Events(kind)) /\ Once(s) /\ Len(s) \in Nat
      /\ \A i \in 1 .. Len(s) : s[i] \in ClosingsOf(kind) => i = Len(s)
      /\ \A i \in 1 .. Len(s) : s[i] \in Events(kind)
  BY StreamShape
<1>2. PICK f : /\ f[0] = Start(kind)
               /\ \A i \in Nat : i + 1 <= Len(s) => f[i + 1] = Step(kind, f[i], s[i + 1])
               /\ Decode(kind, s) = IF f[Len(s)].end = "open" THEN End(f[Len(s)], "protocol") ELSE f[Len(s)]
  BY <1>1, DecodeDef, Zenon
<1> DEFINE seen(i) == {s[j] : j \in 1 .. i}
           ord(i) == {p \in Events(kind) \X Events(kind) :
                        \E j, k \in 1 .. i : j < k /\ p = <<s[j], s[k]>>}
           P(i) == /\ f[i] \in Decoder
                   /\ f[i].end # "open" \/ Holds(kind, f[i], seen(i), ord(i))
                   /\ f[i].end = "ok" => i = Len(s) /\ Sound(kind, s, f[i])
           T == {n \in Nat : n <= Len(s) => P(n)}
<1>3. P(0)
  <2>1. f[0] \in Decoder /\ f[0].end = "open" /\ f[0].calls = 0 /\ f[0].open = "none" /\ f[0].reason = "none"
    BY <1>2 DEF Start, Decoder
  <2>2. seen(0) = {} /\ ord(0) = {}
    OBVIOUS
  <2> HIDE DEF seen, ord
  <2> QED BY <2>1, <2>2 DEF Holds
<1>4. ASSUME NEW n \in Nat, P(n), n + 1 <= Len(s) PROVE P(n + 1)
  <2> DEFINE e == s[n + 1]
  <2>1. n + 1 \in 1 .. Len(s) /\ e \in Events(kind) /\ f[n + 1] = Step(kind, f[n], e) /\ n # Len(s)
    BY <1>1, <1>2, <1>4
  <2>2. f[n] \in Decoder /\ f[n + 1] \in Decoder
    BY <1>4, <2>1, StepType
  <2>3. e \notin seen(n)
    BY <1>1, <2>1 DEF Once
  <2>4. seen(n + 1) = seen(n) \cup {e}
    <3>1. 1 .. n + 1 = (1 .. n) \cup {n + 1}
      OBVIOUS
    <3> QED BY <3>1
  <2>5. ord(n + 1) = ord(n) \cup {<<x, e>> : x \in seen(n)}
    <3>1. \A j \in 1 .. n + 1 : j \in 1 .. Len(s) /\ s[j] \in Events(kind)
      BY <1>1, <2>1
    <3>2. ASSUME NEW p \in ord(n + 1) PROVE p \in ord(n) \cup {<<x, e>> : x \in seen(n)}
      <4>1. PICK j, k \in 1 .. n + 1 : j < k /\ p = <<s[j], s[k]>>
        OBVIOUS
      <4>2. CASE k = n + 1
        <5>1. j \in 1 .. n
          BY <4>1, <4>2
        <5> QED BY <4>1, <4>2, <5>1
      <4>3. CASE k # n + 1
        <5>1. j \in 1 .. n /\ k \in 1 .. n
          BY <4>1, <4>3
        <5> QED BY <3>2, <4>1, <5>1
      <4> QED BY <4>2, <4>3
    <3>3. ASSUME NEW p \in ord(n) PROVE p \in ord(n + 1)
      <4>1. PICK j, k \in 1 .. n : j < k /\ p = <<s[j], s[k]>>
        OBVIOUS
      <4>2. j \in 1 .. n + 1 /\ k \in 1 .. n + 1
        OBVIOUS
      <4> QED BY <3>3, <4>1, <4>2
    <3>4. ASSUME NEW x \in seen(n) PROVE <<x, e>> \in ord(n + 1)
      <4>1. PICK j \in 1 .. n : x = s[j]
        OBVIOUS
      <4>2. j \in 1 .. n + 1 /\ n + 1 \in 1 .. n + 1 /\ j < n + 1
        OBVIOUS
      <4>3. <<x, e>> \in Events(kind) \X Events(kind)
        BY <2>1, <3>1, <4>1, <4>2
      <4> QED BY <4>1, <4>2, <4>3
    <3> HIDE DEF seen, ord, e
    <3> QED BY <3>2, <3>3, <3>4
  <2>6. CASE f[n].end # "open"
    <3>1. f[n + 1] = f[n]
      BY <2>1, <2>6 DEF Step
    <3>2. f[n].end # "ok"
      BY <1>4, <2>1
    <3> HIDE DEF seen, ord
    <3> QED BY <2>2, <2>6, <3>1, <3>2
  <2>7. CASE f[n].end = "open" /\ e \notin ClosingsOf(kind)
    <3>1. Holds(kind, f[n], seen(n), ord(n))
      BY <1>4, <2>7
    <3>2. e \in PiecesOf(kind) \cup {"begin"}
      BY <2>1, <2>7 DEF Events
    <3>3. f[n + 1].end # "ok"
      BY <2>1, <2>2, <2>7, StepEnd
    <3> HIDE DEF seen, ord, e
    <3>4. f[n + 1].end = "open" => Holds(kind, f[n + 1], seen(n + 1), ord(n + 1))
      BY <2>1, <2>2, <2>3, <2>4, <2>5, <3>1, <3>2, HoldsStep
    <3> QED BY <2>2, <3>3, <3>4
  <2>8. CASE f[n].end = "open" /\ e \in ClosingsOf(kind)
    <3>1. Holds(kind, f[n], seen(n), ord(n))
      BY <1>4, <2>8
    <3>2. n + 1 = Len(s)
      BY <1>1, <2>1, <2>8
    <3>3. f[n + 1].end # "open" /\ (f[n + 1].end = "ok" => e \in {"done", "over"})
      BY <2>1, <2>2, <2>8, StepEnd
    <3>4. \A x : Has(s, x) <=> x \in seen(n + 1)
      BY <1>1, <3>2 DEF Has
    <3>5. \A x, y : Before(s, x, y) <=> <<x, y>> \in ord(n + 1)
      <4>1. DOMAIN s = 1 .. n + 1 /\ \A j \in 1 .. n + 1 : s[j] \in Events(kind)
        BY <1>1, <3>2
      <4>2. ASSUME NEW x, NEW y, Before(s, x, y) PROVE <<x, y>> \in ord(n + 1)
        <5>1. PICK j, k \in 1 .. n + 1 : j < k /\ s[j] = x /\ s[k] = y
          BY <4>1, <4>2 DEF Before
        <5> QED BY <4>1, <5>1
      <4>3. ASSUME NEW x, NEW y, <<x, y>> \in ord(n + 1) PROVE Before(s, x, y)
        <5>1. PICK j, k \in 1 .. n + 1 : j < k /\ <<x, y>> = <<s[j], s[k]>>
          BY <4>3
        <5> QED BY <4>1, <5>1 DEF Before
      <4> QED BY <4>2, <4>3
    <3>6. seen(n) \cap ClosingsOf(kind) = {}
      <4>1. ASSUME NEW j \in 1 .. n PROVE s[j] \notin ClosingsOf(kind)
        BY <1>1, <2>1, <3>2
      <4> QED BY <4>1
    <3>7. {"done", "over"} \cap Events(kind) \subseteq ClosingsOf(kind)
      BY DEF Events, PiecesOf
    <3>8. seen(n) \subseteq Events(kind)
      <4>1. \A j \in 1 .. n : s[j] \in Events(kind)
        BY <1>1, <2>1
      <4> QED BY <4>1
    <3> HIDE DEF seen, ord, e
    <3>9. \A x, y : <<x, y>> \in ord(n + 1) <=> <<x, y>> \in ord(n) \/ (y = e /\ x \in seen(n))
      BY <2>5
    <3>10. ASSUME f[n + 1].end = "ok" PROVE Sound(kind, s, f[n + 1])
      <4>1. e \in {"done", "over"} \cap ClosingsOf(kind)
        BY <2>8, <3>3, <3>10
      <4>2. seen(n) \cap {"done", "over"} = {}
        BY <3>6, <3>7, <3>8
      <4>3. Has(s, e) /\ (\A x : Has(s, x) => x \in seen(n) \cup {e}) /\ \A x \in seen(n) : Has(s, x)
        BY <2>4, <3>4
      <4>4. \A x, y : Before(s, x, y) <=> <<x, y>> \in ord(n) \/ (y = e /\ x \in seen(n))
        BY <3>5, <3>9
      <4> QED BY <2>1, <2>2, <2>8, <3>1, <3>10, <4>1, <4>2, <4>3, <4>4, DoneSound
    <3> QED BY <2>2, <3>2, <3>3, <3>10
  <2> QED BY <2>6, <2>7, <2>8
<1>5. 0 \in T /\ \A n \in Nat : n \in T => n + 1 \in T
  <2>1. 0 \in T
    BY <1>3
  <2>2. ASSUME NEW n \in Nat, n \in T PROVE n + 1 \in T
    <3> HIDE DEF P
    <3>1. n + 1 <= Len(s) => n <= Len(s)
      BY <1>1
    <3> QED BY <1>4, <2>2, <3>1
  <2> QED BY <2>1, <2>2
<1>6. P(Len(s))
  <2> HIDE DEF P
  <2>1. Nat \subseteq T
    <3> HIDE DEF T
    <3> QED BY <1>5, Up
  <2> QED BY <1>1, <2>1
<1>7. f[Len(s)] \in Decoder
  BY <1>6
<1>8. CASE f[Len(s)].end = "open"
  BY <1>2, <1>7, <1>8 DEF End, Decoder, Ends
<1>9. CASE f[Len(s)].end # "open"
  <2>1. Decode(kind, s) = f[Len(s)]
    BY <1>2, <1>9
  <2>2. f[Len(s)].end \in Ends
    BY <1>7, <1>9 DEF Decoder
  <2> HIDE DEF seen, ord
  <2> QED BY <1>6, <1>7, <2>1, <2>2
<1> QED BY <1>8, <1>9

\* A reply in one piece that is accepted is sound too.
LEMMA BodySound ==
  ASSUME NEW kind \in Kinds, NEW b \in Bodies(kind)
  PROVE  BodyOutcome(kind, b).end \in Ends
         /\ (BodyOutcome(kind, b).end = "ok" => BodyOutcome(kind, b).sound)
<1> DEFINE d == [Start(kind) EXCEPT !.text = b.text]
           n == Parse(kind, b)
<1>1. /\ b.text \in BOOLEAN /\ b.call \in {"none", "whole", "empty", "broken"}
      /\ b.reason \in {"stop", "length", "other"} /\ b.over \in BOOLEAN
  BY DEF Bodies
<1>2. d \in Decoder
  BY <1>1 DEF Start, Decoder
<1>3. End(d, "protocol").end = "protocol"
  BY <1>2 DEF End, Decoder
<1>4. ASSUME NEW k \in Nat PROVE /\ Accept(d, k).end \in Ends
                                 /\ Accept(d, k).calls = k \/ Accept(d, k).end = "protocol"
  BY <1>2, <1>3 DEF Accept, Decoder, Ends
<1>5. n \in {End(d, "protocol"), Accept(d, 0), Accept(d, 1)}
  BY DEF Parse
<1>6. n.end = "ok" => b.reason # "other" /\ (n.calls > 0 => b.call \in {"whole", "empty"} /\ ~b.over)
  <2> HIDE DEF d
  <2>1. CASE b.reason = "other" \/ (kind = "codex" /\ b.reason = "length") \/ (b.call = "broken" /\ b.reason # "length")
    BY <1>3, <2>1 DEF Parse, d
  <2>2. CASE ~(b.reason = "other" \/ (kind = "codex" /\ b.reason = "length") \/ (b.call = "broken" /\ b.reason # "length"))
    <3>1. n = Accept(d, IF b.call \in {"none", "broken"} \/ b.over THEN 0 ELSE 1)
      BY <2>2 DEF Parse, d
    <3> HIDE DEF n
    <3>2. CASE b.call \in {"none", "broken"} \/ b.over
      <4>1. n.calls = 0 \/ n.end = "protocol"
        BY <1>4, <3>1, <3>2
      <4> QED BY <2>2, <4>1
    <3>3. CASE ~(b.call \in {"none", "broken"} \/ b.over)
      BY <1>1, <2>2, <3>3
    <3> QED BY <3>2, <3>3
  <2> QED BY <2>1, <2>2
<1>7. n.end \in Ends
  BY <1>3, <1>4, <1>5 DEF Ends
<1> DEFINE whole == n.end = "ok" => b.reason # "other" /\ (n.calls > 0 => b.call \in {"whole", "empty"} /\ ~b.over)
           r == [end |-> n.end, shown |-> FALSE, candidate |-> FALSE, sound |-> whole]
<1>8. BodyOutcome(kind, b) = r
  BY DEF BodyOutcome
<1>9. whole
  BY <1>6
<1> HIDE DEF n, whole
<1>10. r.end = n.end /\ r.sound = whole
  BY Zenon
<1> HIDE DEF r
<1> QED BY <1>7, <1>8, <1>9, <1>10, Zenon

\* Whatever a provider answers ends in one of four ways, and is sound when it ends well.
LEMMA ReplySound ==
  ASSUME NEW o \in StreamOutcomes \cup BodyOutcomes
  PROVE  /\ o.end \in Ends /\ o.shown \in BOOLEAN /\ o.candidate \in BOOLEAN
         /\ o.end = "ok" => o.sound
<1>1. ASSUME NEW kind \in Kinds, NEW s \in Streams(kind), o = Outcome(kind, s)
      PROVE  /\ o.end \in Ends /\ o.shown \in BOOLEAN /\ o.candidate \in BOOLEAN
             /\ o.end = "ok" => o.sound
  <2> DEFINE d == Decode(kind, s)
  <2>1. d \in Decoder /\ d.end \in Ends /\ (d.end = "ok" => Sound(kind, s, d))
    BY StreamSound
  <2>2. o = [end |-> d.end, shown |-> d.shown, candidate |-> d.candidate, sound |-> d.end = "ok" => Sound(kind, s, d)]
    BY <1>1 DEF Outcome
  <2> HIDE DEF d
  <2> QED BY <2>1, <2>2 DEF Decoder
<1>2. ASSUME NEW kind \in Kinds, NEW b \in Bodies(kind), o = BodyOutcome(kind, b)
      PROVE  /\ o.end \in Ends /\ o.shown \in BOOLEAN /\ o.candidate \in BOOLEAN
             /\ o.end = "ok" => o.sound
  <2>1. o.shown = FALSE /\ o.candidate = FALSE
    BY <1>2 DEF BodyOutcome
  <2> QED BY <1>2, <2>1, BodySound
<1>3. ASSUME NEW e \in {"protocol", "toobig", "transport"},
             o = [end |-> e, shown |-> FALSE, candidate |-> FALSE, sound |-> TRUE]
      PROVE  /\ o.end \in Ends /\ o.shown \in BOOLEAN /\ o.candidate \in BOOLEAN
             /\ o.end = "ok" => o.sound
  BY <1>3 DEF Ends
<1>4. CASE o \in StreamOutcomes
  <2>1. PICK kind \in Kinds : o \in {Outcome(kind, s) : s \in Streams(kind)}
    BY <1>4, Zenon DEF StreamOutcomes
  <2>2. PICK s \in Streams(kind) : o = Outcome(kind, s)
    BY <2>1
  <2> QED BY <1>1, <2>2
<1>5. CASE o \in BodyOutcomes
  <2>1. \/ \E kind \in Kinds : o \in {BodyOutcome(kind, b) : b \in Bodies(kind)}
        \/ \E e \in {"protocol", "toobig", "transport"} :
              o = [end |-> e, shown |-> FALSE, candidate |-> FALSE, sound |-> TRUE]
    <3> DEFINE U == UNION {{BodyOutcome(k, b) : b \in Bodies(k)} : k \in Kinds}
               V == {[end |-> e, shown |-> FALSE, candidate |-> FALSE, sound |-> TRUE] : e \in {"protocol", "toobig", "transport"}}
    <3>1. BodyOutcomes = U \cup V
      BY DEF BodyOutcomes
    <3>2. CASE o \in U
      BY <3>2, Zenon
    <3>3. CASE o \in V
      BY <3>3, Zenon
    <3> HIDE DEF U, V
    <3> QED BY <1>5, <3>1, <3>2, <3>3
  <2> QED BY <1>2, <1>3, <2>1
<1> QED BY <1>4, <1>5

-----------------------------------------------------------------------------
(* Who may be asked *)

\* A choice that did not fail names a known provider.
Choice(cfg, b) == b.failed \/ b.provider \in DOMAIN cfg.usable

LEMMA FailsFailed == Fails.failed /\ \A p, m : Bound(p, m).provider = p
  BY DEF Fails, Bound

LEMMA PickType ==
  ASSUME NEW cfg, Setting(cfg), NEW hard
  PROVE  /\ \A R : R \subseteq cfg.models => \A b \in AsBound(R) : Choice(cfg, b)
         /\ \A b \in PickAuto(cfg, hard) : Choice(cfg, b)
         /\ \A p \in DOMAIN cfg.usable : \A b \in PickForProvider(cfg, hard, p) : Choice(cfg, b)
         /\ \A b \in PickSingle(cfg) : Choice(cfg, b)
         /\ \A m : ProvidersOf(cfg, m) \subseteq DOMAIN cfg.usable
<1>1. \A R : R \subseteq cfg.models => \A b \in AsBound(R) : Choice(cfg, b)
  BY FailsFailed DEF AsBound, Choice, Setting
<1>2. Registered(cfg) \subseteq cfg.models /\ AbleModels(cfg) \subseteq cfg.models
  BY DEF Registered, AbleModels
<1>3. \A R, p : PickCheap(cfg, R, p) \subseteq R
  BY DEF PickCheap, Lowest
<1>4. \A R : PickStrongest(cfg, R) \subseteq R
  BY DEF PickStrongest
<1>5. \A p \in DOMAIN cfg.usable : \A m : Choice(cfg, Bound(p, m))
  BY FailsFailed DEF Choice
<1>6. Choice(cfg, Fails)
  BY FailsFailed DEF Choice
<1>7. cfg.home \in DOMAIN cfg.usable /\ cfg.default \in DOMAIN cfg.usable
  BY DEF Setting
<1>8. \A b \in PickAuto(cfg, hard) : Choice(cfg, b)
  BY <1>1, <1>2, <1>3, <1>4, <1>5, <1>6, <1>7 DEF PickAuto
<1>9. \A p \in DOMAIN cfg.usable : \A b \in PickForProvider(cfg, hard, p) : Choice(cfg, b)
  BY <1>1, <1>2, <1>3, <1>4, <1>5 DEF PickForProvider
<1>10. \A b \in PickSingle(cfg) : Choice(cfg, b)
  BY <1>1, <1>2, <1>5, <1>6, <1>7 DEF PickSingle
<1>11. \A m : ProvidersOf(cfg, m) \subseteq DOMAIN cfg.usable
  BY <1>2 DEF ProvidersOf, Setting
<1> QED BY <1>1, <1>8, <1>9, <1>10, <1>11

\* A task that is bound is bound to a usable provider.
LEMMA BindUsable ==
  ASSUME NEW cfg, Setting(cfg), NEW hard, NEW ask, ask.provider \in DOMAIN cfg.usable \cup {NoProvider},
         NEW b \in Bind(cfg, hard, ask), ~b.failed
  PROVE  b.provider \in DOMAIN cfg.usable /\ cfg.usable[b.provider]
<1> DEFINE known == DOMAIN cfg.usable
<1>1. \A p \in known : \A m : Choice(cfg, Bound(p, m))
  BY FailsFailed DEF Choice
<1>2. Choice(cfg, Fails)
  BY FailsFailed DEF Choice
<1>3. cfg.home \in known /\ {cfg.pin, cfg.own.provider, cfg.manual.provider} \subseteq known \cup {NoProvider}
      /\ NoProvider \notin known
  BY DEF Setting
<1>4. ASSUME NEW a, a.provider \in known \cup {NoProvider} PROVE \A x \in BindProfile(cfg, hard, a) :
        ~x.failed => x.provider \in known /\ cfg.usable[x.provider]
  <2>1. \A x \in DecideProfileModel(cfg, a.provider) : Choice(cfg, x)
    BY <1>1, <1>3, <1>4, PickType DEF DecideProfileModel
  <2>2. \A x \in Overridden(cfg, hard, a) : Choice(cfg, x)
    BY <1>1, <1>2, <1>3, <1>4, PickType DEF Overridden
  <2>3. \A x \in ResolveSpec(cfg, cfg.manual) : Choice(cfg, x)
    BY <1>1, <1>2, <1>3, PickType DEF ResolveSpec
  <2>4. \A x \in PickManual(cfg, hard) : Choice(cfg, x)
    BY <2>3, PickType DEF PickManual
  <2>5. \A x \in Chosen(cfg, hard, a) : Choice(cfg, x)
    BY <2>1, <2>2, <2>4, PickType DEF Chosen
  <2> QED BY <2>5, FailsFailed DEF BindProfile, Choice
<1>5. PICK x \in BindProfile(cfg, hard, ask) : b \in ApplyEnginePin(cfg, hard, ask, x)
  BY DEF Bind
<1>6. b = x \/ \E p \in BindProfile(cfg, hard, [provider |-> cfg.pin, model |-> NoModel]) : b = p
  BY <1>5 DEF ApplyEnginePin
<1>7. [provider |-> cfg.pin, model |-> NoModel].provider \in known \cup {NoProvider}
  BY <1>3
<1> QED BY <1>4, <1>5, <1>6, <1>7

\* A list of providers that takes each usable one of them once, in the order given.
LEMMA OrderDef ==
  ASSUME NEW cfg, NEW p, Len(<<p>> \o cfg.fallback) \in Nat
  PROVE  LET w == <<p>> \o cfg.fallback
         IN \E f : /\ f[0] = <<>>
                   /\ \A i \in Nat : i + 1 <= Len(w) =>
                        f[i + 1] = IF cfg.usable[w[i + 1]] /\ ~Contains(f[i], w[i + 1])
                                   THEN Append(f[i], w[i + 1]) ELSE f[i]
                   /\ FallbackOrder(cfg, p) = f[Len(w)]
<1> DEFINE w == <<p>> \o cfg.fallback
           add(o, q) == IF cfg.usable[q] /\ ~Contains(o, q) THEN Append(o, q) ELSE o
           Body(f, j) == IF j = 0 THEN <<>> ELSE add(f[j - 1], w[j])
           Good(n, f) == f = [j \in 0 .. n |-> Body(f, j)]
           T == {n \in Nat : \E f : Good(n, f)}
           upTo == CHOOSE f : Good(Len(w), f)
<1>0. FallbackOrder(cfg, p) = upTo[Len(w)]
  BY DEF FallbackOrder
<1> HIDE DEF add, w
<1>1. 0 \in T
  <2>1. Good(0, [j \in 0 .. 0 |-> <<>>])
    OBVIOUS
  <2> QED BY <2>1
<1>2. ASSUME NEW n \in Nat, n \in T PROVE n + 1 \in T
  <2>1. PICK f : Good(n, f)
    BY <1>2
  <2> DEFINE g == [j \in 0 .. n + 1 |-> IF j = n + 1 THEN Body(f, j) ELSE f[j]]
  <2>2. Good(n + 1, g)
    <3> SUFFICES ASSUME NEW j \in 0 .. n + 1 PROVE g[j] = Body(g, j)
      OBVIOUS
    <3>1. CASE j = n + 1
      BY <3>1
    <3>2. CASE j \in 0 .. n
      BY <2>1, <3>2
    <3> QED BY <3>1, <3>2
  <2> HIDE DEF g, Good
  <2> QED BY <2>2
<1>3. Len(w) \in Nat
  BY DEF w
<1>4. Good(Len(w), upTo)
  <2>1. \E f : Good(Len(w), f)
    <3> HIDE DEF Good
    <3> QED BY <1>1, <1>2, <1>3, Up
  <2> HIDE DEF Good
  <2> QED BY <2>1
<1>5. \A j \in 0 .. Len(w) : upTo[j] = Body(upTo, j)
  <2> HIDE DEF upTo
  <2> QED BY <1>4
<1> HIDE DEF upTo
<1>6. upTo[0] = <<>>
  BY <1>3, <1>5
<1>7. ASSUME NEW i \in Nat, i + 1 <= Len(w) PROVE upTo[i + 1] = add(upTo[i], w[i + 1])
  <2>1. i + 1 \in 0 .. Len(w) /\ i + 1 # 0 /\ (i + 1) - 1 = i
    BY <1>3, <1>7
  <2> QED BY <1>5, <2>1
<1>8. \E f : /\ f[0] = <<>>
             /\ \A i \in Nat : i + 1 <= Len(w) => f[i + 1] = add(f[i], w[i + 1])
             /\ FallbackOrder(cfg, p) = f[Len(w)]
  BY <1>0, <1>6, <1>7
<1> QED BY <1>8 DEF add, w

LEMMA OrderUsable ==
  ASSUME NEW cfg, Setting(cfg), NEW p \in DOMAIN cfg.usable
  PROVE  /\ FallbackOrder(cfg, p) \in Seq(DOMAIN cfg.usable) /\ Once(FallbackOrder(cfg, p))
         /\ \A i \in 1 .. Len(FallbackOrder(cfg, p)) : cfg.usable[FallbackOrder(cfg, p)[i]]
<1> DEFINE known == DOMAIN cfg.usable
           w == <<p>> \o cfg.fallback
           Fine(o) == o \in Seq(known) /\ Once(o) /\ \A i \in 1 .. Len(o) : cfg.usable[o[i]]
<1>1. w \in Seq(known) /\ Len(w) \in Nat
  <2>1. cfg.fallback \in Seq(known)
    BY DEF Setting
  <2>2. <<p>> \in Seq(known)
    <3> HIDE DEF known
    <3>1. p \in known
      BY DEF known
    <3> QED BY <3>1
  <2> HIDE DEF known
  <2> QED BY <2>1, <2>2
<1>2. PICK f : /\ f[0] = <<>>
               /\ \A i \in Nat : i + 1 <= Len(w) =>
                    f[i + 1] = IF cfg.usable[w[i + 1]] /\ ~Contains(f[i], w[i + 1])
                               THEN Append(f[i], w[i + 1]) ELSE f[i]
               /\ FallbackOrder(cfg, p) = f[Len(w)]
  BY <1>1, OrderDef
<1> HIDE DEF w
<1> DEFINE T == {n \in Nat : n <= Len(w) => Fine(f[n])}
<1>3. 0 \in T
  <2>1. Fine(<<>>)
    <3> HIDE DEF known
    <3> QED BY DEF Once
  <2> QED BY <1>2, <2>1
<1>4. ASSUME NEW n \in Nat, n \in T PROVE n + 1 \in T
  <2> SUFFICES ASSUME n + 1 <= Len(w) PROVE Fine(f[n + 1])
    OBVIOUS
  <2> DEFINE q == w[n + 1]
             o == f[n]
  <2>1. q \in known
    BY <1>1
  <2>2. Fine(o)
    <3> HIDE DEF Fine
    <3> QED BY <1>1, <1>4
  <2>3. f[n + 1] = IF cfg.usable[q] /\ ~Contains(o, q) THEN Append(o, q) ELSE o
    BY <1>2
  <2> HIDE DEF o, q
  <2>4. CASE cfg.usable[q] /\ ~Contains(o, q)
    <3>1. /\ Append(o, q) \in Seq(known) /\ Len(o) \in Nat /\ Len(Append(o, q)) = Len(o) + 1
          /\ \A i \in 1 .. Len(o) : Append(o, q)[i] = o[i]
          /\ Append(o, q)[Len(o) + 1] = q
      BY <2>1, <2>2
    <3>2. \A i \in 1 .. Len(o) : o[i] # q
      BY <2>4 DEF Contains
    <3>3. \A i \in 1 .. Len(o) + 1 : i = Len(o) + 1 \/ i \in 1 .. Len(o)
      BY <3>1
    <3>4. Once(Append(o, q))
      BY <2>2, <3>1, <3>2, <3>3 DEF Once
    <3>5. \A i \in 1 .. Len(o) + 1 : cfg.usable[Append(o, q)[i]]
      BY <2>2, <2>4, <3>1, <3>3
    <3> QED BY <2>3, <2>4, <3>1, <3>4, <3>5
  <2>5. CASE ~(cfg.usable[q] /\ ~Contains(o, q))
    <3> HIDE DEF Fine
    <3> QED BY <2>2, <2>3, <2>5
  <2> QED BY <2>4, <2>5
<1>5. Fine(f[Len(w)])
  <2> HIDE DEF Fine
  <2>1. Nat \subseteq T
    <3> HIDE DEF T
    <3> QED BY <1>3, <1>4, Up
  <2> QED BY <1>1, <2>1
<1> QED BY <1>2, <1>5

\* What is left of a list without one of its entries.
LEMMA WithoutDef ==
  ASSUME NEW o, NEW p, Len(o) \in Nat
  PROVE  \E f : /\ f[0] = <<>>
                /\ \A i \in Nat : i + 1 <= Len(o) =>
                     f[i + 1] = IF o[i + 1] = p THEN f[i] ELSE Append(f[i], o[i + 1])
                /\ Without(o, p) = f[Len(o)]
<1> DEFINE Body(f, j) == IF j = 0 THEN <<>> ELSE IF o[j] = p THEN f[j - 1] ELSE Append(f[j - 1], o[j])
           Good(n, f) == f = [j \in 0 .. n |-> Body(f, j)]
           T == {n \in Nat : \E f : Good(n, f)}
           upTo == CHOOSE f : Good(Len(o), f)
<1>0. Without(o, p) = upTo[Len(o)]
  BY DEF Without
<1>1. 0 \in T
  <2>1. Good(0, [j \in 0 .. 0 |-> <<>>])
    OBVIOUS
  <2> QED BY <2>1
<1>2. ASSUME NEW n \in Nat, n \in T PROVE n + 1 \in T
  <2>1. PICK f : Good(n, f)
    BY <1>2
  <2> DEFINE g == [j \in 0 .. n + 1 |-> IF j = n + 1 THEN Body(f, j) ELSE f[j]]
  <2>2. Good(n + 1, g)
    <3> SUFFICES ASSUME NEW j \in 0 .. n + 1 PROVE g[j] = Body(g, j)
      OBVIOUS
    <3>1. CASE j = n + 1
      BY <3>1
    <3>2. CASE j \in 0 .. n
      <4>1. g[j] = f[j] /\ f[j] = Body(f, j)
        BY <2>1, <3>2
      <4>2. j # 0 => g[j - 1] = f[j - 1]
        BY <3>2
      <4> HIDE DEF g
      <4> QED BY <4>1, <4>2
    <3> QED BY <3>1, <3>2
  <2> HIDE DEF g, Good
  <2> QED BY <2>2
<1>3. Good(Len(o), upTo)
  <2>1. \E f : Good(Len(o), f)
    <3> HIDE DEF Good
    <3> QED BY <1>1, <1>2, Up
  <2> HIDE DEF Good
  <2> QED BY <2>1
<1>4. \A j \in 0 .. Len(o) : upTo[j] = Body(upTo, j)
  <2> HIDE DEF upTo
  <2> QED BY <1>3
<1> HIDE DEF upTo
<1>5. upTo[0] = <<>>
  BY <1>4
<1>6. ASSUME NEW i \in Nat, i + 1 <= Len(o)
      PROVE  upTo[i + 1] = IF o[i + 1] = p THEN upTo[i] ELSE Append(upTo[i], o[i + 1])
  <2>1. i + 1 \in 0 .. Len(o) /\ i + 1 # 0 /\ (i + 1) - 1 = i
    BY <1>6
  <2> QED BY <1>4, <2>1
<1> QED BY <1>0, <1>5, <1>6

LEMMA WithoutOnce ==
  ASSUME NEW S, NEW o \in Seq(S), Once(o), NEW p
  PROVE  /\ Without(o, p) \in Seq(S) /\ Once(Without(o, p))
         /\ \A k \in 1 .. Len(Without(o, p)) :
              Without(o, p)[k] # p /\ \E j \in 1 .. Len(o) : Without(o, p)[k] = o[j]
<1>1. Len(o) \in Nat /\ \A j \in 1 .. Len(o) : o[j] \in S
  OBVIOUS
<1>2. PICK f : /\ f[0] = <<>>
               /\ \A i \in Nat : i + 1 <= Len(o) =>
                    f[i + 1] = IF o[i + 1] = p THEN f[i] ELSE Append(f[i], o[i + 1])
               /\ Without(o, p) = f[Len(o)]
  BY <1>1, WithoutDef, Zenon
<1> DEFINE From(t, n) == /\ t \in Seq(S) /\ Once(t)
                         /\ \A k \in 1 .. Len(t) : t[k] # p /\ \E j \in 1 .. n : t[k] = o[j]
           T == {n \in Nat : n <= Len(o) => From(f[n], n)}
<1>3. 0 \in T
  <2>1. From(<<>>, 0)
    BY DEF Once
  <2> QED BY <1>2, <2>1
<1>4. ASSUME NEW n \in Nat, n \in T PROVE n + 1 \in T
  <2> SUFFICES ASSUME n + 1 <= Len(o) PROVE From(f[n + 1], n + 1)
    OBVIOUS
  <2> DEFINE q == o[n + 1]
             t == f[n]
  <2>1. q \in S /\ n + 1 \in 1 .. Len(o)
    BY <1>1
  <2>2. From(t, n)
    <3> HIDE DEF From
    <3> QED BY <1>1, <1>4
  <2>3. f[n + 1] = IF q = p THEN t ELSE Append(t, q)
    BY <1>2
  <2>4. \A j \in 1 .. n : j \in 1 .. n + 1 /\ o[j] # q
    BY <1>1, <2>1 DEF Once
  <2> HIDE DEF t
  <2>5. CASE q = p
    BY <2>2, <2>3, <2>4, <2>5
  <2>6. CASE q # p
    <3>1. /\ Append(t, q) \in Seq(S) /\ Len(t) \in Nat /\ Len(Append(t, q)) = Len(t) + 1
          /\ \A i \in 1 .. Len(t) : Append(t, q)[i] = t[i]
          /\ Append(t, q)[Len(t) + 1] = q
      BY <2>1, <2>2
    <3>2. \A i \in 1 .. Len(t) : t[i] # q
      BY <2>2, <2>4
    <3>3. \A i \in 1 .. Len(t) + 1 : i = Len(t) + 1 \/ i \in 1 .. Len(t)
      BY <3>1
    <3>4. Once(Append(t, q))
      BY <2>2, <3>1, <3>2, <3>3 DEF Once
    <3>5. ASSUME NEW k \in 1 .. Len(t) + 1
          PROVE  Append(t, q)[k] # p /\ \E j \in 1 .. n + 1 : Append(t, q)[k] = o[j]
      <4>1. CASE k = Len(t) + 1
        BY <2>6, <3>1, <4>1
      <4>2. CASE k \in 1 .. Len(t)
        BY <2>2, <2>4, <3>1, <4>2
      <4> QED BY <3>3, <4>1, <4>2
    <3> QED BY <2>3, <2>6, <3>1, <3>4, <3>5
  <2> QED BY <2>5, <2>6
<1>5. From(f[Len(o)], Len(o))
  <2> HIDE DEF From
  <2>1. Nat \subseteq T
    <3> HIDE DEF T
    <3> QED BY <1>3, <1>4, Up
  <2> QED BY <1>1, <2>1
<1> QED BY <1>2, <1>5

\* A new entry in front of a list.
LEMMA InFront ==
  ASSUME NEW S, NEW x \in S, NEW t \in Seq(S), Once(t), \A k \in 1 .. Len(t) : t[k] # x
  PROVE  <<x>> \o t \in Seq(S) /\ Once(<<x>> \o t) /\ Len(<<x>> \o t) = 1 + Len(t)
<1>1. Len(t) \in Nat /\ <<x>> \in Seq(S) /\ <<x>>[1] = x /\ Len(<<x>>) = 1
  OBVIOUS
<1>2. <<x>> \o t \in Seq(S) /\ Len(<<x>> \o t) = 1 + Len(t)
  BY <1>1
<1>3. \A i \in 1 .. 1 + Len(t) :
        IF i = 1 THEN (<<x>> \o t)[i] = x ELSE i - 1 \in 1 .. Len(t) /\ (<<x>> \o t)[i] = t[i - 1]
  BY <1>1
<1>4. Once(<<x>> \o t)
  <2> DEFINE r == <<x>> \o t
  <2> SUFFICES ASSUME NEW i \in 1 .. Len(r), NEW j \in 1 .. Len(r), r[i] = r[j] PROVE i = j
    BY DEF Once
  <2>1. i \in 1 .. 1 + Len(t) /\ j \in 1 .. 1 + Len(t)
    BY <1>2
  <2>2. IF i = 1 THEN r[i] = x ELSE i - 1 \in 1 .. Len(t) /\ r[i] = t[i - 1]
    BY <1>3, <2>1
  <2>3. IF j = 1 THEN r[j] = x ELSE j - 1 \in 1 .. Len(t) /\ r[j] = t[j - 1]
    BY <1>3, <2>1
  <2> HIDE DEF r
  <2>4. i \in Int /\ j \in Int
    BY <1>1, <2>1
  <2> QED BY <2>2, <2>3, <2>4 DEF Once
<1> QED BY <1>2, <1>4

\* With the engine's pin in front; alone, if the engine insists on it.
LEMMA PinnedUsable ==
  ASSUME NEW cfg, Setting(cfg), NEW p \in DOMAIN cfg.usable
  PROVE  LET o == FallbackOrderPinned(cfg, p)
         IN /\ o \in Seq(DOMAIN cfg.usable) /\ Once(o)
            /\ \A i \in 1 .. Len(o) : cfg.usable[o[i]]
            /\ cfg.strict => \A i \in 1 .. Len(o) : o[i] = cfg.pin => Len(o) = 1
<1> DEFINE known == DOMAIN cfg.usable
           o == FallbackOrder(cfg, p)
           r == FallbackOrderPinned(cfg, p)
           Fine(t) == /\ t \in Seq(known) /\ Once(t)
                      /\ \A i \in 1 .. Len(t) : cfg.usable[t[i]]
<1>1. Fine(o)
  BY OrderUsable
<1>2. cfg.pin \in known \cup {NoProvider} /\ NoProvider \notin known
  BY DEF Setting
<1>3. r = IF cfg.pin = NoProvider \/ ~Contains(o, cfg.pin) THEN o
          ELSE IF cfg.strict THEN <<cfg.pin>> ELSE <<cfg.pin>> \o Without(o, cfg.pin)
  BY DEF FallbackOrderPinned
<1> SUFFICES Fine(r) /\ (cfg.strict => \A i \in 1 .. Len(r) : r[i] = cfg.pin => Len(r) = 1)
  OBVIOUS
<1> HIDE DEF o, r, known
<1>4. CASE cfg.pin = NoProvider \/ ~Contains(o, cfg.pin)
  <2>1. r = o
    BY <1>3, <1>4
  <2>2. \A i \in 1 .. Len(o) : o[i] # cfg.pin
    BY <1>1, <1>2, <1>4 DEF Contains
  <2> QED BY <1>1, <2>1, <2>2
<1>5. CASE ~(cfg.pin = NoProvider \/ ~Contains(o, cfg.pin))
  <2>1. cfg.pin \in known /\ cfg.usable[cfg.pin]
    BY <1>1, <1>2, <1>5 DEF Contains
  <2>2. /\ <<cfg.pin>> \in Seq({cfg.pin}) /\ Once(<<cfg.pin>>) /\ Len(<<cfg.pin>>) = 1
        /\ <<cfg.pin>> \in Seq(known) /\ <<cfg.pin>>[1] = cfg.pin
    BY <2>1 DEF Once
  <2>3. CASE cfg.strict
    <3>1. r = <<cfg.pin>>
      BY <1>3, <1>5, <2>3
    <3> QED BY <2>1, <2>2, <3>1
  <2>4. CASE ~cfg.strict
    <3> DEFINE t == Without(o, cfg.pin)
    <3>1. /\ t \in Seq(known) /\ Once(t)
          /\ \A k \in 1 .. Len(t) : t[k] # cfg.pin /\ \E j \in 1 .. Len(o) : t[k] = o[j]
      BY <1>1, WithoutOnce
    <3>2. r = <<cfg.pin>> \o t
      BY <1>3, <1>5, <2>4
    <3> HIDE DEF t
    <3>5. r \in Seq(known) /\ Once(r) /\ Len(r) = 1 + Len(t)
      BY <2>1, <3>1, <3>2, InFront
    <3>6. ASSUME NEW i \in 1 .. Len(r) PROVE cfg.usable[r[i]]
      <4>1. Len(t) \in Nat
        BY <3>1
      <4>2. CASE i = 1
        <5>1. r[1] = cfg.pin
          BY <2>2, <3>1, <3>2
        <5> QED BY <2>1, <4>2, <5>1
      <4>3. CASE i # 1
        <5>1. i - 1 \in 1 .. Len(t) /\ r[i] = t[i - 1]
          BY <2>2, <3>1, <3>2, <3>5, <4>1, <4>3
        <5>2. PICK j \in 1 .. Len(o) : t[i - 1] = o[j]
          BY <3>1, <5>1
        <5> QED BY <1>1, <5>1, <5>2
      <4> QED BY <4>2, <4>3
    <3> QED BY <2>4, <3>5, <3>6
  <2> QED BY <2>3, <2>4
<1> QED BY <1>4, <1>5

\* The candidates that a call of task t may start with.
OrderOf(t, o) ==
    /\ Len(o) \in Nat /\ DOMAIN o = 1 .. Len(o)
    /\ \A i \in 1 .. Len(o) : t.cfg.usable[o[i].provider]
    /\ t.chain # <<>> => Len(o) <= ComboMaxHops
    /\ t.chain = <<>> =>
         /\ \A i, j \in 1 .. Len(o) : o[i].provider = o[j].provider => i = j
         /\ t.cfg.strict => \A i \in 1 .. Len(o) : o[i].provider = t.cfg.pin => Len(o) = 1

LEMMA BeginOrder ==
  ASSUME NEW i \in DOMAIN Tasks, NEW b \in Bind(Tasks[i].cfg, Tasks[i].hard, Tasks[i].ask), ~b.failed,
         Tasks[i].chain # <<>> => BindCombo(Tasks[i].cfg, Tasks[i].chain) # <<>>
  PROVE  LET chain == BindCombo(Tasks[i].cfg, Tasks[i].chain)
         IN OrderOf(Tasks[i], IF chain # <<>> THEN chain ELSE CandidatesOf(Tasks[i].cfg, b))
<1> DEFINE t == Tasks[i]
           chain == BindCombo(t.cfg, t.chain)
           n == IF Len(t.chain) > ComboMaxHops THEN ComboMaxHops ELSE Len(t.chain)
           hops == SubSeq(t.chain, 1, n)
<1>1. /\ Setting(t.cfg) /\ t.ask.provider \in DOMAIN t.cfg.usable \cup {NoProvider}
      /\ t.chain \in Seq(Range(t.chain)) /\ \A k \in DOMAIN t.chain : t.chain[k].provider \in DOMAIN t.cfg.usable
  BY ModelCallAssumption, Zenon
<1>2. chain = IF \A k \in DOMAIN hops : Able(t.cfg, hops[k].provider) THEN hops ELSE <<>>
  BY DEF BindCombo
<1> SUFFICES OrderOf(t, IF chain # <<>> THEN chain ELSE CandidatesOf(t.cfg, b))
  OBVIOUS
<1>3. t.chain # <<>> => chain # <<>>
  OBVIOUS
<1>4. b.provider \in DOMAIN t.cfg.usable
  <2> HIDE DEF chain
  <2> QED BY <1>1, BindUsable
<1> HIDE DEF t, chain
<1>5. CASE t.chain # <<>>
  <2>1. Len(t.chain) \in Nat
    BY <1>1
  <2>2. n \in Nat /\ n <= 3 /\ n <= Len(t.chain)
    BY <2>1 DEF ComboMaxHops
  <2>3. hops \in Seq(Range(t.chain)) /\ Len(hops) = n
    BY <1>1, <2>1, <2>2
  <2>4. chain = hops /\ \A k \in DOMAIN hops : Able(t.cfg, hops[k].provider)
    BY <1>2, <1>3, <1>5
  <2> HIDE DEF n, hops
  <2>5. DOMAIN hops = 1 .. n
    BY <2>2, <2>3
  <2> QED BY <1>3, <1>5, <2>2, <2>3, <2>4, <2>5 DEF OrderOf, Able, ComboMaxHops
<1>6. CASE t.chain = <<>>
  <2>1. hops = <<>>
    BY <1>6 DEF ComboMaxHops
  <2>2. chain = <<>>
    <3> HIDE DEF hops
    <3> QED BY <1>2, <2>1
  <2> DEFINE o == FallbackOrderPinned(t.cfg, b.provider)
             r == CandidatesOf(t.cfg, b)
  <2>3. /\ o \in Seq(DOMAIN t.cfg.usable) /\ Once(o)
        /\ \A k \in 1 .. Len(o) : t.cfg.usable[o[k]]
        /\ t.cfg.strict => \A k \in 1 .. Len(o) : o[k] = t.cfg.pin => Len(o) = 1
    BY <1>1, <1>4, PinnedUsable
  <2>4. Len(o) \in Nat /\ DOMAIN o = 1 .. Len(o)
    BY <2>3
  <2>5. r = [k \in 1 .. Len(o) |-> [provider |-> o[k],
                                    model |-> ModelForFallback(t.cfg, o[k], o[1], b.model)]]
    BY <2>4 DEF CandidatesOf
  <2> HIDE DEF o, r
  <2>6. DOMAIN r = 1 .. Len(o) /\ \A k \in 1 .. Len(o) : r[k].provider = o[k]
    BY <2>5
  <2>7. Len(r) = Len(o)
    <3>1. r \in Seq({r[k] : k \in 1 .. Len(o)})
      BY <2>4, <2>5
    <3> QED BY <2>4, <2>6, <3>1
  <2>8. OrderOf(t, r)
    BY <1>6, <2>3, <2>4, <2>6, <2>7 DEF OrderOf, Once
  <2> QED BY <2>2, <2>8 DEF r
<1> QED BY <1>5, <1>6

-----------------------------------------------------------------------------
(* What is true of each call *)

Places == {"idle", "candidate", "account", "claim", "request", "act", "done"}
Known == Errors \cup {NoError}

Typed ==
    /\ task \in [Calls -> DOMAIN Tasks]
    /\ order = [c \in Calls |-> order[c]]
    /\ pc \in [Calls -> Places]
    /\ at \in [Calls -> Nat]
    /\ accounts = [c \in Calls |-> accounts[c]]
    /\ attempt \in [Calls -> 0 .. 1]
    /\ used \in [Calls -> 0 .. ComboMaxHops]
    /\ treeUsed \in Nat
    /\ emitted \in [Calls -> BOOLEAN]
    /\ inner \in [Calls -> ProviderErrors \cup {NoError}]
    /\ primaryErr \in [Calls -> Known]
    /\ lastErr \in [Calls -> Known]
    /\ error \in [Calls -> Known]
    /\ result = [c \in Calls |-> result[c]]
    /\ asked \in [Calls -> Seq([at : Nat, error : Known])]

\* Where the call is among its candidates.
Placed(c) ==
    /\ at[c] >= 1
    /\ OrderOf(Task(c), order[c])
    /\ at[c] <= Len(order[c]) + 1
    /\ pc[c] \in {"account", "claim", "request", "act"} => at[c] <= Len(order[c])
    /\ pc[c] = "idle" => at[c] = 1 /\ used[c] = 0 /\ Len(order[c]) = 0
    /\ pc[c] = "claim" => CanDispatch(c)

LastAt(c) == asked[c][used[c]].at
Final(c) == asked[c][used[c]].error

\* What was asked so far: in the order of the candidates, each with its error but for the last.
Trail(c) ==
    /\ Len(asked[c]) = used[c]
    /\ \A i \in 1 .. used[c] : /\ asked[c][i].at \in 1 .. at[c] /\ asked[c][i].at <= Len(order[c])
                               /\ asked[c][i].error \in ProviderErrors \cup {NoError}
                               /\ (asked[c][i].error = NoError => i = used[c] /\ pc[c] \in {"request", "done"})
    /\ \A i, j \in 1 .. used[c] : i <= j => asked[c][i].at <= asked[c][j].at
    /\ Len(order[c]) > 1 => \A i \in 1 .. used[c] : asked[c][i].at = 1 => i < ComboMaxHops
    /\ pc[c] = "candidate" => \A i \in 1 .. used[c] : asked[c][i].at < at[c]
    /\ pc[c] \in {"request", "act"} => used[c] > 0 /\ LastAt(c) = at[c]
    /\ pc[c] = "act" => error[c] = Final(c)
    /\ emitted[c] => Task(c).style.stream /\ pc[c] \in {"act", "done"}

-----------------------------------------------------------------------------
(* The steps of a call, as they change what is kept for it *)

Fixed(c) == task'[c] = task[c] /\ order'[c] = order[c]
Kept(c) == at'[c] = at[c] /\ inner'[c] = inner[c] /\ primaryErr'[c] = primaryErr[c] /\ lastErr'[c] = lastErr[c]
Unasked(c) == used'[c] = used[c] /\ asked'[c] = asked[c] /\ emitted'[c] = emitted[c] /\ error'[c] = error[c]

Hopped(c) ==
    /\ Fixed(c) /\ Kept(c) /\ Unasked(c) /\ result'[c] = result[c]
    /\ \/ pc[c] = "candidate" /\ pc'[c] = "account" /\ at[c] <= Len(order[c])
       \/ pc[c] \in {"account", "act"} /\ pc'[c] = "account"
       \/ pc[c] \in {"account", "act"} /\ pc'[c] = "claim" /\ CanDispatch(c)
    /\ pc[c] = "act" => ~Aborts(c)

Skipped(c) ==
    /\ Fixed(c) /\ Unasked(c) /\ result'[c] = result[c]
    /\ pc[c] = "candidate" /\ pc'[c] = "candidate" /\ at[c] <= Len(order[c]) /\ Task(c).chain = <<>>
    /\ at'[c] = at[c] + 1 /\ inner'[c] = inner[c] /\ primaryErr'[c] = primaryErr[c] /\ lastErr'[c] = lastErr[c]

RanOut(c) ==
    /\ Fixed(c) /\ Kept(c) /\ Unasked(c)
    /\ pc[c] = "candidate" /\ pc'[c] = "done" /\ at[c] > Len(order[c])
    /\ result'[c] = Failed(IF primaryErr[c] # NoError THEN primaryErr[c]
                           ELSE IF lastErr[c] # NoError THEN lastErr[c] ELSE Unavailable)

Observed(c) == IF inner[c] # NoError THEN inner[c] ELSE Unavailable

LeftFor(c) ==
    /\ pc'[c] = "candidate" /\ at'[c] = at[c] + 1 /\ result'[c] = result[c]
    /\ IF Task(c).style.stream
       THEN /\ inner'[c] = inner[c]
            /\ primaryErr'[c] = PromotedPrimary(c, lastErr[c])
            /\ lastErr'[c] = PromotedLast(c, lastErr[c])
       ELSE /\ inner'[c] = NoError
            /\ primaryErr'[c] = PromotedPrimary(c, Observed(c))
            /\ lastErr'[c] = IF OnPrimary(c) /\ primaryErr[c] = NoError THEN lastErr[c] ELSE Observed(c)

GaveUpWith(c) ==
    /\ pc'[c] = "done" /\ Kept(c)
    /\ Task(c).style.stream \/ inner[c] = NoError
    /\ result'[c] = Failed(LimitOrObserved(primaryErr[c], lastErr[c]))

Left(c) ==
    /\ Fixed(c) /\ Unasked(c)
    /\ pc[c] \in {"account", "claim", "act"}
    /\ pc[c] = "act" => ~Aborts(c)
    /\ LeftFor(c)

GaveUp(c) ==
    /\ Fixed(c) /\ Unasked(c)
    /\ pc[c] \in {"account", "claim", "act"}
    /\ pc[c] = "act" => ~Aborts(c)
    /\ GaveUpWith(c)

Claimed(c) ==
    /\ Fixed(c) /\ Kept(c) /\ emitted'[c] = emitted[c] /\ error'[c] = error[c] /\ result'[c] = result[c]
    /\ pc[c] = "claim" /\ pc'[c] = "request" /\ used[c] < ComboMaxHops
    /\ used'[c] = used[c] + 1
    /\ asked'[c] = Append(asked[c], [at |-> at[c], error |-> NoError])

Replied(c) ==
    /\ Fixed(c) /\ Kept(c) /\ used'[c] = used[c] /\ asked'[c] = asked[c] /\ error'[c] = error[c]
    /\ pc[c] = "request" /\ pc'[c] = "done"
    /\ emitted'[c] \in BOOLEAN /\ (emitted'[c] => emitted[c] \/ Task(c).style.stream)
    /\ result'[c].kind = "ok" /\ result'[c].sound

Noted(c) ==
    /\ Fixed(c) /\ used'[c] = used[c] /\ result'[c] = result[c]
    /\ pc[c] = "request" /\ pc'[c] = "act"
    /\ at'[c] = at[c] /\ primaryErr'[c] = primaryErr[c]
    /\ emitted'[c] \in BOOLEAN /\ (emitted'[c] => emitted[c] \/ Task(c).style.stream)
    /\ \E e \in ProviderErrors :
         /\ error'[c] = e
         /\ asked'[c] = [asked[c] EXCEPT ![used[c]].error = e]
         /\ IF Task(c).style.stream THEN lastErr'[c] = e /\ inner'[c] = inner[c]
            ELSE inner'[c] = e /\ lastErr'[c] = lastErr[c]

Aborted(c) ==
    /\ Fixed(c) /\ Kept(c) /\ Unasked(c)
    /\ pc[c] = "act" /\ Aborts(c) /\ pc'[c] = "done"
    /\ result'[c] = Failed(error[c])

Moved(c) == \/ Hopped(c) \/ Skipped(c) \/ RanOut(c) \/ Left(c) \/ GaveUp(c)
            \/ Claimed(c) \/ Replied(c) \/ Noted(c) \/ Aborted(c)

\* A step of one call leaves the others alone.
Others(c) ==
    /\ task' = task
    /\ order' = [order EXCEPT ![c] = order'[c]] /\ pc' = [pc EXCEPT ![c] = pc'[c]]
    /\ at' = [at EXCEPT ![c] = at'[c]] /\ accounts' = [accounts EXCEPT ![c] = accounts'[c]]
    /\ attempt' = [attempt EXCEPT ![c] = attempt'[c]] /\ used' = [used EXCEPT ![c] = used'[c]]
    /\ emitted' = [emitted EXCEPT ![c] = emitted'[c]] /\ inner' = [inner EXCEPT ![c] = inner'[c]]
    /\ primaryErr' = [primaryErr EXCEPT ![c] = primaryErr'[c]] /\ lastErr' = [lastErr EXCEPT ![c] = lastErr'[c]]
    /\ error' = [error EXCEPT ![c] = error'[c]] /\ result' = [result EXCEPT ![c] = result'[c]]
    /\ asked' = [asked EXCEPT ![c] = asked'[c]]

LEMMA ErrorTypes ==
  /\ ProviderErrors \subseteq Errors /\ LimitError \in Errors /\ Unavailable \in Errors
  /\ NoError \notin Errors /\ LimitError \notin ProviderErrors /\ Unavailable \notin ProviderErrors
  /\ Refusals \subseteq ProviderErrors /\ NoError # Unavailable /\ NoError # LimitError /\ Unavailable # LimitError
  /\ Ends \subseteq ProviderErrors \cup {"ok"}
  BY DEF ProviderErrors, Errors, LimitError, Unavailable, NoError, Refusals, Ends


\* A function that is changed at most at one place.
Only(x, y, c) == y = x \/ \E v : y = [x EXCEPT ![c] = v]

LEMMA OnlyOne ==
  ASSUME NEW x, NEW y, NEW c \in Calls, x = [d \in Calls |-> x[d]], Only(x, y, c)
  PROVE  y = [x EXCEPT ![c] = y[c]]
  BY DEF Only

OnlyMoved(c) ==
    /\ Only(pc, pc', c) /\ Only(result, result', c) /\ Only(at, at', c) /\ Only(inner, inner', c)
    /\ Only(primaryErr, primaryErr', c) /\ Only(lastErr, lastErr', c)

LEMMA LeavesOnly ==
  ASSUME NEW c
  PROVE  /\ \A l : LeaveStream(c, l) => OnlyMoved(c)
         /\ \A e : LeaveAccounts(c, e) => OnlyMoved(c)
         /\ OutOfAttempts(c) => OnlyMoved(c)
         /\ LeaveCandidate(c) => OnlyMoved(c)
<1>1. \A x, v : Only(x, x, c) /\ Only(x, [x EXCEPT ![c] = v], c)
  BY DEF Only
<1>2. ASSUME NEW l, LeaveStream(c, l) PROVE OnlyMoved(c)
  BY <1>1, <1>2 DEF LeaveStream, GoTo, OnlyMoved
<1>3. ASSUME NEW e, LeaveAccounts(c, e) PROVE OnlyMoved(c)
  <2>1. CASE e = LimitError
    BY <1>1, <1>3, <2>1 DEF LeaveAccounts, Return, OnlyMoved
  <2>2. CASE e # LimitError
    <3>1. /\ inner' = [inner EXCEPT ![c] = NoError]
          /\ primaryErr' = [primaryErr EXCEPT ![c] = PromotedPrimary(c, e)]
          /\ lastErr' = [lastErr EXCEPT ![c] = IF OnPrimary(c) /\ primaryErr[c] = NoError THEN @ ELSE e]
          /\ at' = [at EXCEPT ![c] = After(c)]
          /\ pc' = [pc EXCEPT ![c] = "candidate"] /\ result' = result
      BY <1>3, <2>2, Zenon DEF LeaveAccounts, GoTo
    <3> QED BY <1>1, <3>1 DEF OnlyMoved
  <2> QED BY <2>1, <2>2
<1>4. ASSUME OutOfAttempts(c) PROVE OnlyMoved(c)
  <2>1. CASE Task(c).style.stream
    BY <1>1, <1>4, <2>1 DEF OutOfAttempts, Return, OnlyMoved
  <2>2. CASE ~Task(c).style.stream
    BY <1>3, <1>4, <2>2 DEF OutOfAttempts
  <2> QED BY <2>1, <2>2
<1>5. ASSUME LeaveCandidate(c) PROVE OnlyMoved(c)
  BY <1>2, <1>3, <1>5 DEF LeaveCandidate
<1> QED BY <1>2, <1>3, <1>4, <1>5

LEMMA NoteOnly ==
  ASSUME NEW c, NEW e, Note(c, e)
  PROVE  /\ Only(error, error', c) /\ Only(asked, asked', c) /\ Only(lastErr, lastErr', c)
         /\ Only(inner, inner', c) /\ Only(pc, pc', c) /\ Only(result, result', c)
<1>1. \A x, v : Only(x, x, c) /\ Only(x, [x EXCEPT ![c] = v], c)
  BY DEF Only
<1>2. PICK v : asked' = [asked EXCEPT ![c] = v]
  BY DEF Note
<1> QED BY <1>1, <1>2 DEF Note, GoTo

LEMMA StepOthers ==
  ASSUME Typed, NEW c \in Calls, Begin(c) \/ CallStep(c)
  PROVE  Others(c)
<1> DEFINE Some(x, y) == Only(x, y, c)
<1>1. /\ task' = task /\ Only(order, order', c) /\ Only(pc, pc', c) /\ Only(at, at', c)
      /\ Only(accounts, accounts', c) /\ Only(attempt, attempt', c) /\ Only(used, used', c)
      /\ Only(emitted, emitted', c) /\ Only(inner, inner', c) /\ Only(primaryErr, primaryErr', c)
      /\ Only(lastErr, lastErr', c) /\ Only(error, error', c) /\ Only(result, result', c)
      /\ Only(asked, asked', c)
  <2> USE DEF Only, GoTo, Return, local
  <2>0. \A x, v : Only(x, x, c) /\ Only(x, [x EXCEPT ![c] = v], c)
    OBVIOUS
  <2> HIDE DEF Only
  <2>1. CASE Begin(c)
    BY <2>0, <2>1 DEF Begin
  <2>2. CASE StartCandidate(c)
    BY <2>0, <2>2 DEF StartCandidate
  <2>3. CASE SkipCandidate(c)
    BY <2>0, <2>3 DEF SkipCandidate
  <2>4. CASE NoCandidateLeft(c)
    BY <2>0, <2>4 DEF NoCandidateLeft
  <2>5. CASE SkipAccount(c)
    BY <2>0, <2>5 DEF SkipAccount, NextAccount
  <2>6. CASE UseAccount(c)
    BY <2>0, <2>6 DEF UseAccount, NextAccount
  <2>7. CASE NoAccountLeft(c)
    BY <2>0, <2>7, LeavesOnly DEF NoAccountLeft, OnlyMoved
  <2>8. CASE NoAttemptLeft(c)
    BY <2>0, <2>8, LeavesOnly DEF NoAttemptLeft, OnlyMoved
  <2>9. CASE Claim(c)
    BY <2>0, <2>9 DEF Claim
  <2>10. CASE ClaimRefused(c)
    BY <2>0, <2>10, LeavesOnly DEF ClaimRefused, OnlyMoved
  <2>11. CASE Answered(c)
    <3>1. PICK o : emitted' = [emitted EXCEPT ![c] = @ \/ Displayed(c, o)]
      BY <2>11, Zenon DEF Answered
    <3>2. PICK r : result' = [result EXCEPT ![c] = r] /\ pc' = [pc EXCEPT ![c] = "done"]
      BY <2>11, Zenon DEF Answered
    <3> QED BY <2>0, <2>11, <3>1, <3>2 DEF Answered
  <2>12. CASE Refused(c)
    <3>1. PICK e : Note(c, e)
      BY <2>12 DEF Refused
    <3> QED BY <2>0, <2>12, <3>1, NoteOnly DEF Refused
  <2>13. CASE Broken(c)
    <3>1. PICK o : emitted' = [emitted EXCEPT ![c] = @ \/ Displayed(c, o)] /\ Note(c, o.end)
      BY <2>13, Zenon DEF Broken
    <3> QED BY <2>0, <2>13, <3>1, NoteOnly DEF Broken
  <2>14. CASE AbortAfterEmission(c)
    BY <2>0, <2>14 DEF AbortAfterEmission
  <2>15. CASE RetrySameAccount(c)
    BY <2>0, <2>15 DEF RetrySameAccount
  <2>16. CASE RetryRefused(c)
    BY <2>0, <2>16, LeavesOnly DEF RetryRefused, OnlyMoved
  <2>17. CASE TryNextAccount(c)
    BY <2>0, <2>17 DEF TryNextAccount
  <2>18. CASE TryNextCandidate(c)
    BY <2>0, <2>18, LeavesOnly DEF TryNextCandidate, OnlyMoved
  <2> QED BY <2>1, <2>2, <2>3, <2>4, <2>5, <2>6, <2>7, <2>8, <2>9, <2>10, <2>11, <2>12, <2>13, <2>14, <2>15, <2>16, <2>17, <2>18 DEF CallStep
<1>2. task' = task /\ Others(c)
  <2> USE <1>1, OnlyOne DEF Typed
  <2>1. order' = [order EXCEPT ![c] = order'[c]] /\ pc' = [pc EXCEPT ![c] = pc'[c]]
    OBVIOUS
  <2>2. at' = [at EXCEPT ![c] = at'[c]] /\ accounts' = [accounts EXCEPT ![c] = accounts'[c]]
    OBVIOUS
  <2>3. attempt' = [attempt EXCEPT ![c] = attempt'[c]] /\ used' = [used EXCEPT ![c] = used'[c]]
    OBVIOUS
  <2>4. emitted' = [emitted EXCEPT ![c] = emitted'[c]] /\ inner' = [inner EXCEPT ![c] = inner'[c]]
    OBVIOUS
  <2>5. primaryErr' = [primaryErr EXCEPT ![c] = primaryErr'[c]] /\ lastErr' = [lastErr EXCEPT ![c] = lastErr'[c]]
    OBVIOUS
  <2>6. error' = [error EXCEPT ![c] = error'[c]] /\ result' = [result EXCEPT ![c] = result'[c]]
    OBVIOUS
  <2>7. asked' = [asked EXCEPT ![c] = asked'[c]]
    OBVIOUS
  <2> QED BY <2>1, <2>2, <2>3, <2>4, <2>5, <2>6, <2>7 DEF Others
<1> QED BY <1>2

\* A candidate is left, or the call gives up, at the call's own place of each table.
LEMMA Leaving ==
  ASSUME Typed, NEW c \in Calls
  PROVE  /\ LeaveCandidate(c) => LeftFor(c)
         /\ OutOfAttempts(c) => LeftFor(c) \/ GaveUpWith(c)
<1>1. ASSUME ~Task(c).style.stream, NEW e, e # LimitError, e = Observed(c), LeaveAccounts(c, e) PROVE LeftFor(c)
  <2>1. /\ inner' = [inner EXCEPT ![c] = NoError]
        /\ primaryErr' = [primaryErr EXCEPT ![c] = PromotedPrimary(c, e)]
        /\ lastErr' = [lastErr EXCEPT ![c] = IF OnPrimary(c) /\ primaryErr[c] = NoError THEN @ ELSE e]
        /\ at' = [at EXCEPT ![c] = After(c)]
        /\ pc' = [pc EXCEPT ![c] = "candidate"] /\ result' = result
    BY <1>1, Zenon DEF LeaveAccounts, GoTo
  <2> QED BY <1>1, <2>1 DEF LeftFor, Typed, After
<1>2. ASSUME Task(c).style.stream, LeaveStream(c, lastErr[c]) PROVE LeftFor(c)
  BY <1>2 DEF LeaveStream, GoTo, LeftFor, Typed, After
<1>3. inner[c] # LimitError /\ Unavailable # LimitError
  BY ErrorTypes DEF Typed
<1>4. ASSUME LeaveCandidate(c) PROVE LeftFor(c)
  BY <1>1, <1>2, <1>3, <1>4 DEF LeaveCandidate, Observed
<1>5. ASSUME OutOfAttempts(c) PROVE LeftFor(c) \/ GaveUpWith(c)
  <2>1. CASE Task(c).style.stream
    BY <1>5, <2>1 DEF OutOfAttempts, Return, GaveUpWith, Typed, Kept
  <2>2. CASE ~Task(c).style.stream /\ inner[c] # NoError
    <3>1. LeaveAccounts(c, inner[c])
      BY <1>5, <2>2 DEF OutOfAttempts
    <3> QED BY <1>1, <1>3, <2>2, <3>1 DEF Observed
  <2>3. CASE ~Task(c).style.stream /\ inner[c] = NoError
    <3>1. LeaveAccounts(c, LimitError)
      BY <1>5, <2>3 DEF OutOfAttempts
    <3>2. /\ inner' = [inner EXCEPT ![c] = NoError]
          /\ result' = [result EXCEPT ![c] = Failed(LimitOrObserved(primaryErr[c], lastErr[c]))]
          /\ pc' = [pc EXCEPT ![c] = "done"] /\ at' = at /\ primaryErr' = primaryErr /\ lastErr' = lastErr
      BY <3>1, Zenon DEF LeaveAccounts, Return
    <3> QED BY <2>3, <3>2 DEF GaveUpWith, Typed, Kept
  <2> QED BY <2>1, <2>2, <2>3
<1> QED BY <1>4, <1>5

LEMMA StepMoves ==
  ASSUME Typed, NEW c \in Calls, CallStep(c)
  PROVE  Moved(c)
<1> USE DEF Typed, GoTo, Return, local, Fixed, Kept, Unasked
<1>1. CASE StartCandidate(c)
  BY <1>1 DEF StartCandidate, Moved, Hopped
<1>2. CASE SkipCandidate(c)
  BY <1>2 DEF SkipCandidate, Moved, Skipped, After
<1>3. CASE NoCandidateLeft(c)
  BY <1>3 DEF NoCandidateLeft, Moved, RanOut
<1>4. CASE SkipAccount(c)
  BY <1>4 DEF SkipAccount, Moved, Hopped
<1>5. CASE UseAccount(c)
  BY <1>5 DEF UseAccount, Moved, Hopped
<1>6. CASE NoAccountLeft(c)
  BY <1>6, Leaving DEF NoAccountLeft, Moved, Left
<1>7. CASE NoAttemptLeft(c)
  BY <1>7, Leaving DEF NoAttemptLeft, Moved, Left, GaveUp
<1>8. CASE Claim(c)
  BY <1>8 DEF Claim, MayClaim, Moved, Claimed, ComboMaxHops
<1>9. CASE ClaimRefused(c)
  BY <1>9, Leaving DEF ClaimRefused, Moved, Left, GaveUp
<1>10. CASE Answered(c)
  <2>1. PICK o \in Replies(c) : o.end = "ok" /\ emitted' = [emitted EXCEPT ![c] = @ \/ Displayed(c, o)]
                   /\ result' = [result EXCEPT ![c] = [kind |-> "ok", error |-> NoError, sound |-> o.sound]]
                   /\ pc' = [pc EXCEPT ![c] = "done"]
    BY <1>10, Zenon DEF Answered
  <2>2. o.sound
    BY <2>1, ReplySound DEF Replies
  <2>3. result'[c].kind = "ok" /\ result'[c].sound
    BY <2>1, <2>2
  <2>4. emitted'[c] \in BOOLEAN /\ (emitted'[c] => emitted[c] \/ Task(c).style.stream)
    BY <2>1 DEF Displayed
  <2> QED BY <1>10, <2>1, <2>3, <2>4 DEF Answered, Moved, Replied
<1>11. ASSUME NEW e \in ProviderErrors, Note(c, e), pc[c] = "request",
              UNCHANGED <<task, order, at, used, primaryErr>>,
              emitted'[c] \in BOOLEAN, emitted'[c] => emitted[c] \/ Task(c).style.stream
       PROVE  Moved(c)
  BY <1>11 DEF Note, Moved, Noted
<1>12. CASE Refused(c)
  BY <1>11, <1>12, ErrorTypes DEF Refused
<1>13. CASE Broken(c)
  <2>1. PICK o \in Replies(c) : o.end # "ok" /\ emitted' = [emitted EXCEPT ![c] = @ \/ Displayed(c, o)]
                   /\ Note(c, o.end)
    BY <1>13, Zenon DEF Broken
  <2>2. o.end \in ProviderErrors
    BY <2>1, ReplySound, ErrorTypes DEF Replies
  <2>3. emitted'[c] \in BOOLEAN /\ (emitted'[c] => emitted[c] \/ Task(c).style.stream)
    BY <2>1 DEF Displayed
  <2> QED BY <1>11, <1>13, <2>1, <2>2, <2>3 DEF Broken
<1>14. CASE AbortAfterEmission(c)
  BY <1>14 DEF AbortAfterEmission, Moved, Aborted
<1>15. CASE RetrySameAccount(c)
  BY <1>15 DEF RetrySameAccount, Moved, Hopped, RetriesAccount, Aborts
<1>16. CASE RetryRefused(c)
  BY <1>16, Leaving DEF RetryRefused, Moved, Hopped, Left, GaveUp, RetriesAccount, Aborts
<1>17. CASE TryNextAccount(c)
  BY <1>17 DEF TryNextAccount, Moved, Hopped, TriesAccounts, Aborts
<1>18. CASE TryNextCandidate(c)
  BY <1>18, Leaving DEF TryNextCandidate, Moved, Left
<1> QED BY <1>1, <1>2, <1>3, <1>4, <1>5, <1>6, <1>7, <1>8, <1>9, <1>10, <1>12, <1>13, <1>14, <1>15, <1>16,
           <1>17, <1>18 DEF CallStep

-----------------------------------------------------------------------------
(* The errors a call remembers *)

\* The last of the attempts at candidate k failed with e.
IsLast(c, k, e) ==
    \E i \in 1 .. used[c] : /\ asked[c][i].at = k /\ asked[c][i].error = e
                            /\ \A j \in 1 .. used[c] : asked[c][j].at = k => j <= i

First(c) == asked[c][1].at
OfPrimary(c) == order[c][First(c)].provider = order[c][1].provider

\* The errors that a call with stream remembers, until it returns.
StreamErrors(c) ==
    /\ used[c] = 0 => primaryErr[c] = NoError
    /\ used[c] > 0 /\ OfPrimary(c) /\ at[c] = First(c) => primaryErr[c] = NoError
    /\ used[c] > 0 /\ OfPrimary(c) /\ at[c] > First(c) => IsLast(c, First(c), primaryErr[c])
    /\ used[c] > 0 /\ ~OfPrimary(c) =>
         primaryErr[c] = NoError \/ (at[c] > Len(order[c]) /\ primaryErr[c] = Final(c))
    /\ pc[c] # "request" /\ primaryErr[c] = NoError =>
         lastErr[c] = IF used[c] = 0 THEN NoError ELSE Final(c)

\* Those of a call without: a candidate that was not asked counts as no provider.
PlainErrors(c) ==
    /\ at[c] = 1 => primaryErr[c] = NoError
    /\ at[c] > 1 => IF used[c] > 0 /\ First(c) = 1 THEN IsLast(c, 1, primaryErr[c])
                    ELSE /\ primaryErr[c] \in {NoError, Unavailable}
                         /\ Task(c).chain # <<>> => primaryErr[c] = Unavailable
    /\ pc[c] # "request" => inner[c] = IF used[c] > 0 /\ LastAt(c) = at[c] THEN Final(c) ELSE NoError
    /\ used[c] = 0 => lastErr[c] \in {NoError, Unavailable}
    /\ used[c] > 0 /\ LastAt(c) < at[c] /\ primaryErr[c] = NoError => lastErr[c] \in {Unavailable, Final(c)}

ErrorsKept(c) ==
    pc[c] \in {"candidate", "account", "claim", "request", "act"} =>
      IF Task(c).style.stream THEN StreamErrors(c) ELSE PlainErrors(c)

\* ErrorFounded, with the cause as an attempt and not as a choice among the attempts.
FoundedIn(c, e) ==
    \/ used[c] = 0 /\ e \in {LimitError, Unavailable}
    \/ used[c] > 0 /\ IF ~emitted[c] /\ OfPrimary(c) THEN IsLast(c, First(c), e) ELSE e = Final(c)
    \/ used[c] > 0 /\ ~Task(c).style.stream /\ First(c) # 1 /\ e = Unavailable

Returned(c) ==
    /\ result[c].kind # "none" => pc[c] = "done"
    /\ result[c].kind = "ok" => result[c].sound
    /\ result[c].kind = "error" => FoundedIn(c, result[c].error)

\* Nothing went wrong before a call began.
Idle(c) == pc[c] = "idle" => primaryErr[c] = NoError /\ lastErr[c] = NoError /\ inner[c] = NoError

CallInv(c) == Placed(c) /\ Trail(c) /\ ErrorsKept(c) /\ Returned(c) /\ Idle(c)

-----------------------------------------------------------------------------
(* Types of each step *)

LEMMA TypedInit == Init => Typed
  BY ModelCallAssumption, ErrorTypes DEF Init, Typed, Places, Known, ComboMaxHops

\* A call that begins has its candidates and nothing else.
LEMMA StepBegins ==
  ASSUME Typed, NEW c \in Calls, Begin(c)
  PROVE  /\ OrderOf(Task(c), order'[c]) /\ pc[c] = "idle" /\ pc'[c] = "candidate"
         /\ task' = task /\ Kept(c) /\ Unasked(c) /\ result' = result /\ attempt' = attempt /\ treeUsed' = treeUsed
<1>1. PICK b \in Bind(Task(c).cfg, Task(c).hard, Task(c).ask) :
        /\ ~b.failed
        /\ Task(c).chain # <<>> => BindCombo(Task(c).cfg, Task(c).chain) # <<>>
        /\ order' = [order EXCEPT ![c] = IF BindCombo(Task(c).cfg, Task(c).chain) # <<>>
                                         THEN BindCombo(Task(c).cfg, Task(c).chain)
                                         ELSE CandidatesOf(Task(c).cfg, b)]
  BY Zenon DEF Begin
<1>2. task[c] \in DOMAIN Tasks
  BY DEF Typed
<1>3. order'[c] = IF BindCombo(Task(c).cfg, Task(c).chain) # <<>>
                  THEN BindCombo(Task(c).cfg, Task(c).chain)
                  ELSE CandidatesOf(Task(c).cfg, b)
  BY <1>1 DEF Typed
<1>4. OrderOf(Task(c), order'[c])
  BY <1>1, <1>2, <1>3, BeginOrder DEF Task
<1>5. /\ pc[c] = "idle" /\ pc'[c] = "candidate" /\ task' = task /\ result' = result
      /\ Kept(c) /\ Unasked(c) /\ attempt' = attempt /\ treeUsed' = treeUsed
  BY DEF Begin, GoTo, Kept, Unasked, Typed
<1> QED BY <1>4, <1>5

LEMMA StepAttempt ==
  ASSUME Typed, NEW c \in Calls, CallStep(c)
  PROVE  attempt'[c] \in 0 .. 1 /\ treeUsed' \in Nat
<1> USE DEF Typed, local
<1>1. CASE UseAccount(c)
  BY <1>1 DEF UseAccount
<1>2. CASE RetrySameAccount(c)
  BY <1>2 DEF RetrySameAccount, RetriesAccount
<1>3. CASE Claim(c)
  BY <1>3 DEF Claim
<1>4. CASE StartCandidate(c) \/ SkipCandidate(c) \/ NoCandidateLeft(c) \/ SkipAccount(c) \/ NoAccountLeft(c)
           \/ NoAttemptLeft(c) \/ ClaimRefused(c) \/ Answered(c) \/ Refused(c) \/ Broken(c)
           \/ AbortAfterEmission(c) \/ RetryRefused(c) \/ TryNextAccount(c) \/ TryNextCandidate(c)
  <2>1. attempt' = attempt /\ treeUsed' = treeUsed
    BY <1>4, Zenon DEF StartCandidate, SkipCandidate, NoCandidateLeft, SkipAccount, NoAccountLeft, NoAttemptLeft,
       ClaimRefused, Answered, Refused, Broken, AbortAfterEmission, RetryRefused, TryNextAccount, TryNextCandidate
  <2> QED BY <2>1
<1> QED BY <1>1, <1>2, <1>3, <1>4 DEF CallStep

LEMMA PromotedTypes ==
  ASSUME Typed, NEW c \in Calls
  PROVE  /\ PromotedPrimary(c, lastErr[c]) \in Known /\ PromotedLast(c, lastErr[c]) \in Known
         /\ Observed(c) \in Known /\ PromotedPrimary(c, Observed(c)) \in Known
  BY ErrorTypes DEF Typed, Known, PromotedPrimary, PromotedLast, Observed

LEMMA NotedSeq ==
  ASSUME NEW s \in Seq([at : Nat, error : Known]), NEW k, NEW e \in Known
  PROVE  LET t == [s EXCEPT ![k].error = e]
         IN /\ t \in Seq([at : Nat, error : Known]) /\ Len(t) = Len(s)
            /\ \A i \in 1 .. Len(s) : t[i].at = s[i].at /\ t[i].error = IF i = k THEN e ELSE s[i].error
<1> DEFINE S == [at : Nat, error : Known]
           t == [s EXCEPT ![k].error = e]
<1>1. Len(s) \in Nat /\ DOMAIN s = 1 .. Len(s) /\ \A i \in 1 .. Len(s) : s[i] \in S
  <2>1. s \in Seq(S)
    OBVIOUS
  <2> HIDE DEF S
  <2> QED BY <2>1
<1>2. t = [i \in 1 .. Len(s) |-> IF i = k THEN [s[k] EXCEPT !.error = e] ELSE s[i]]
  BY <1>1
<1>3. \A i \in 1 .. Len(s) : t[i] \in S /\ t[i].at = s[i].at /\ t[i].error = IF i = k THEN e ELSE s[i].error
  <2> SUFFICES ASSUME NEW i \in 1 .. Len(s)
               PROVE  t[i] \in S /\ t[i].at = s[i].at /\ t[i].error = IF i = k THEN e ELSE s[i].error
    OBVIOUS
  <2>1. s[i] \in S
    BY <1>1
  <2>2. t[i] = IF i = k THEN [s[i] EXCEPT !.error = e] ELSE s[i]
    BY <1>2
  <2> HIDE DEF t
  <2> QED BY <2>1, <2>2
<1>4. t \in Seq(S) /\ Len(t) = Len(s)
  <2>1. DOMAIN t = 1 .. Len(s)
    BY <1>2
  <2>2. \A i \in 1 .. Len(s) : t[i] \in S
    BY <1>3
  <2>3. t = [i \in 1 .. Len(s) |-> t[i]]
    BY <1>2
  <2> HIDE DEF t, S
  <2> QED BY <1>1, <2>1, <2>2, <2>3
<1> QED BY <1>3, <1>4

LEMMA TypedMoves ==
  ASSUME Typed, NEW c \in Calls, Moved(c)
  PROVE  /\ pc'[c] \in Places /\ at'[c] \in Nat /\ used'[c] \in 0 .. ComboMaxHops
         /\ emitted'[c] \in BOOLEAN /\ inner'[c] \in ProviderErrors \cup {NoError}
         /\ primaryErr'[c] \in Known /\ lastErr'[c] \in Known /\ error'[c] \in Known
         /\ asked'[c] \in Seq([at : Nat, error : Known])
<1>1. ProviderErrors \subseteq Known /\ NoError \in Known
  BY ErrorTypes DEF Known
<1>2. /\ pc[c] \in Places /\ at[c] \in Nat /\ used[c] \in 0 .. ComboMaxHops
      /\ emitted[c] \in BOOLEAN /\ inner[c] \in ProviderErrors \cup {NoError}
      /\ primaryErr[c] \in Known /\ lastErr[c] \in Known /\ error[c] \in Known
      /\ asked[c] \in Seq([at : Nat, error : Known])
  BY DEF Typed
<1> USE <1>1, <1>2 DEF Kept, Unasked
<1>3. CASE Hopped(c) \/ Skipped(c) \/ RanOut(c) \/ Aborted(c)
  BY <1>3 DEF Hopped, Skipped, RanOut, Aborted, Places
<1>4. CASE Replied(c)
  BY <1>4 DEF Replied, Places
<1>5. CASE Left(c)
  BY <1>5, PromotedTypes DEF Left, LeftFor, Places
<1>6. CASE GaveUp(c)
  BY <1>6 DEF GaveUp, GaveUpWith, Places
<1>7. CASE Claimed(c)
  BY <1>7 DEF Claimed, ComboMaxHops, Places
<1>8. CASE Noted(c)
  <2>1. PICK e \in ProviderErrors : /\ error'[c] = e /\ asked'[c] = [asked[c] EXCEPT ![used[c]].error = e]
                                    /\ inner'[c] \in {e, inner[c]} /\ lastErr'[c] \in {e, lastErr[c]}
    BY <1>8 DEF Noted
  <2>2. asked'[c] \in Seq([at : Nat, error : Known])
    <3>1. [asked[c] EXCEPT ![used[c]].error = e] \in Seq([at : Nat, error : Known])
      BY <2>1, NotedSeq
    <3> QED BY <2>1, <3>1
  <2> QED BY <1>8, <2>1, <2>2 DEF Noted, Places
<1> QED BY <1>3, <1>4, <1>5, <1>6, <1>7, <1>8 DEF Moved

\* What is typed at the place that changes is typed.
LEMMA TypedAt ==
  ASSUME NEW S, NEW x \in [Calls -> S], NEW y, NEW c \in Calls, y = [x EXCEPT ![c] = y[c]], y[c] \in S
  PROVE  y \in [Calls -> S]
  OBVIOUS

LEMMA TableAt ==
  ASSUME NEW x, NEW y, NEW c \in Calls, x = [d \in Calls |-> x[d]], y = [x EXCEPT ![c] = y[c]]
  PROVE  y = [d \in Calls |-> y[d]]
  OBVIOUS

LEMMA TypedStep ==
  ASSUME Typed, NEW c \in Calls, Begin(c) \/ CallStep(c)
  PROVE  Typed'
<1>1. Others(c)
  BY StepOthers
<1>2. /\ pc'[c] \in Places /\ at'[c] \in Nat /\ used'[c] \in 0 .. ComboMaxHops
      /\ emitted'[c] \in BOOLEAN /\ inner'[c] \in ProviderErrors \cup {NoError}
      /\ primaryErr'[c] \in Known /\ lastErr'[c] \in Known /\ error'[c] \in Known
      /\ asked'[c] \in Seq([at : Nat, error : Known]) /\ attempt'[c] \in 0 .. 1 /\ treeUsed' \in Nat
  <2>1. CASE CallStep(c)
    BY <2>1, StepMoves, TypedMoves, StepAttempt
  <2>2. CASE Begin(c)
    BY <2>2, StepBegins DEF Typed, Kept, Unasked, Places
  <2> QED BY <2>1, <2>2
<1>3. task' \in [Calls -> DOMAIN Tasks]
  BY <1>1 DEF Others, Typed
<1>4. order' = [d \in Calls |-> order'[d]] /\ accounts' = [d \in Calls |-> accounts'[d]]
      /\ result' = [d \in Calls |-> result'[d]]
  <2>1. order' = [d \in Calls |-> order'[d]]
    BY <1>1, TableAt DEF Others, Typed
  <2>2. accounts' = [d \in Calls |-> accounts'[d]]
    BY <1>1, TableAt DEF Others, Typed
  <2>3. result' = [d \in Calls |-> result'[d]]
    BY <1>1, TableAt DEF Others, Typed
  <2> QED BY <2>1, <2>2, <2>3
<1>5. pc' \in [Calls -> Places] /\ at' \in [Calls -> Nat]
  BY <1>1, <1>2, TypedAt DEF Others, Typed
<1>6. attempt' \in [Calls -> 0 .. 1] /\ used' \in [Calls -> 0 .. ComboMaxHops]
  BY <1>1, <1>2, TypedAt DEF Others, Typed
<1>7. emitted' \in [Calls -> BOOLEAN] /\ inner' \in [Calls -> ProviderErrors \cup {NoError}]
  BY <1>1, <1>2, TypedAt DEF Others, Typed
<1>8. primaryErr' \in [Calls -> Known] /\ lastErr' \in [Calls -> Known] /\ error' \in [Calls -> Known]
  BY <1>1, <1>2, TypedAt DEF Others, Typed
<1>9. asked' \in [Calls -> Seq([at : Nat, error : Known])]
  <2> DEFINE S == Seq([at : Nat, error : Known])
  <2>1. asked \in [Calls -> S] /\ asked' = [asked EXCEPT ![c] = asked'[c]] /\ asked'[c] \in S
    BY <1>1, <1>2 DEF Others, Typed
  <2> HIDE DEF S
  <2>2. asked' \in [Calls -> S]
    BY <2>1, TypedAt
  <2> QED BY <2>2 DEF S
<1> QED BY <1>2, <1>3, <1>4, <1>5, <1>6, <1>7, <1>8, <1>9 DEF Typed

\* The invariant of a call that is left alone.
LEMMA CallStays ==
  ASSUME NEW d, CallInv(d), Fixed(d), Kept(d), Unasked(d), task' = task, pc'[d] = pc[d], result'[d] = result[d]
  PROVE  CallInv(d)'
<1> USE DEF Fixed, Kept, Unasked, Task, CallInv
<1>1. Placed(d)'
  BY DEF Placed, OrderOf, CanDispatch, Reserved
<1>2. Trail(d)'
  BY DEF Trail, LastAt, Final
<1>3. ErrorsKept(d)'
  BY DEF ErrorsKept, StreamErrors, PlainErrors, LastAt, Final, IsLast, First, OfPrimary
<1>4. Returned(d)'
  BY DEF Returned, FoundedIn, IsLast, First, OfPrimary, Final
<1>5. Idle(d)'
  BY DEF Idle
<1> QED BY <1>1, <1>2, <1>3, <1>4, <1>5

-----------------------------------------------------------------------------
(* The trail of each step *)

\* The values of a call.
LEMMA At ==
  ASSUME Typed, NEW c \in Calls
  PROVE  /\ pc[c] \in Places /\ at[c] \in Nat /\ used[c] \in Nat /\ used[c] <= ComboMaxHops
         /\ emitted[c] \in BOOLEAN /\ inner[c] \in ProviderErrors \cup {NoError}
         /\ primaryErr[c] \in Known /\ lastErr[c] \in Known /\ error[c] \in Known
         /\ asked[c] \in Seq([at : Nat, error : Known])
<1>1. used[c] \in 0 .. 3
  BY DEF Typed, ComboMaxHops
<1>2. used[c] \in Nat /\ used[c] <= ComboMaxHops
  BY <1>1 DEF ComboMaxHops
<1>3. /\ pc[c] \in Places /\ at[c] \in Nat /\ emitted[c] \in BOOLEAN /\ inner[c] \in ProviderErrors \cup {NoError}
      /\ primaryErr[c] \in Known /\ lastErr[c] \in Known /\ error[c] \in Known
  BY DEF Typed
<1>4. asked[c] \in Seq([at : Nat, error : Known])
  BY DEF Typed
<1> QED BY <1>2, <1>3, <1>4

\* A claim adds one attempt at the present candidate; what is noted is the error of the last one.
LEMMA ClaimedTrail ==
  ASSUME Typed, NEW c \in Calls, Trail(c), Claimed(c)
  PROVE  /\ Len(asked'[c]) = used'[c]
         /\ \A i \in 1 .. used[c] : asked'[c][i] = asked[c][i]
         /\ asked'[c][used'[c]].at = at[c] /\ asked'[c][used'[c]].error = NoError
<1>1. asked[c] \in Seq([at : Nat, error : Known]) /\ Len(asked[c]) = used[c] /\ used[c] \in Nat
  BY At DEF Trail
<1> DEFINE r == [at |-> at[c], error |-> NoError]
<1>2. r \in [at : Nat, error : Known]
  BY At DEF Known
<1>3. asked'[c] = Append(asked[c], r) /\ used'[c] = used[c] + 1
  BY DEF Claimed
<1>4. r.at = at[c] /\ r.error = NoError
  OBVIOUS
<1> HIDE DEF r
<1> QED BY <1>1, <1>2, <1>3, <1>4

LEMMA NotedTrail ==
  ASSUME Typed, NEW c \in Calls, Trail(c), Noted(c)
  PROVE  \E e \in ProviderErrors :
           /\ error'[c] = e /\ Len(asked'[c]) = used[c]
           /\ \A i \in 1 .. used[c] : asked'[c][i].at = asked[c][i].at
                                      /\ asked'[c][i].error = IF i = used[c] THEN e ELSE asked[c][i].error
           /\ IF Task(c).style.stream THEN lastErr'[c] = e /\ inner'[c] = inner[c]
              ELSE inner'[c] = e /\ lastErr'[c] = lastErr[c]
<1>1. asked[c] \in Seq([at : Nat, error : Known]) /\ Len(asked[c]) = used[c] /\ used[c] \in Nat
  BY At DEF Trail
<1>2. PICK e \in ProviderErrors :
           /\ error'[c] = e /\ asked'[c] = [asked[c] EXCEPT ![used[c]].error = e]
           /\ IF Task(c).style.stream THEN lastErr'[c] = e /\ inner'[c] = inner[c]
              ELSE inner'[c] = e /\ lastErr'[c] = lastErr[c]
  BY DEF Noted
<1> DEFINE t == [asked[c] EXCEPT ![used[c]].error = e]
<1>3. /\ Len(t) = Len(asked[c])
      /\ \A i \in 1 .. Len(asked[c]) : t[i].at = asked[c][i].at
                                       /\ t[i].error = IF i = used[c] THEN e ELSE asked[c][i].error
  BY <1>1, NotedSeq, ErrorTypes DEF Known
<1> QED BY <1>1, <1>2, <1>3

LEMMA PlacedMoves ==
  ASSUME Typed, NEW c \in Calls, Placed(c), Moved(c), task' = task
  PROVE  Placed(c)'
<1>1. pc[c] \in Places /\ at[c] \in Nat /\ Len(order[c]) \in Nat
  BY At DEF Placed, OrderOf
<1>2. order'[c] = order[c] /\ Task(c)' = Task(c)
  BY DEF Moved, Hopped, Skipped, RanOut, Left, GaveUp, Claimed, Replied, Noted, Aborted, Fixed, Task
<1>3. OrderOf(Task(c), order[c])' /\ Len(order'[c]) = Len(order[c])
  BY <1>2 DEF Placed, OrderOf
<1> USE <1>1, <1>2, <1>3 DEF Places, Placed, Kept, Unasked, CanDispatch, Reserved
<1>4. CASE Hopped(c)
  BY <1>4 DEF Hopped
<1>5. CASE Skipped(c) \/ RanOut(c) \/ Left(c) \/ GaveUp(c)
  BY <1>5 DEF Skipped, RanOut, Left, LeftFor, GaveUp, GaveUpWith
<1>6. CASE Claimed(c) \/ Replied(c) \/ Noted(c) \/ Aborted(c)
  BY <1>6 DEF Claimed, Replied, Noted, Aborted
<1> QED BY <1>4, <1>5, <1>6 DEF Moved

LEMMA TrailMoves ==
  ASSUME Typed, NEW c \in Calls, Placed(c), Trail(c), Moved(c), task' = task
  PROVE  Trail(c)'
<1>1. /\ pc[c] \in Places /\ at[c] \in Nat /\ at[c] >= 1 /\ Len(order[c]) \in Nat
      /\ used[c] \in Nat /\ used[c] <= 3 /\ emitted[c] \in BOOLEAN
  BY At DEF Placed, OrderOf, ComboMaxHops
<1>2. order'[c] = order[c] /\ Task(c)' = Task(c)
  BY DEF Moved, Hopped, Skipped, RanOut, Left, GaveUp, Claimed, Replied, Noted, Aborted, Fixed, Task
<1>3. \A i \in 1 .. used[c] : asked[c][i].at \in Nat
  BY <1>1 DEF Trail
<1>4. CASE Hopped(c) \/ Skipped(c) \/ RanOut(c) \/ Left(c) \/ GaveUp(c) \/ Replied(c) \/ Aborted(c)
  <2>1. used'[c] = used[c] /\ asked'[c] = asked[c] /\ error'[c] = error[c]
    BY <1>4 DEF Hopped, Skipped, RanOut, Left, GaveUp, Replied, Aborted, Unasked
  <2>2. at'[c] = at[c] \/ at'[c] = at[c] + 1
    BY <1>4 DEF Hopped, Skipped, RanOut, Left, LeftFor, GaveUp, GaveUpWith, Replied, Aborted, Kept
  <2>3. pc'[c] # "request" /\ pc'[c] # "act" /\ (pc[c] = "request" => pc'[c] = "done") /\ pc[c] # "done"
    BY <1>4 DEF Hopped, Skipped, RanOut, Left, LeftFor, GaveUp, GaveUpWith, Replied, Aborted
  <2>4. pc'[c] = "candidate" => at'[c] = at[c] + 1
    BY <1>4 DEF Hopped, Skipped, RanOut, Left, LeftFor, GaveUp, GaveUpWith, Replied, Aborted
  <2>5. emitted'[c] => Task(c).style.stream /\ pc'[c] \in {"act", "done"}
    <3>1. CASE Hopped(c) \/ Left(c) \/ GaveUp(c)
      BY <3>1 DEF Hopped, Left, LeftFor, GaveUp, GaveUpWith, Trail, Unasked, Aborts
    <3>2. CASE Skipped(c) \/ RanOut(c) \/ Aborted(c) \/ Replied(c)
      BY <3>2 DEF Skipped, RanOut, Aborted, Replied, Trail, Unasked
    <3> QED BY <1>4, <3>1, <3>2
  <2>6. /\ Len(asked'[c]) = used'[c]
        /\ \A i, j \in 1 .. used'[c] : i <= j => asked'[c][i].at <= asked'[c][j].at
        /\ Len(order'[c]) > 1 => \A i \in 1 .. used'[c] : asked'[c][i].at = 1 => i < ComboMaxHops
    BY <1>2, <2>1 DEF Trail
  <2>7. \A i \in 1 .. used[c] : /\ asked[c][i].at \in 1 .. at[c] /\ asked[c][i].at <= Len(order[c])
                               /\ asked[c][i].error \in ProviderErrors \cup {NoError}
                               /\ (asked[c][i].error = NoError => i = used[c] /\ pc[c] = "request")
    BY <2>3 DEF Trail
  <2>8. \A i \in 1 .. used'[c] : /\ asked'[c][i].at \in 1 .. at'[c] /\ asked'[c][i].at <= Len(order'[c])
                               /\ asked'[c][i].error \in ProviderErrors \cup {NoError}
                               /\ (asked'[c][i].error = NoError => i = used'[c] /\ pc'[c] \in {"request", "done"})
    BY <1>1, <1>2, <2>1, <2>2, <2>3, <2>7
  <2>9. pc'[c] = "candidate" => \A i \in 1 .. used'[c] : asked'[c][i].at < at'[c]
    BY <1>1, <2>1, <2>4, <2>7
  <2> QED BY <1>2, <2>3, <2>5, <2>6, <2>8, <2>9 DEF Trail
<1>5. CASE Claimed(c)
  <2>1. /\ Len(asked'[c]) = used'[c]
        /\ \A i \in 1 .. used[c] : asked'[c][i] = asked[c][i]
        /\ asked'[c][used'[c]].at = at[c] /\ asked'[c][used'[c]].error = NoError
    BY <1>5, ClaimedTrail
  <2>2. /\ used'[c] = used[c] + 1 /\ at'[c] = at[c] /\ pc[c] = "claim" /\ pc'[c] = "request"
        /\ used[c] < 3 /\ emitted'[c] = emitted[c]
    BY <1>5 DEF Claimed, Kept, ComboMaxHops
  <2>3. \A i \in 1 .. used'[c] : i = used'[c] \/ (i \in 1 .. used[c] /\ i # used'[c])
    BY <1>1, <2>2
  <2>4. at[c] <= Len(order[c]) /\ (at[c] = 1 /\ Len(order[c]) > 1 => used'[c] < 3)
    BY <1>1, <2>2 DEF Placed, CanDispatch, Reserved, ComboMaxHops
  <2>5. \A i \in 1 .. used[c] : asked[c][i].error \in ProviderErrors /\ asked[c][i].error # NoError
    BY <2>2 DEF Trail
  <2>6. \A i \in 1 .. used'[c] :
            /\ asked'[c][i].at \in 1 .. at'[c] /\ asked'[c][i].at <= Len(order'[c])
            /\ asked'[c][i].error \in ProviderErrors \cup {NoError}
            /\ (asked'[c][i].error = NoError => i = used'[c] /\ pc'[c] \in {"request", "done"})
            /\ (Len(order'[c]) > 1 /\ asked'[c][i].at = 1 => i < 3)
    <3> SUFFICES ASSUME NEW i \in 1 .. used'[c]
                 PROVE  /\ asked'[c][i].at \in 1 .. at'[c] /\ asked'[c][i].at <= Len(order'[c])
                        /\ asked'[c][i].error \in ProviderErrors \cup {NoError}
                        /\ (asked'[c][i].error = NoError => i = used'[c] /\ pc'[c] \in {"request", "done"})
                        /\ (Len(order'[c]) > 1 /\ asked'[c][i].at = 1 => i < 3)
      OBVIOUS
    <3>1. CASE i = used'[c]
      BY <1>1, <1>2, <2>1, <2>2, <2>4, <3>1
    <3>2. CASE i # used'[c]
      <4>1. i \in 1 .. used[c] /\ asked'[c][i] = asked[c][i]
        BY <2>1, <2>3, <3>2
      <4>2. /\ asked[c][i].at \in 1 .. at[c] /\ asked[c][i].at <= Len(order[c])
            /\ (Len(order[c]) > 1 /\ asked[c][i].at = 1 => i < 3)
        BY <4>1 DEF Trail, ComboMaxHops
      <4> QED BY <1>2, <2>2, <2>5, <4>1, <4>2
    <3> QED BY <3>1, <3>2
  <2>7. \A i, j \in 1 .. used'[c] : i <= j => asked'[c][i].at <= asked'[c][j].at
    <3> SUFFICES ASSUME NEW i \in 1 .. used'[c], NEW j \in 1 .. used'[c], i <= j
                 PROVE  asked'[c][i].at <= asked'[c][j].at
      OBVIOUS
    <3>1. CASE j = used'[c]
      BY <1>1, <2>1, <2>2, <2>6, <3>1
    <3>2. CASE j # used'[c]
      <4>1. i \in 1 .. used[c] /\ j \in 1 .. used[c]
        BY <1>1, <2>2, <3>2
      <4> QED BY <2>1, <4>1 DEF Trail
    <3> QED BY <3>1, <3>2
  <2>8. used'[c] > 0 /\ asked'[c][used'[c]].at = at'[c]
    BY <1>1, <2>1, <2>2
  <2>9. ~emitted'[c]
    BY <2>2 DEF Trail
  <2> QED BY <2>1, <2>2, <2>6, <2>7, <2>8, <2>9 DEF Trail, LastAt, Final, ComboMaxHops
<1>6. CASE Noted(c)
  <2>1. PICK e \in ProviderErrors :
           /\ error'[c] = e /\ Len(asked'[c]) = used[c]
           /\ \A i \in 1 .. used[c] : asked'[c][i].at = asked[c][i].at
                                      /\ asked'[c][i].error = IF i = used[c] THEN e ELSE asked[c][i].error
    BY <1>6, NotedTrail
  <2>2. /\ used'[c] = used[c] /\ at'[c] = at[c] /\ pc[c] = "request" /\ pc'[c] = "act"
        /\ (emitted'[c] => Task(c).style.stream)
    BY <1>6 DEF Noted, Trail
  <2>3. e # NoError
    BY ErrorTypes
  <2>4. used[c] > 0 /\ asked[c][used[c]].at = at[c] /\ used[c] \in 1 .. used[c]
    BY <1>1, <2>2 DEF Trail, LastAt
  <2>5. \A i \in 1 .. used[c] :
            /\ asked[c][i].at \in 1 .. at[c] /\ asked[c][i].at <= Len(order[c])
            /\ asked'[c][i].error \in ProviderErrors \cup {NoError} /\ asked'[c][i].error # NoError
    BY <2>1, <2>3 DEF Trail
  <2> QED BY <1>1, <1>2, <2>1, <2>2, <2>4, <2>5 DEF Trail, LastAt, Final
<1> QED BY <1>4, <1>5, <1>6 DEF Moved

-----------------------------------------------------------------------------
(* The errors of each step *)

Live == {"candidate", "account", "claim", "request", "act"}

\* What the trail says of the first and the last attempt, and of the errors while the call runs.
LEMMA TrailEnds ==
  ASSUME Typed, NEW c \in Calls, Placed(c), Trail(c), used[c] > 0
  PROVE  /\ First(c) \in Nat /\ LastAt(c) \in Nat
         /\ 1 <= First(c) /\ First(c) <= LastAt(c) /\ LastAt(c) <= at[c] /\ First(c) <= Len(order[c])
         /\ pc[c] = "candidate" => LastAt(c) < at[c]
         /\ pc[c] \in {"candidate", "account", "claim", "act"} =>
              Final(c) \in ProviderErrors /\ \A k, e : IsLast(c, k, e) => e \in ProviderErrors
         /\ IsLast(c, LastAt(c), Final(c))
<1>1. used[c] \in Nat /\ 1 \in 1 .. used[c] /\ used[c] \in 1 .. used[c] /\ at[c] \in Nat /\ Len(order[c]) \in Nat
  BY At DEF Placed, OrderOf
<1>2. \A i \in 1 .. used[c] : asked[c][i].at \in Nat /\ 1 <= asked[c][i].at /\ asked[c][i].at <= at[c]
                              /\ asked[c][i].at <= Len(order[c])
  BY <1>1 DEF Trail
<1>3. First(c) <= LastAt(c)
  BY <1>1 DEF Trail, First, LastAt
<1>4. pc[c] = "candidate" => LastAt(c) < at[c]
  BY <1>1 DEF Trail, LastAt
<1>5. pc[c] \in {"candidate", "account", "claim", "act"} => \A i \in 1 .. used[c] : asked[c][i].error \in ProviderErrors
  BY DEF Trail
<1>6. IsLast(c, LastAt(c), Final(c))
  BY <1>1 DEF IsLast, LastAt, Final
<1>7. pc[c] \in {"candidate", "account", "claim", "act"} =>
              Final(c) \in ProviderErrors /\ \A k, e : IsLast(c, k, e) => e \in ProviderErrors
  BY <1>1, <1>5 DEF Final, IsLast
<1> QED BY <1>1, <1>2, <1>3, <1>4, <1>6, <1>7 DEF First, LastAt

\* No candidate but the first is of the primary provider, but for the third of a chain.
LEMMA Primaries ==
  ASSUME Typed, NEW c \in Calls, Placed(c), NEW i \in 1 .. Len(order[c]),
         order[c][i].provider = order[c][1].provider, i # 1
  PROVE  Task(c).chain # <<>> /\ Len(order[c]) <= 3
<1>1. Len(order[c]) \in Nat /\ 1 \in 1 .. Len(order[c])
  BY DEF Placed, OrderOf
<1> QED BY <1>1 DEF Placed, OrderOf, ComboMaxHops

\* An attempt at another candidate leaves the last error of this one.
LEMMA LastStays ==
  ASSUME Typed, NEW c \in Calls, Trail(c), Claimed(c) \/ Noted(c), NEW k, k # at[c], NEW e, IsLast(c, k, e)
  PROVE  IsLast(c, k, e)'
<1>1. used[c] \in Nat
  BY At
<1>2. PICK i \in 1 .. used[c] : /\ asked[c][i].at = k /\ asked[c][i].error = e
                                /\ \A j \in 1 .. used[c] : asked[c][j].at = k => j <= i
  BY DEF IsLast
<1>3. CASE Claimed(c)
  <2>1. /\ \A j \in 1 .. used[c] : asked'[c][j] = asked[c][j]
        /\ asked'[c][used'[c]].at = at[c] /\ used'[c] = used[c] + 1
    BY <1>3, ClaimedTrail DEF Claimed
  <2>2. \A j \in 1 .. used'[c] : j \in 1 .. used[c] \/ j = used'[c]
    BY <1>1, <2>1
  <2>3. i \in 1 .. used'[c] /\ asked'[c][i].at = k /\ asked'[c][i].error = e
    BY <1>1, <1>2, <2>1
  <2>4. \A j \in 1 .. used'[c] : asked'[c][j].at = k => j <= i
    BY <1>2, <2>1, <2>2
  <2> QED BY <2>3, <2>4 DEF IsLast
<1>4. CASE Noted(c)
  <2>1. /\ used'[c] = used[c] /\ pc[c] = "request"
        /\ \A j \in 1 .. used[c] : asked'[c][j].at = asked[c][j].at
                                   /\ (j # used[c] => asked'[c][j].error = asked[c][j].error)
    BY <1>4, NotedTrail DEF Noted
  <2>2. i # used[c]
    BY <1>2, <2>1 DEF Trail, LastAt
  <2> QED BY <1>2, <2>1, <2>2 DEF IsLast
<1> QED BY <1>3, <1>4

LEMMA FirstStays ==
  ASSUME Typed, NEW c \in Calls, Trail(c), Claimed(c) \/ Noted(c)
  PROVE  /\ used'[c] > 0 /\ First(c)' = IF used[c] = 0 THEN at[c] ELSE First(c)
         /\ LastAt(c)' = at[c] /\ at'[c] = at[c] /\ order'[c] = order[c] /\ Task(c)' = Task(c)
<1>1. used[c] \in Nat
  BY At
<1>2. CASE Claimed(c)
  <2>1. /\ \A j \in 1 .. used[c] : asked'[c][j] = asked[c][j]
        /\ asked'[c][used'[c]].at = at[c] /\ used'[c] = used[c] + 1 /\ at'[c] = at[c]
        /\ order'[c] = order[c] /\ Task(c)' = Task(c)
    BY <1>2, ClaimedTrail DEF Claimed, Kept, Fixed, Task
  <2>2. used[c] # 0 => 1 \in 1 .. used[c]
    BY <1>1
  <2> QED BY <1>1, <2>1, <2>2 DEF First, LastAt
<1>3. CASE Noted(c)
  <2>1. /\ used'[c] = used[c] /\ pc[c] = "request" /\ at'[c] = at[c]
        /\ \A j \in 1 .. used[c] : asked'[c][j].at = asked[c][j].at
        /\ order'[c] = order[c] /\ Task(c)' = Task(c)
    BY <1>3, NotedTrail DEF Noted, Fixed, Task
  <2>2. used[c] > 0 /\ LastAt(c) = at[c] /\ 1 \in 1 .. used[c] /\ used[c] \in 1 .. used[c]
    BY <1>1, <2>1 DEF Trail
  <2> QED BY <2>1, <2>2 DEF First, LastAt
<1> QED BY <1>2, <1>3

LEMMA StreamMoves ==
  ASSUME Typed, NEW c \in Calls, Placed(c), Trail(c), Task(c).style.stream, StreamErrors(c), Moved(c), task' = task,
         pc[c] \in Live, pc'[c] \in Live
  PROVE  StreamErrors(c)'
<1>1. /\ at[c] \in Nat /\ used[c] \in Nat /\ Len(order[c]) \in Nat
  BY At DEF Placed, OrderOf
<1>2. order'[c] = order[c]
  BY DEF Moved, Hopped, Skipped, RanOut, Left, GaveUp, Claimed, Replied, Noted, Aborted, Fixed
<1>3. used[c] > 0 =>
         /\ First(c) \in Nat /\ First(c) >= 1 /\ LastAt(c) \in Nat
         /\ First(c) <= LastAt(c) /\ LastAt(c) <= at[c] /\ First(c) <= Len(order[c])
         /\ pc[c] = "candidate" => First(c) < at[c]
         /\ pc[c] # "request" => /\ Final(c) # NoError
                                 /\ \A k, e : IsLast(c, k, e) => e # NoError
         /\ IsLast(c, LastAt(c), Final(c))
  BY <1>1, TrailEnds, ErrorTypes DEF Live
<1>4. CASE Hopped(c)
  <2>1. /\ used'[c] = used[c] /\ asked'[c] = asked[c] /\ at'[c] = at[c]
        /\ primaryErr'[c] = primaryErr[c] /\ lastErr'[c] = lastErr[c] /\ pc[c] # "request" /\ pc'[c] # "request"
    BY <1>4 DEF Hopped, Unasked, Kept
  <2> QED BY <1>2, <2>1 DEF StreamErrors, OfPrimary, First, Final, IsLast
<1>5. CASE Skipped(c)
  <2>1. /\ used'[c] = used[c] /\ asked'[c] = asked[c] /\ at'[c] = at[c] + 1 /\ at[c] <= Len(order[c])
        /\ primaryErr'[c] = primaryErr[c] /\ lastErr'[c] = lastErr[c] /\ pc[c] = "candidate" /\ pc'[c] # "request"
    BY <1>5 DEF Skipped, Unasked
  <2>2. First(c)' = First(c) /\ (OfPrimary(c))' = OfPrimary(c) /\ Final(c)' = Final(c)
        /\ \A k, e : IsLast(c, k, e) => IsLast(c, k, e)'
    BY <1>2, <2>1 DEF OfPrimary, First, Final, IsLast
  <2> QED BY <1>1, <1>2, <1>3, <2>1, <2>2 DEF StreamErrors
<1>6. CASE Left(c)
  <2>1. /\ used'[c] = used[c] /\ asked'[c] = asked[c] /\ at'[c] = at[c] + 1
        /\ primaryErr'[c] = PromotedPrimary(c, lastErr[c]) /\ lastErr'[c] = PromotedLast(c, lastErr[c])
        /\ pc[c] # "request" /\ pc[c] # "candidate" /\ pc'[c] = "candidate"
    BY <1>6 DEF Left, LeftFor, Unasked
  <2>2. First(c)' = First(c) /\ (OfPrimary(c))' = OfPrimary(c) /\ Final(c)' = Final(c)
    BY <1>2, <2>1 DEF OfPrimary, First, Final
  <2>3. \A k, e : IsLast(c, k, e) => IsLast(c, k, e)'
    BY <2>1 DEF IsLast
  <2>4. at[c] <= Len(order[c]) /\ at[c] >= 1
    BY <2>1 DEF Placed, Live
  <2>5. CASE used[c] = 0
    <3>1. primaryErr'[c] = NoError /\ lastErr'[c] = NoError
      BY <2>1, <2>5 DEF StreamErrors, PromotedPrimary, PromotedLast
    <3> QED BY <2>1, <2>5, <3>1 DEF StreamErrors
  <2>6. CASE used[c] > 0 /\ OfPrimary(c) /\ at[c] = First(c)
    <3>1. primaryErr[c] = NoError /\ lastErr[c] = Final(c) /\ OnPrimary(c) /\ Final(c) # NoError
      BY <1>1, <1>3, <2>1, <2>6 DEF StreamErrors, OfPrimary, OnPrimary, Candidate
    <3>2. primaryErr'[c] = Final(c)
      BY <2>1, <3>1 DEF PromotedPrimary
    <3>3. IsLast(c, First(c), Final(c))
      BY <1>1, <1>3, <2>6
    <3> DEFINE k == First(c)
               e == Final(c)
    <3>4. IsLast(c, k, e)'
      BY <2>2, <2>3, <3>3
    <3>5. at'[c] > First(c)' /\ at'[c] # First(c)'
      BY <1>1, <2>1, <2>2, <2>6
    <3>6. IsLast(c, First(c), primaryErr[c])'
      BY <2>2, <3>2, <3>4
    <3> QED BY <2>1, <2>2, <2>6, <3>1, <3>2, <3>5, <3>6 DEF StreamErrors
  <2>7. CASE used[c] > 0 /\ OfPrimary(c) /\ at[c] > First(c)
    <3>1. IsLast(c, First(c), primaryErr[c]) /\ primaryErr[c] # NoError
      BY <1>3, <2>1, <2>7 DEF StreamErrors
    <3>2. primaryErr'[c] = primaryErr[c]
      BY <2>1, <3>1 DEF PromotedPrimary
    <3>3. IsLast(c, First(c), primaryErr[c])'
      BY <2>2, <2>3, <3>1, <3>2 DEF IsLast
    <3>4. at'[c] > First(c)' /\ at'[c] # First(c)'
      BY <1>1, <1>3, <2>1, <2>2, <2>7
    <3> QED BY <2>1, <2>2, <2>7, <3>1, <3>2, <3>3, <3>4 DEF StreamErrors
  <2>8. CASE used[c] > 0 /\ ~OfPrimary(c)
    <3>1. primaryErr[c] = NoError /\ lastErr[c] = Final(c) /\ Final(c) # NoError
      BY <1>1, <1>3, <2>1, <2>4, <2>8 DEF StreamErrors
    <3>2. CASE OnPrimary(c)
      <4>1. First(c) # 1 /\ First(c) # at[c] /\ at[c] # 1
        BY <1>3, <2>4, <2>8, <3>2 DEF OnPrimary, Candidate, OfPrimary
      <4>2. Len(order[c]) <= 3
        BY <1>1, <2>4, <3>2, <4>1, Primaries DEF OnPrimary, Candidate
      <4>3. at'[c] > Len(order[c])
        BY <1>1, <1>3, <2>1, <2>8, <4>1, <4>2
      <4>4. primaryErr'[c] = Final(c)
        BY <2>1, <3>1, <3>2 DEF PromotedPrimary
      <4> QED BY <1>2, <2>1, <2>2, <2>8, <3>1, <4>3, <4>4 DEF StreamErrors
    <3>3. CASE ~OnPrimary(c)
      <4>1. primaryErr'[c] = NoError /\ lastErr'[c] = Final(c)
        BY <2>1, <3>1, <3>3 DEF PromotedPrimary, PromotedLast
      <4> QED BY <2>1, <2>2, <2>8, <4>1 DEF StreamErrors
    <3> QED BY <3>2, <3>3
  <2> QED BY <1>1, <1>3, <2>5, <2>6, <2>7, <2>8
<1>7. CASE Claimed(c) \/ Noted(c)
  <2>1. /\ used'[c] > 0 /\ First(c)' = (IF used[c] = 0 THEN at[c] ELSE First(c))
        /\ at'[c] = at[c]
    BY <1>7, FirstStays
  <2>2. primaryErr'[c] = primaryErr[c] /\ at[c] <= Len(order[c])
    BY <1>7 DEF Claimed, Noted, Kept, Placed
  <2>3. used[c] > 0 => (OfPrimary(c)' <=> OfPrimary(c))
    BY <1>2, <2>1 DEF OfPrimary
  <2>4. used[c] = 0 \/ ~OfPrimary(c) \/ at[c] = First(c) => primaryErr[c] = NoError
    BY <1>1, <1>3, <2>2 DEF StreamErrors
  <2>5. ASSUME used'[c] > 0, OfPrimary(c)', at'[c] > First(c)'
        PROVE  IsLast(c, First(c), primaryErr[c])'
    <3>1. used[c] > 0 /\ First(c) # at[c] /\ OfPrimary(c) /\ First(c)' = First(c) /\ at[c] > First(c)
      <4>1. used[c] > 0
        BY <1>1, <2>1, <2>5
      <4> QED BY <1>3, <2>1, <2>3, <2>5, <4>1
    <3>2. IsLast(c, First(c), primaryErr[c])
      BY <3>1 DEF StreamErrors
    <3> DEFINE k == First(c)
               e == primaryErr[c]
    <3>3. IsLast(c, k, e) /\ k # at[c]
      BY <3>1, <3>2
    <3> HIDE DEF k, e
    <3>4. \E i \in 1 .. used'[c] : /\ asked'[c][i].at = k /\ asked'[c][i].error = e
                                   /\ \A j \in 1 .. used'[c] : asked'[c][j].at = k => j <= i
      BY <1>7, <3>3, LastStays DEF IsLast
    <3> QED BY <2>2, <3>1, <3>4 DEF IsLast, k, e
  <2>6. (pc[c] # "request" /\ primaryErr[c] = NoError)' => lastErr'[c] = Final(c)'
    <3>1. CASE Claimed(c)
      BY <3>1 DEF Claimed
    <3>2. CASE Noted(c)
      <4>1. /\ used'[c] = used[c] /\ used[c] \in 1 .. used[c]
        BY <1>1, <2>1, <3>2 DEF Noted
      <4>2. asked'[c][used[c]].error = lastErr'[c]
        BY <3>2, <4>1, NotedTrail
      <4> QED BY <4>1, <4>2 DEF Final
    <3> QED BY <1>7, <3>1, <3>2
  <2>7. (used[c] > 0 /\ OfPrimary(c) /\ at[c] = First(c))' => primaryErr'[c] = NoError
    BY <1>1, <1>3, <2>1, <2>2, <2>3, <2>4
  <2>8. (used[c] > 0 /\ ~OfPrimary(c))' => primaryErr'[c] = NoError
    BY <1>1, <2>2, <2>3, <2>4
  <2> QED BY <1>1, <2>1, <2>5, <2>6, <2>7, <2>8 DEF StreamErrors
<1>8. CASE RanOut(c) \/ GaveUp(c) \/ Replied(c) \/ Aborted(c)
  BY <1>8 DEF RanOut, GaveUp, GaveUpWith, Replied, Aborted, Live
<1> QED BY <1>4, <1>5, <1>6, <1>7, <1>8 DEF Moved

LEMMA PlainMoves ==
  ASSUME Typed, NEW c \in Calls, Placed(c), Trail(c), ~Task(c).style.stream, PlainErrors(c), Moved(c), task' = task,
         pc[c] \in Live, pc'[c] \in Live
  PROVE  PlainErrors(c)'
<1>1. /\ at[c] \in Nat /\ at[c] >= 1 /\ used[c] \in Nat /\ Len(order[c]) \in Nat
  BY At DEF Placed, OrderOf
<1>2. order'[c] = order[c] /\ Task(c)' = Task(c)
  BY DEF Moved, Hopped, Skipped, RanOut, Left, GaveUp, Claimed, Replied, Noted, Aborted, Fixed, Task
<1>3. used[c] > 0 =>
         /\ First(c) \in Nat /\ First(c) >= 1 /\ LastAt(c) \in Nat
         /\ First(c) <= LastAt(c) /\ LastAt(c) <= at[c] /\ First(c) <= Len(order[c])
         /\ pc[c] = "candidate" => LastAt(c) < at[c]
         /\ pc[c] # "request" => /\ Final(c) # NoError
                                 /\ \A k, e : IsLast(c, k, e) => e # NoError
         /\ IsLast(c, LastAt(c), Final(c))
  BY <1>1, TrailEnds, ErrorTypes DEF Live
<1>4. Unavailable # NoError
  BY ErrorTypes
<1>5. CASE Hopped(c)
  <2>1. /\ used'[c] = used[c] /\ asked'[c] = asked[c] /\ at'[c] = at[c] /\ inner'[c] = inner[c]
        /\ primaryErr'[c] = primaryErr[c] /\ lastErr'[c] = lastErr[c] /\ pc[c] # "request" /\ pc'[c] # "request"
    BY <1>5 DEF Hopped, Unasked, Kept
  <2> QED BY <1>2, <2>1 DEF PlainErrors, First, LastAt, Final, IsLast
<1>6. CASE Skipped(c)
  <2>1. /\ used'[c] = used[c] /\ asked'[c] = asked[c] /\ at'[c] = at[c] + 1 /\ Task(c).chain = <<>>
        /\ primaryErr'[c] = primaryErr[c] /\ lastErr'[c] = lastErr[c] /\ inner'[c] = inner[c]
        /\ pc[c] = "candidate" /\ pc'[c] # "request"
    BY <1>6 DEF Skipped, Unasked
  <2>2. First(c)' = First(c) /\ LastAt(c)' = LastAt(c) /\ Final(c)' = Final(c)
    BY <2>1 DEF First, LastAt, Final
  <2>3. IsLast(c, 1, primaryErr[c]) => IsLast(c, 1, primaryErr[c])'
    BY <2>1 DEF IsLast
  <2>4. used[c] > 0 => LastAt(c) < at[c]
    BY <1>3, <2>1
  <2>5. at[c] = 1 => used[c] = 0
    BY <1>1, <1>3, <2>4
  <2>6. inner[c] = NoError
    BY <1>1, <1>3, <2>1, <2>4 DEF PlainErrors
  <2>7. at'[c] > 1 /\ (used[c] > 0 => LastAt(c) # at'[c] /\ LastAt(c) < at'[c])
    BY <1>1, <1>3, <2>1, <2>4
  <2> QED BY <1>1, <1>2, <2>1, <2>2, <2>3, <2>4, <2>5, <2>6, <2>7 DEF PlainErrors
<1>7. CASE Left(c)
  <2>1. /\ used'[c] = used[c] /\ asked'[c] = asked[c] /\ at'[c] = at[c] + 1 /\ inner'[c] = NoError
        /\ primaryErr'[c] = PromotedPrimary(c, Observed(c))
        /\ lastErr'[c] = IF OnPrimary(c) /\ primaryErr[c] = NoError THEN lastErr[c] ELSE Observed(c)
        /\ pc[c] # "request" /\ pc[c] # "candidate" /\ pc'[c] = "candidate"
    BY <1>7 DEF Left, LeftFor, Unasked
  <2>2. First(c)' = First(c) /\ LastAt(c)' = LastAt(c) /\ Final(c)' = Final(c)
    BY <2>1 DEF First, LastAt, Final
  <2>3. \A e : IsLast(c, 1, e) => IsLast(c, 1, e)'
    BY <2>1 DEF IsLast
  <2>4. at[c] <= Len(order[c])
    BY <2>1 DEF Placed, Live
  <2>5. at'[c] > 1 /\ at'[c] # 1 /\ (used[c] > 0 => LastAt(c) # at'[c] /\ LastAt(c) < at'[c])
    BY <1>1, <1>3, <2>1
  <2>6. Observed(c) = IF used[c] > 0 /\ LastAt(c) = at[c] THEN Final(c) ELSE Unavailable
    BY <1>3, <1>4, <2>1 DEF Observed, PlainErrors
  <2>7. Observed(c) # NoError
    BY <1>3, <1>4, <2>1, <2>6
  <2>8. CASE at[c] = 1
    <3>1. OnPrimary(c) /\ primaryErr[c] = NoError
      BY <2>8 DEF OnPrimary, Candidate, PlainErrors
    <3>2. primaryErr'[c] = Observed(c) /\ lastErr'[c] = lastErr[c]
      BY <2>1, <2>7, <3>1 DEF PromotedPrimary
    <3>3. CASE used[c] > 0
      <4>1. First(c) = 1 /\ LastAt(c) = 1
        BY <1>3, <2>8, <3>3
      <4>2. IsLast(c, 1, Final(c)) /\ Observed(c) = Final(c)
        BY <1>3, <2>6, <2>8, <3>3, <4>1
      <4> DEFINE e == Final(c)
      <4>3. IsLast(c, 1, e)'
        BY <2>2, <2>3, <4>2
      <4>4. IsLast(c, 1, primaryErr[c])'
        BY <2>2, <3>2, <4>2, <4>3 DEF IsLast
      <4> QED BY <2>1, <2>2, <2>5, <2>7, <3>2, <3>3, <4>1, <4>4 DEF PlainErrors
    <3>4. CASE ~(used[c] > 0)
      <4>1. primaryErr'[c] = Unavailable /\ used[c] = 0
        BY <1>1, <2>6, <3>2, <3>4
      <4> QED BY <2>1, <2>5, <3>2, <4>1 DEF PlainErrors
    <3> QED BY <3>3, <3>4
  <2>9. CASE at[c] # 1 /\ used[c] > 0 /\ First(c) = 1
    <3>1. at[c] > 1
      BY <1>1, <2>9
    <3>2. IsLast(c, 1, primaryErr[c]) /\ primaryErr[c] # NoError
      BY <1>3, <2>1, <2>9, <3>1 DEF PlainErrors
    <3>3. primaryErr'[c] = primaryErr[c]
      BY <2>1, <3>2 DEF PromotedPrimary
    <3>4. IsLast(c, 1, primaryErr[c])'
      BY <2>3, <3>2, <3>3 DEF IsLast
    <3> QED BY <2>1, <2>2, <2>5, <2>9, <3>2, <3>3, <3>4 DEF PlainErrors
  <2>10. CASE at[c] # 1 /\ ~(used[c] > 0 /\ First(c) = 1)
    <3>1. at[c] > 1
      BY <1>1, <2>10
    <3>2. primaryErr[c] \in {NoError, Unavailable} /\ (Task(c).chain # <<>> => primaryErr[c] = Unavailable)
      BY <2>10, <3>1 DEF PlainErrors
    <3>3. primaryErr'[c] = primaryErr[c] /\ lastErr'[c] = Observed(c)
      <4>1. CASE primaryErr[c] = NoError
        <5>1. Task(c).chain = <<>> /\ at[c] \in 1 .. Len(order[c])
          BY <1>1, <1>4, <2>4, <3>2, <4>1
        <5>2. ~OnPrimary(c)
          BY <2>10, <5>1, Primaries DEF OnPrimary, Candidate
        <5> QED BY <2>1, <4>1, <5>2 DEF PromotedPrimary
      <4>2. CASE primaryErr[c] # NoError
        BY <2>1, <4>2 DEF PromotedPrimary
      <4> QED BY <4>1, <4>2
    <3>4. used[c] = 0 => lastErr'[c] = Unavailable
      BY <2>6, <3>3
    <3>5. lastErr'[c] \in {Unavailable, Final(c)}
      BY <2>6, <3>3
    <3> QED BY <1>2, <2>1, <2>2, <2>5, <2>10, <3>2, <3>3, <3>4, <3>5 DEF PlainErrors
  <2> QED BY <2>8, <2>9, <2>10
<1>8. CASE Claimed(c) \/ Noted(c)
  <2>1. /\ used'[c] > 0 /\ First(c)' = (IF used[c] = 0 THEN at[c] ELSE First(c))
        /\ at'[c] = at[c] /\ LastAt(c)' = at[c]
    BY <1>8, FirstStays
  <2>2. primaryErr'[c] = primaryErr[c]
    BY <1>8 DEF Claimed, Noted, Kept
  <2>3. IsLast(c, 1, primaryErr[c]) /\ at[c] > 1 => IsLast(c, 1, primaryErr[c])'
    <3> DEFINE e == primaryErr[c]
    <3> SUFFICES ASSUME IsLast(c, 1, e), at[c] > 1 PROVE IsLast(c, 1, primaryErr[c])'
      OBVIOUS
    <3>1. primaryErr'[c] = e
      BY <2>2
    <3> HIDE DEF e
    <3>2. 1 # at[c]
      BY <1>1
    <3>3. \E i \in 1 .. used'[c] : /\ asked'[c][i].at = 1 /\ asked'[c][i].error = e
                                   /\ \A j \in 1 .. used'[c] : asked'[c][j].at = 1 => j <= i
      BY <1>8, <3>2, LastStays DEF IsLast
    <3> QED BY <3>1, <3>3 DEF IsLast
  <2>4. pc'[c] # "request" => inner'[c] = Final(c)'
    <3>1. CASE Claimed(c)
      BY <3>1 DEF Claimed
    <3>2. CASE Noted(c)
      <4>1. /\ used'[c] = used[c] /\ used[c] \in 1 .. used[c]
        BY <1>1, <2>1, <3>2 DEF Noted
      <4>2. asked'[c][used[c]].error = inner'[c]
        BY <3>2, <4>1, NotedTrail
      <4> QED BY <4>1, <4>2 DEF Final
    <3> QED BY <1>8, <3>1, <3>2
  <2>5. at'[c] = 1 => primaryErr'[c] = NoError
    BY <2>1, <2>2 DEF PlainErrors
  <2>6. at'[c] > 1 => IF used'[c] > 0 /\ First(c)' = 1 THEN IsLast(c, 1, primaryErr[c])'
                      ELSE /\ primaryErr'[c] \in {NoError, Unavailable}
                           /\ Task(c).chain # <<>> => primaryErr'[c] = Unavailable
    <3> SUFFICES ASSUME at[c] > 1
                 PROVE  IF First(c)' = 1 THEN IsLast(c, 1, primaryErr[c])'
                        ELSE /\ primaryErr[c] \in {NoError, Unavailable}
                             /\ Task(c).chain # <<>> => primaryErr[c] = Unavailable
      BY <2>1, <2>2
    <3>1. CASE used[c] = 0
      BY <1>1, <2>1, <3>1 DEF PlainErrors
    <3>2. CASE used[c] > 0
      BY <1>1, <2>1, <2>3, <3>2 DEF PlainErrors
    <3> QED BY <1>1, <3>1, <3>2
  <2>7. ~(LastAt(c)' < at'[c]) /\ used'[c] # 0
    BY <1>1, <2>1
  <2> QED BY <1>2, <2>1, <2>4, <2>5, <2>6, <2>7 DEF PlainErrors
<1>9. CASE RanOut(c) \/ GaveUp(c) \/ Replied(c) \/ Aborted(c)
  BY <1>9 DEF RanOut, GaveUp, GaveUpWith, Replied, Aborted, Live
<1> QED BY <1>5, <1>6, <1>7, <1>8, <1>9 DEF Moved

\* What a call returns when it gives up: the error it remembers is the cause.
LEMMA GivesCause ==
  ASSUME Typed, NEW c \in Calls, Placed(c), Trail(c), ErrorsKept(c), pc[c] \in {"candidate", "account", "claim", "act"},
         pc[c] # "candidate" => at[c] <= Len(order[c]), pc[c] = "candidate" => at[c] > Len(order[c]),
         ~emitted[c], Task(c).style.stream \/ inner[c] = NoError
  PROVE  /\ primaryErr[c] # NoError => FoundedIn(c, primaryErr[c])
         /\ primaryErr[c] = NoError /\ lastErr[c] # NoError => FoundedIn(c, lastErr[c])
         /\ primaryErr[c] = NoError /\ lastErr[c] = NoError =>
               \A e \in {LimitError, Unavailable} : FoundedIn(c, e)
<1>1. /\ at[c] \in Nat /\ at[c] >= 1 /\ used[c] \in Nat /\ Len(order[c]) \in Nat
  BY At DEF Placed, OrderOf
<1>2. used[c] > 0 =>
         /\ First(c) \in Nat /\ First(c) >= 1 /\ LastAt(c) \in Nat
         /\ First(c) <= LastAt(c) /\ LastAt(c) <= at[c] /\ First(c) <= Len(order[c])
         /\ pc[c] = "candidate" => LastAt(c) < at[c]
         /\ Final(c) # NoError
         /\ \A k, e : IsLast(c, k, e) => e # NoError
         /\ IsLast(c, LastAt(c), Final(c))
  BY <1>1, TrailEnds, ErrorTypes
<1>3. Unavailable # NoError /\ LimitError # NoError
  BY ErrorTypes
<1>4. CASE Task(c).style.stream
  <2>1. StreamErrors(c)
    BY <1>4 DEF ErrorsKept
  <2>2. CASE used[c] = 0
    BY <1>3, <2>1, <2>2 DEF StreamErrors, FoundedIn
  <2>3. CASE used[c] > 0 /\ OfPrimary(c) /\ at[c] = First(c)
    <3>1. LastAt(c) = First(c) /\ primaryErr[c] = NoError /\ lastErr[c] = Final(c)
      BY <1>1, <1>2, <2>1, <2>3 DEF StreamErrors
    <3> QED BY <1>2, <2>3, <3>1 DEF FoundedIn
  <2>4. CASE used[c] > 0 /\ OfPrimary(c) /\ at[c] > First(c)
    <3>1. IsLast(c, First(c), primaryErr[c]) /\ primaryErr[c] # NoError
      BY <1>2, <2>1, <2>4 DEF StreamErrors
    <3> QED BY <2>4, <3>1 DEF FoundedIn
  <2>5. CASE used[c] > 0 /\ ~OfPrimary(c)
    <3>1. /\ primaryErr[c] # NoError => primaryErr[c] = Final(c)
          /\ primaryErr[c] = NoError => lastErr[c] = Final(c)
      BY <1>1, <2>1, <2>5 DEF StreamErrors
    <3> QED BY <1>2, <2>5, <3>1 DEF FoundedIn
  <2> QED BY <1>1, <1>2, <2>2, <2>3, <2>4, <2>5
<1>5. CASE ~Task(c).style.stream
  <2>1. PlainErrors(c) /\ inner[c] = NoError
    BY <1>5 DEF ErrorsKept
  <2>2. used[c] > 0 => LastAt(c) < at[c]
    BY <1>1, <1>2, <2>1 DEF PlainErrors
  <2>3. CASE used[c] = 0
    <3>1. lastErr[c] \in {NoError, Unavailable} /\ primaryErr[c] \in {NoError, Unavailable}
      BY <1>1, <2>1, <2>3 DEF PlainErrors
    <3> QED BY <1>3, <2>3, <3>1 DEF FoundedIn
  <2>4. CASE used[c] > 0 /\ First(c) = 1
    <3>1. IsLast(c, 1, primaryErr[c]) /\ primaryErr[c] # NoError /\ OfPrimary(c)
      BY <1>1, <1>2, <2>1, <2>2, <2>4 DEF PlainErrors, OfPrimary
    <3> QED BY <2>4, <3>1 DEF FoundedIn
  <2>5. CASE used[c] > 0 /\ First(c) # 1
    <3>1. at[c] > 1
      BY <1>1, <1>2, <2>2, <2>5
    <3>2. primaryErr[c] \in {NoError, Unavailable} /\ (Task(c).chain # <<>> => primaryErr[c] = Unavailable)
      BY <2>1, <2>5, <3>1 DEF PlainErrors
    <3>3. CASE primaryErr[c] = Unavailable
      BY <1>3, <1>5, <2>5, <3>3 DEF FoundedIn
    <3>4. CASE primaryErr[c] = NoError
      <4>1. lastErr[c] \in {Unavailable, Final(c)} /\ lastErr[c] # NoError
        BY <1>2, <1>3, <2>1, <2>2, <2>5, <3>4 DEF PlainErrors
      <4>2. ~OfPrimary(c)
        <5>1. First(c) \in 1 .. Len(order[c]) /\ Task(c).chain = <<>>
          BY <1>1, <1>2, <1>3, <2>5, <3>2, <3>4
        <5> QED BY <2>5, <5>1, Primaries DEF OfPrimary
      <4> QED BY <1>5, <2>5, <3>4, <4>1, <4>2 DEF FoundedIn
    <3> QED BY <3>2, <3>3, <3>4
  <2> QED BY <1>1, <2>3, <2>4, <2>5
<1> QED BY <1>4, <1>5

-----------------------------------------------------------------------------
(* What each step returns *)

LEMMA ReturnedMoves ==
  ASSUME Typed, NEW c \in Calls, CallInv(c), Moved(c), task' = task
  PROVE  Returned(c)'
<1>1. Placed(c) /\ Trail(c) /\ ErrorsKept(c) /\ Returned(c)
  BY DEF CallInv
<1>2. CASE Hopped(c) \/ Skipped(c) \/ Left(c) \/ Claimed(c) \/ Noted(c)
  <2>1. result'[c] = result[c] /\ pc[c] # "done"
    BY <1>2 DEF Hopped, Skipped, Left, LeftFor, Claimed, Noted
  <2>2. result'[c].kind = "none"
    BY <1>1, <2>1 DEF Returned
  <2> QED BY <2>2 DEF Returned
<1>3. CASE Replied(c)
  BY <1>3 DEF Replied, Returned
<1>4. ASSUME NEW e, result'[c] = Failed(e), FoundedIn(c, e), Unasked(c), Fixed(c), pc'[c] = "done"
      PROVE  Returned(c)'
  <2>1. result'[c].kind = "error" /\ result'[c].error = e
    BY <1>4 DEF Failed
  <2>2. used'[c] = used[c] /\ asked'[c] = asked[c] /\ emitted'[c] = emitted[c] /\ order'[c] = order[c]
    BY <1>4 DEF Unasked, Fixed
  <2>3. FoundedIn(c, result[c].error)'
    BY <1>4, <2>1, <2>2 DEF FoundedIn, OfPrimary, IsLast, First, Final, Task
  <2> QED BY <1>4, <2>1, <2>3 DEF Returned
<1>5. CASE RanOut(c)
  <2>1. ~emitted[c] /\ (Task(c).style.stream \/ inner[c] = NoError)
    <3>1. pc[c] = "candidate" /\ ~emitted[c]
      BY <1>1, <1>5 DEF RanOut, Trail
    <3>2. CASE ~Task(c).style.stream
      <4>1. inner[c] = IF used[c] > 0 /\ LastAt(c) = at[c] THEN Final(c) ELSE NoError
        BY <1>1, <3>1, <3>2 DEF ErrorsKept, PlainErrors
      <4>2. used[c] > 0 => LastAt(c) # at[c]
        BY <1>1, <3>1, TrailEnds, At
      <4> QED BY <3>1, <4>1, <4>2
    <3> QED BY <3>1, <3>2
  <2>2. PICK e : /\ result'[c] = Failed(e)
                 /\ e = IF primaryErr[c] # NoError THEN primaryErr[c]
                        ELSE IF lastErr[c] # NoError THEN lastErr[c] ELSE Unavailable
    BY <1>5 DEF RanOut
  <2>3. FoundedIn(c, e)
    BY <1>1, <1>5, <2>1, <2>2, GivesCause DEF RanOut
  <2> QED BY <1>4, <1>5, <2>2, <2>3 DEF RanOut
<1>6. CASE GaveUp(c)
  <2>1. ~emitted[c] /\ at[c] <= Len(order[c])
    BY <1>1, <1>6 DEF GaveUp, Trail, Placed, Aborts
  <2>2. PICK e : /\ result'[c] = Failed(e)
                 /\ e = IF primaryErr[c] # NoError THEN primaryErr[c]
                        ELSE IF lastErr[c] # NoError THEN lastErr[c] ELSE LimitError
    BY <1>6 DEF GaveUp, GaveUpWith, LimitOrObserved
  <2>3. FoundedIn(c, e)
    BY <1>1, <1>6, <2>1, <2>2, GivesCause DEF GaveUp, GaveUpWith
  <2> QED BY <1>4, <1>6, <2>2, <2>3 DEF GaveUp, GaveUpWith
<1>7. CASE Aborted(c)
  <2>1. /\ used[c] > 0 /\ emitted[c] /\ error[c] = Final(c)
    BY <1>1, <1>7 DEF Aborted, Aborts, Trail
  <2>2. FoundedIn(c, error[c])
    BY <2>1 DEF FoundedIn
  <2> QED BY <1>4, <1>7, <2>2 DEF Aborted
<1> QED BY <1>2, <1>3, <1>5, <1>6, <1>7 DEF Moved

LEMMA CallMoves ==
  ASSUME Typed, NEW c \in Calls, CallInv(c), Moved(c), task' = task
  PROVE  CallInv(c)'
<1>1. Placed(c) /\ Trail(c) /\ ErrorsKept(c) /\ Returned(c)
  BY DEF CallInv
<1>2. Task(c)' = Task(c)
  BY DEF Task
<1>3. pc'[c] \in Live => pc[c] \in Live
  BY DEF Moved, Hopped, Skipped, RanOut, Left, LeftFor, GaveUp, GaveUpWith, Claimed, Replied, Noted, Aborted, Live
<1>4. ErrorsKept(c)'
  <2> SUFFICES ASSUME pc'[c] \in Live
               PROVE  IF Task(c).style.stream THEN StreamErrors(c)' ELSE PlainErrors(c)'
    BY <1>2 DEF ErrorsKept, Live
  <2>1. CASE Task(c).style.stream
    BY <1>1, <1>3, <2>1, StreamMoves DEF ErrorsKept, Live
  <2>2. CASE ~Task(c).style.stream
    BY <1>1, <1>3, <2>2, PlainMoves DEF ErrorsKept, Live
  <2> QED BY <2>1, <2>2
<1>5. Placed(c)' /\ Trail(c)' /\ Returned(c)'
  BY <1>1, PlacedMoves, TrailMoves, ReturnedMoves
<1>6. pc'[c] # "idle"
  BY DEF Moved, Hopped, Skipped, RanOut, Left, LeftFor, GaveUp, GaveUpWith, Claimed, Replied, Noted, Aborted
<1> QED BY <1>4, <1>5, <1>6 DEF CallInv, Idle

LEMMA CallBegins ==
  ASSUME Typed, NEW c \in Calls, CallInv(c), Begin(c)
  PROVE  CallInv(c)'
<1>1. /\ OrderOf(Task(c), order'[c]) /\ pc[c] = "idle" /\ pc'[c] = "candidate"
      /\ task' = task /\ Kept(c) /\ Unasked(c) /\ result' = result
  BY StepBegins
<1>2. /\ at'[c] = 1 /\ used'[c] = 0 /\ asked'[c] = asked[c] /\ used[c] = 0 /\ Len(order'[c]) \in Nat
      /\ Len(asked[c]) = 0
  BY <1>1 DEF CallInv, Placed, Trail, Kept, Unasked, OrderOf
<1>3. Task(c)' = Task(c) /\ OrderOf(Task(c), order[c])'
  BY <1>1 DEF Task, OrderOf
<1>4. Placed(c)'
  BY <1>1, <1>2, <1>3 DEF Placed
<1>5. Trail(c)'
  <2>1. \A i : i \notin 1 .. 0
    OBVIOUS
  <2> QED BY <1>1, <1>2, <2>1 DEF CallInv, Trail, Unasked
<1>6. primaryErr'[c] = NoError /\ lastErr'[c] = NoError /\ inner'[c] = NoError
  BY <1>1 DEF CallInv, Idle, Kept
<1>7. ErrorsKept(c)'
  BY <1>1, <1>2, <1>6 DEF ErrorsKept, StreamErrors, PlainErrors
<1>8. Returned(c)'
  BY <1>1 DEF CallInv, Returned
<1> QED BY <1>1, <1>4, <1>5, <1>7, <1>8 DEF CallInv, Idle

-----------------------------------------------------------------------------
(* The invariant *)

Inv == Typed /\ \A c \in Calls : CallInv(c)

LEMMA InvInit == Init => Inv
<1> SUFFICES ASSUME Init PROVE Inv
  OBVIOUS
<1>1. Typed
  BY TypedInit
<1>2. ASSUME NEW c \in Calls PROVE CallInv(c)
  <2>1. /\ order[c] = <<>> /\ pc[c] = "idle" /\ at[c] = 1 /\ used[c] = 0 /\ emitted[c] = FALSE
        /\ inner[c] = NoError /\ primaryErr[c] = NoError /\ lastErr[c] = NoError
        /\ result[c] = NoResult /\ asked[c] = <<>>
    BY DEF Init
  <2>2. Len(order[c]) = 0 /\ DOMAIN order[c] = 1 .. 0 /\ Len(asked[c]) = 0 /\ \A i : i \notin 1 .. 0
    <3>1. <<>> \in Seq({})
      OBVIOUS
    <3> QED BY <2>1, <3>1
  <2>3. OrderOf(Task(c), order[c])
    BY <2>2 DEF OrderOf, ComboMaxHops
  <2>4. Placed(c)
    BY <2>1, <2>2, <2>3 DEF Placed
  <2>5. Trail(c)
    BY <2>1, <2>2 DEF Trail
  <2>6. ErrorsKept(c) /\ Returned(c) /\ Idle(c)
    BY <2>1 DEF ErrorsKept, Returned, Idle, NoResult
  <2> QED BY <2>4, <2>5, <2>6 DEF CallInv
<1> QED BY <1>1, <1>2 DEF Inv

LEMMA InvStep == Inv /\ [Next]_vars => Inv'
<1> SUFFICES ASSUME Inv, [Next]_vars PROVE Inv'
  OBVIOUS
<1>1. CASE UNCHANGED vars
  <2>1. Typed'
    BY <1>1 DEF Inv, Typed, vars
  <2>2. ASSUME NEW d \in Calls PROVE CallInv(d)'
    <3>1. Fixed(d) /\ Kept(d) /\ Unasked(d) /\ task' = task /\ pc'[d] = pc[d] /\ result'[d] = result[d]
      BY <1>1 DEF vars, Fixed, Kept, Unasked
    <3> QED BY <3>1, CallStays DEF Inv
  <2> QED BY <2>1, <2>2 DEF Inv
<1>2. ASSUME NEW c \in Calls, Begin(c) \/ CallStep(c) PROVE Inv'
  <2>1. Typed /\ Typed' /\ Others(c)
    BY <1>2, TypedStep, StepOthers DEF Inv
  <2>2. ASSUME NEW d \in Calls PROVE CallInv(d)'
    <3>1. CASE d = c
      <4>1. CASE Begin(c)
        BY <2>1, <3>1, <4>1, CallBegins DEF Inv
      <4>2. CASE CallStep(c)
        <5>1. Moved(c)
          BY <2>1, <4>2, StepMoves
        <5> QED BY <2>1, <3>1, <5>1, CallMoves DEF Inv, Others
      <4> QED BY <1>2, <4>1, <4>2
    <3>2. CASE d # c
      <4>1. /\ order'[d] = order[d] /\ pc'[d] = pc[d] /\ at'[d] = at[d] /\ used'[d] = used[d]
            /\ emitted'[d] = emitted[d] /\ inner'[d] = inner[d] /\ primaryErr'[d] = primaryErr[d]
            /\ lastErr'[d] = lastErr[d] /\ error'[d] = error[d] /\ result'[d] = result[d]
            /\ asked'[d] = asked[d] /\ task' = task
        BY <2>1, <3>2 DEF Others, Typed
      <4> QED BY <4>1, CallStays DEF Inv, Fixed, Kept, Unasked
    <3> QED BY <3>1, <3>2
  <2> QED BY <2>1, <2>2 DEF Inv
<1> QED BY <1>1, <1>2 DEF Next

\* Everything that is kept for the calls has its type, and what is kept of each call is true of it:
\* where it is among its candidates, what it asked, which errors it remembers, what it returned.
THEOREM CallsCorrect == Spec => []Inv
  BY InvInit, InvStep, PTL DEF Spec

-----------------------------------------------------------------------------
(* Shown once *)

\* What was shown to the user is never followed by another request (stream_failure_action).
THEOREM ShownCorrect == Spec => ShownOnce
<1>1. ASSUME Inv, [Next]_vars PROVE [\A c \in Calls : emitted[c] => asked'[c] = asked[c] \/ pc[c] = "request"]_vars
  <2>1. CASE UNCHANGED vars
    BY <2>1 DEF vars
  <2>2. ASSUME NEW c \in Calls, Begin(c) \/ CallStep(c), NEW d \in Calls, emitted[d]
        PROVE  asked'[d] = asked[d] \/ pc[d] = "request"
    <3>1. Others(c) /\ Typed /\ Trail(d)
      BY <1>1, <2>2, StepOthers DEF Inv, CallInv
    <3>2. CASE d # c
      BY <3>1, <3>2 DEF Others, Typed
    <3>3. CASE d = c /\ Begin(c)
      BY <3>3 DEF Begin
    <3>4. CASE d = c /\ CallStep(c)
      <4>1. Moved(c) /\ pc[c] \in {"act", "done"}
        BY <2>2, <3>1, <3>4, StepMoves DEF Trail
      <4> QED BY <3>4, <4>1 DEF Moved, Hopped, Skipped, RanOut, Left, GaveUp, Claimed, Replied, Noted, Aborted, Unasked
    <3> QED BY <2>2, <3>2, <3>3, <3>4
  <2> QED BY <1>1, <2>1, <2>2 DEF Next
<1> QED BY <1>1, CallsCorrect, PTL DEF Spec, ShownOnce

-----------------------------------------------------------------------------
(* What is returned *)

LEMMA LastErrorIs ==
  ASSUME Typed, NEW c \in Calls, Trail(c), NEW k, NEW e, IsLast(c, k, e)
  PROVE  LastErrorAt(c, k) = e
<1>1. used[c] \in Nat /\ DOMAIN asked[c] = 1 .. used[c]
  BY At DEF Trail
<1>2. PICK i \in 1 .. used[c] : /\ asked[c][i].at = k /\ asked[c][i].error = e
                                /\ \A j \in 1 .. used[c] : asked[c][j].at = k => j <= i
  BY DEF IsLast
<1> DEFINE I == {j \in DOMAIN asked[c] : asked[c][j].at = k}
           m == CHOOSE j \in I : \A n \in I : n <= j
<1>3. i \in I /\ \A n \in I : n <= i /\ n \in Nat
  BY <1>1, <1>2
<1>4. m \in I /\ \A n \in I : n <= m
  <2> HIDE DEF I
  <2> QED BY <1>3
<1> HIDE DEF m
<1>5. m = i
  BY <1>3, <1>4
<1>6. asked[c][m].error = e
  BY <1>2, <1>5
<1> QED BY <1>6 DEF LastErrorAt, m

\* A reply that is returned is a whole one; an error is the cause of the failure; and who was asked
\* may be asked.
THEOREM ResultCorrect == Spec => []ResultFounded
<1>1. ASSUME Inv, NEW c \in Calls
      PROVE  /\ result[c].kind = "ok" => result[c].sound
             /\ result[c].kind = "error" => ErrorFounded(c)
             /\ AskedWhereAllowed(c)
  <2>1. Typed /\ Placed(c) /\ Trail(c) /\ Returned(c)
    BY <1>1 DEF Inv, CallInv
  <2>2. /\ used[c] \in Nat /\ DOMAIN asked[c] = 1 .. used[c] /\ Len(asked[c]) = used[c]
        /\ (asked[c] = <<>> <=> used[c] = 0)
    BY <2>1, At DEF Trail
  <2>3. ASSUME result[c].kind = "error" PROVE ErrorFounded(c)
    <3> DEFINE e == result[c].error
    <3>1. FoundedIn(c, e)
      BY <2>1, <2>3 DEF Returned
    <3> SUFFICES \/ asked[c] = <<>> /\ e \in {LimitError, Unavailable}
                 \/ asked[c] # <<>> /\ e = Cause(c)
                 \/ asked[c] # <<>> /\ ~Task(c).style.stream /\ FirstAsked(c) # 1 /\ e = Unavailable
      BY DEF ErrorFounded
    <3> HIDE DEF e
    <3>2. CASE used[c] > 0 /\ ~emitted[c] /\ OfPrimary(c) /\ IsLast(c, First(c), e)
      <4>1. LastErrorAt(c, First(c)) = e
        BY <2>1, <3>2, LastErrorIs
      <4>2. Cause(c) = LastErrorAt(c, First(c))
        BY <3>2 DEF Cause, FirstAsked, First, OfPrimary
      <4> QED BY <2>2, <3>2, <4>1, <4>2
    <3>3. CASE used[c] > 0 /\ ~(~emitted[c] /\ OfPrimary(c)) /\ e = Final(c)
      <4>1. Cause(c) = Final(c)
        BY <2>2, <3>3 DEF Cause, FirstAsked, First, OfPrimary, Final
      <4> QED BY <2>2, <3>3, <4>1
    <3> QED BY <2>2, <3>1, <3>2, <3>3 DEF FoundedIn, FirstAsked, First
  <2>4. AskedWhereAllowed(c)
    <3>1. OrderOf(Task(c), order[c]) /\ DOMAIN order[c] = 1 .. Len(order[c]) /\ Len(order[c]) \in Nat
      BY <2>1 DEF Placed, OrderOf
    <3>2. \A i \in DOMAIN asked[c] : asked[c][i].at \in 1 .. Len(order[c])
      <4>1. at[c] \in Nat
        BY <2>1, At
      <4> QED BY <2>1, <2>2, <3>1, <4>1 DEF Trail
    <3> DEFINE f == [i \in DOMAIN order[c] |-> order[c][i].provider]
    <3>3. Task(c).chain = <<>> => IsInjective(f)
      BY <3>1 DEF IsInjective, OrderOf
    <3> QED BY <3>1, <3>2, <3>3 DEF AskedWhereAllowed, OrderOf
  <2> QED BY <2>1, <2>3, <2>4 DEF Returned
<1>2. Inv => ResultFounded
  BY <1>1 DEF ResultFounded
<1> QED BY <1>2, CallsCorrect, PTL

-----------------------------------------------------------------------------
(* Types *)

LEMMA TaskStep == Inv /\ [Next]_vars => task' = task
<1>1. ASSUME Inv, NEW c \in Calls, Begin(c) \/ CallStep(c) PROVE task' = task
  BY <1>1, StepOthers DEF Inv, Others
<1> QED BY <1>1 DEF Next, vars

\* Everything has its type.
THEOREM TypeCorrect == Spec => []TypeOK
<1>1. Init => task \in Plans
  BY DEF Init
<1>2. Inv /\ task \in Plans => TypeOK
  <2> SUFFICES ASSUME Inv, task \in Plans PROVE TypeOK
    OBVIOUS
  <2>1. \A c \in Calls : at[c] \in 1 .. Len(order[c]) + 1
    <3>1. ASSUME NEW c \in Calls PROVE at[c] \in 1 .. Len(order[c]) + 1
      <4>1. Placed(c) /\ at[c] \in Nat
        BY At DEF Inv, CallInv
      <4> QED BY <4>1 DEF Placed, OrderOf
    <3> QED BY <3>1
  <2>2. {primaryErr[c] : c \in Calls} \cup {lastErr[c] : c \in Calls} \cup {error[c] : c \in Calls} \subseteq Known
    BY At DEF Inv
  <2> QED BY <2>1, <2>2 DEF Inv, Typed, TypeOK, Places, Known
<1>3. Inv /\ [Next]_vars /\ task \in Plans => (task \in Plans)'
  BY TaskStep
<1> QED BY <1>1, <1>2, <1>3, CallsCorrect, PTL DEF Spec

-----------------------------------------------------------------------------
(* The budget *)

\* The attempts of the calls of the tree, as pairs.
Attempts == {t \in InRun \X (1 .. ComboMaxHops) : t[2] <= used[t[1]]}

BudgetInv == IsFiniteSet(Attempts) /\ treeUsed = Cardinality(Attempts) /\ treeUsed <= TreeLimit

LEMMA BudgetInit == Init => BudgetInv
<1> SUFFICES ASSUME Init PROVE BudgetInv
  OBVIOUS
<1>1. Attempts = {}
  BY DEF Init, Attempts, InRun, ComboMaxHops
<1>2. treeUsed = 0 /\ TreeLimit \in Nat
  BY ModelCallAssumption DEF Init
<1> QED BY <1>1, <1>2, FS_EmptySet DEF BudgetInv

LEMMA BudgetStep == Inv /\ BudgetInv /\ [Next]_vars => BudgetInv'
<1> SUFFICES ASSUME Inv, BudgetInv, [Next]_vars PROVE BudgetInv'
  OBVIOUS
<1>0. TreeLimit \in Nat /\ treeUsed \in Nat
  BY ModelCallAssumption DEF Inv, Typed
<1>1. InRun' = InRun
  BY TaskStep DEF InRun, Task
<1>2. ASSUME used' = used, treeUsed' = treeUsed PROVE BudgetInv'
  BY <1>1, <1>2 DEF BudgetInv, Attempts
<1>3. ASSUME NEW c \in Calls, Claim(c) PROVE BudgetInv'
  <2>1. /\ used' = [used EXCEPT ![c] = @ + 1]
        /\ treeUsed' = IF Task(c).style.inRun THEN treeUsed + 1 ELSE treeUsed
        /\ used[c] < 3 /\ (Task(c).style.inRun => treeUsed < TreeLimit)
    BY <1>3, Zenon DEF Claim, MayClaim, ComboMaxHops
  <2>2. \A d \in Calls : used[d] \in Nat /\ used'[d] = IF d = c THEN used[c] + 1 ELSE used[d]
    BY <2>1, At DEF Inv, Typed
  <2>3. c \in InRun <=> Task(c).style.inRun
    BY DEF InRun
  <2>4. CASE c \notin InRun
    <3>1. \A d \in InRun : used'[d] = used[d]
      BY <2>2, <2>4 DEF InRun
    <3>2. Attempts' = Attempts
      BY <1>1, <3>1 DEF Attempts
    <3> QED BY <2>1, <2>3, <2>4, <3>2 DEF BudgetInv
  <2>5. CASE c \in InRun
    <3> DEFINE new == <<c, used[c] + 1>>
    <3>1. used[c] \in Nat /\ used[c] + 1 \in 1 .. ComboMaxHops /\ ~(used[c] + 1 <= used[c])
      BY <2>1, <2>2 DEF ComboMaxHops
    <3>2. new \notin Attempts
      BY <3>1 DEF Attempts
    <3>3. ASSUME NEW d \in InRun, NEW i \in 1 .. ComboMaxHops
          PROVE  <<d, i>> \in Attempts' <=> <<d, i>> \in Attempts \cup {new}
      <4>1. d \in Calls
        BY DEF InRun
      <4>2. CASE d = c
        BY <1>1, <2>2, <3>1, <4>1, <4>2 DEF Attempts, ComboMaxHops
      <4>3. CASE d # c
        BY <1>1, <2>2, <4>1, <4>3 DEF Attempts
      <4> QED BY <4>2, <4>3
    <3>4. \A t \in InRun \X (1 .. ComboMaxHops) : t \in Attempts' <=> t \in Attempts \cup {new}
      BY <3>3
    <3>5. Attempts' = Attempts \cup {new}
      BY <1>1, <2>5, <3>1, <3>4 DEF Attempts
    <3>6. IsFiniteSet(Attempts') /\ Cardinality(Attempts') = Cardinality(Attempts) + 1
      BY <3>2, <3>5, FS_AddElement DEF BudgetInv
    <3> QED BY <1>0, <2>1, <2>3, <2>5, <3>6 DEF BudgetInv
  <2> QED BY <2>4, <2>5
<1>4. ASSUME NEW c \in Calls, Begin(c) \/ CallStep(c), ~Claim(c) PROVE used' = used /\ treeUsed' = treeUsed
  BY <1>4, Zenon DEF CallStep, Begin, StartCandidate, SkipCandidate, NoCandidateLeft, SkipAccount, UseAccount,
     NoAccountLeft, NoAttemptLeft, ClaimRefused, Answered, Refused, Broken, AbortAfterEmission, RetrySameAccount,
     RetryRefused, TryNextAccount, TryNextCandidate, local
<1>5. CASE UNCHANGED vars
  BY <1>2, <1>5 DEF vars
<1> QED BY <1>2, <1>3, <1>4, <1>5 DEF Next

\* No call makes more than three attempts, nor all calls of the tree together more than its limit,
\* for any number of calls; candidates are asked in their order, and the first of several never gets
\* the attempt that is reserved for the others.
THEOREM BudgetCorrect == Spec => []BudgetKept
<1>1. Inv /\ BudgetInv => BudgetKept
  <2> SUFFICES ASSUME Inv, BudgetInv PROVE BudgetKept
    OBVIOUS
  <2>1. ASSUME NEW c \in Calls
        PROVE  /\ Len(asked[c]) = used[c] /\ used[c] \in Nat /\ used[c] <= ComboMaxHops
               /\ DOMAIN asked[c] = 1 .. used[c]
               /\ \A i, j \in DOMAIN asked[c] : i <= j => asked[c][i].at <= asked[c][j].at
               /\ Len(order[c]) > 1 => \A i \in DOMAIN asked[c] : asked[c][i].at = 1 => i < ComboMaxHops
    <3>1. Typed /\ Trail(c)
      BY DEF Inv, CallInv
    <3>2. used[c] \in Nat /\ used[c] <= ComboMaxHops /\ DOMAIN asked[c] = 1 .. used[c] /\ Len(asked[c]) = used[c]
      BY <3>1, At DEF Trail
    <3> QED BY <3>1, <3>2 DEF Trail
  <2>2. Attempts = {t \in InRun \X (1 .. ComboMaxHops) : t[2] <= Len(asked[t[1]])}
    <3>1. \A t \in InRun \X (1 .. ComboMaxHops) : Len(asked[t[1]]) = used[t[1]]
      BY <2>1 DEF InRun
    <3> QED BY <3>1 DEF Attempts
  <2>3. ASSUME NEW c \in Calls, Len(order[c]) > 1
        PROVE  Cardinality({i \in DOMAIN asked[c] : asked[c][i].at = 1}) < ComboMaxHops
    <3> DEFINE I == {i \in DOMAIN asked[c] : asked[c][i].at = 1}
    <3>1. I \in SUBSET (1 .. 2)
      BY <2>1, <2>3 DEF ComboMaxHops
    <3>2. IsFiniteSet(1 .. 2) /\ Cardinality(1 .. 2) = 2
      <4> DEFINE two == 2
      <4>1. 1 \in Int /\ two \in Int /\ two = 2
        OBVIOUS
      <4> HIDE DEF two
      <4>2. IsFiniteSet(1 .. two) /\ Cardinality(1 .. two) = IF 1 > two THEN 0 ELSE two - 1 + 1
        BY <4>1, FS_Interval
      <4> QED BY <4>1, <4>2
    <3>3. IsFiniteSet(I) /\ Cardinality(I) <= 2
      <4> HIDE DEF I
      <4> QED BY <3>1, <3>2, FS_Subset
    <3>4. Cardinality(I) \in Nat
      BY <3>3, FS_CardinalityType
    <3> QED BY <3>3, <3>4 DEF ComboMaxHops
  <2> QED BY <2>1, <2>2, <2>3 DEF BudgetKept, BudgetInv
<1> QED BY <1>1, BudgetInit, BudgetStep, CallsCorrect, PTL DEF Spec

-----------------------------------------------------------------------------
(* A call comes closer to its end                                          *)

\* The accounts of a candidate are a list, which a call without a candidate does not have.
Ids == (UNION {Accounts[p] : p \in DOMAIN Accounts}) \cup {"own"}

Listed == \A c \in Calls : accounts[c] \in Seq(Ids)

\* What is used up counts, whatever comes back behind it.
LEMMA FewerAt ==
  ASSUME NEW x, NEW y,
         \/ x[1] < y[1]
         \/ x[1] = y[1] /\ x[2] < y[2]
         \/ x[1] = y[1] /\ x[2] = y[2] /\ x[3] < y[3]
         \/ x[1] = y[1] /\ x[2] = y[2] /\ x[3] = y[3] /\ x[4] < y[4]
         \/ x[1] = y[1] /\ x[2] = y[2] /\ x[3] = y[3] /\ x[4] = y[4] /\ x[5] < y[5]
         \/ x[1] = y[1] /\ x[2] = y[2] /\ x[3] = y[3] /\ x[4] = y[4] /\ x[5] = y[5] /\ x[6] < y[6]
  PROVE  Fewer(x, y)
<1>1. ASSUME NEW i \in 1 .. 6, x[i] < y[i],
             /\ i > 1 => x[1] = y[1]
             /\ i > 2 => x[2] = y[2]
             /\ i > 3 => x[3] = y[3]
             /\ i > 4 => x[4] = y[4]
             /\ i > 5 => x[5] = y[5]
      PROVE  Fewer(x, y)
  <2>1. ASSUME NEW j \in 1 .. 6, j < i PROVE x[j] = y[j]
    <3>1. j \in {1, 2, 3, 4, 5}
      BY <2>1
    <3> QED BY <1>1, <2>1, <3>1
  <2> QED BY <1>1, <2>1 DEF Fewer
<1> QED BY <1>1

\* The accounts of a candidate come in some order, and one after the other is dropped.
LEMMA AccountOrder ==
  ASSUME NEW p, NEW ids \in SetToSeqs(IF p \in DOMAIN Accounts THEN Accounts[p] ELSE {"own"})
  PROVE  ids \in Seq(Ids)
<1> DEFINE S == IF p \in DOMAIN Accounts THEN Accounts[p] ELSE {"own"}
<1>1. IsFiniteSet(S) /\ S \subseteq Ids
  <2>1. CASE p \in DOMAIN Accounts
    BY <2>1, ModelCallAssumption DEF Ids
  <2>2. CASE p \notin DOMAIN Accounts
    BY <2>2, FS_Singleton DEF Ids
  <2> QED BY <2>1, <2>2
<1>2. Cardinality(S) \in Nat
  BY <1>1, FS_CardinalityType
<1>3. ids \in [1 .. Cardinality(S) -> S]
  BY Zenon DEF SetToSeqs
<1> HIDE DEF S
<1> QED BY <1>1, <1>2, <1>3

LEMMA ListedStep ==
  ASSUME Typed, Listed, NEW c \in Calls, Begin(c) \/ CallStep(c)
  PROVE  /\ Listed'
         /\ SkipAccount(c) \/ UseAccount(c) => Len(accounts'[c]) < Len(accounts[c])
<1>1. accounts[c] \in Seq(Ids)
  BY DEF Listed
<1>2. accounts' = [accounts EXCEPT ![c] = accounts'[c]]
  BY StepOthers DEF Others
<1>3. CASE StartCandidate(c)
  <2>1. PICK ids \in SetToSeqs(IF Candidate(c).provider \in DOMAIN Accounts THEN Accounts[Candidate(c).provider]
                               ELSE {"own"}) : accounts' = [accounts EXCEPT ![c] = ids]
    BY <1>3, Zenon DEF StartCandidate
  <2>2. accounts'[c] \in Seq(Ids)
    BY <2>1, AccountOrder DEF Typed
  <2>3. pc[c] = "candidate"
    BY <1>3 DEF StartCandidate
  <2> QED BY <1>2, <2>2, <2>3 DEF Listed, Typed, SkipAccount, UseAccount
<1>4. CASE SkipAccount(c) \/ UseAccount(c)
  <2>1. accounts[c] # <<>> /\ accounts'[c] = Tail(accounts[c])
    BY <1>4 DEF SkipAccount, UseAccount, NextAccount, Typed
  <2>2. accounts'[c] \in Seq(Ids) /\ Len(accounts'[c]) < Len(accounts[c])
    BY <1>1, <2>1
  <2> QED BY <1>2, <2>2 DEF Listed, Typed
<1>5. CASE ~(StartCandidate(c) \/ SkipAccount(c) \/ UseAccount(c))
  <2>1. accounts' = accounts
    BY <1>5, Zenon DEF CallStep, Begin, local, SkipCandidate, NoCandidateLeft, NoAccountLeft, NoAttemptLeft, Claim,
       ClaimRefused, Answered, Refused, Broken, AbortAfterEmission, RetrySameAccount, RetryRefused, TryNextAccount,
       TryNextCandidate
  <2> QED BY <1>5, <2>1 DEF Listed
<1> QED BY <1>3, <1>4, <1>5

\* What is left is counted in natural numbers.
LEMMA ToTryTyped ==
  ASSUME Typed, Listed, NEW c \in Calls, Placed(c)
  PROVE  ToTry(c) \in [1 .. 6 -> Nat]
<1>1. Len(order[c]) \in Nat /\ at[c] \in Nat /\ Len(accounts[c]) \in Nat /\ attempt[c] \in 0 .. 1
  BY DEF Typed, Listed, Placed, OrderOf
<1>2. Stage(c) \in Nat /\ Point(c) \in Nat
  BY DEF Stage, Point
<1>3. Len(order[c]) + 1 - at[c] \in Nat /\ 1 - attempt[c] \in Nat
  <2>1. at[c] <= Len(order[c]) + 1
    BY DEF Placed
  <2> QED BY <1>1, <2>1
<1>4. ASSUME NEW a \in Nat, NEW b \in Nat, NEW d \in Nat, NEW e \in Nat, NEW f \in Nat, NEW g \in Nat
      PROVE  <<a, b, d, e, f, g>> \in [1 .. 6 -> Nat]
  OBVIOUS
<1>5. (IF pc[c] = "candidate" THEN 1 ELSE 0) \in Nat
  OBVIOUS
<1> QED BY <1>1, <1>2, <1>3, <1>4, <1>5 DEF ToTry

LEMMA BeginAdvances ==
  ASSUME Typed, NEW c \in Calls, Begin(c)
  PROVE  Fewer(ToTry(c)', ToTry(c))
<1>1. pc[c] = "idle" /\ pc'[c] = "candidate"
  BY StepBegins
<1>2. ToTry(c)'[1] < ToTry(c)[1]
  BY <1>1 DEF ToTry, Stage
<1> QED BY <1>2, FewerAt

\* A step that leaves the candidate or ends the call.
LEMMA LeavingAdvances ==
  ASSUME Typed, NEW c \in Calls, Placed(c), pc[c] \notin {"idle", "done"}, order'[c] = order[c],
         pc'[c] = "done" \/ (pc'[c] = "candidate" /\ at'[c] = at[c] + 1)
  PROVE  Fewer(ToTry(c)', ToTry(c))
<1>1. CASE pc'[c] = "done"
  <2>1. ToTry(c)'[1] < ToTry(c)[1]
    BY <1>1 DEF ToTry, Stage
  <2> QED BY <2>1, FewerAt
<1>2. CASE pc'[c] = "candidate" /\ at'[c] = at[c] + 1
  <2>1. Len(order[c]) \in Nat /\ at[c] \in Nat
    BY DEF Placed, OrderOf, Typed
  <2>2. /\ ToTry(c)'[1] = Stage(c)' /\ ToTry(c)'[2] = Len(order[c]) + 1 - at'[c]
        /\ ToTry(c)[1] = Stage(c) /\ ToTry(c)[2] = Len(order[c]) + 1 - at[c]
    BY DEF ToTry
  <2>3. Stage(c)' = Stage(c)
    BY <1>2 DEF Stage
  <2>4. ToTry(c)'[1] = ToTry(c)[1] /\ ToTry(c)'[2] < ToTry(c)[2]
    BY <1>2, <2>1, <2>2, <2>3
  <2> QED BY <2>4, FewerAt
<1> QED BY <1>1, <1>2

\* A step at one candidate.
LEMMA StayingAdvances ==
  ASSUME Typed, NEW c \in Calls, pc[c] \notin {"idle", "done"}, pc'[c] \notin {"idle", "done", "candidate"},
         order'[c] = order[c], at'[c] = at[c],
         \/ pc[c] = "candidate"
         \/ pc[c] # "candidate" /\ Len(accounts'[c]) < Len(accounts[c])
         \/ pc[c] # "candidate" /\ accounts'[c] = accounts[c] /\ attempt[c] = 0 /\ attempt'[c] = 1
         \/ pc[c] # "candidate" /\ accounts'[c] = accounts[c] /\ attempt'[c] = attempt[c] /\ Point(c)' < Point(c)
  PROVE  Fewer(ToTry(c)', ToTry(c))
<1>1. ToTry(c)'[1] = ToTry(c)[1] /\ ToTry(c)'[2] = ToTry(c)[2] /\ ToTry(c)'[3] = 0
  BY DEF ToTry, Stage
<1>2. CASE pc[c] = "candidate"
  <2>1. ToTry(c)[3] = 1
    BY <1>2 DEF ToTry
  <2> QED BY <1>1, <2>1, FewerAt
<1>3. CASE pc[c] # "candidate"
  <2>1. ToTry(c)'[3] = ToTry(c)[3]
    BY <1>1, <1>3 DEF ToTry
  <2>2. /\ ToTry(c)[4] = Len(accounts[c]) /\ ToTry(c)[5] = 1 - attempt[c] /\ ToTry(c)[6] = Point(c)
        /\ ToTry(c)'[4] = Len(accounts'[c]) /\ ToTry(c)'[5] = 1 - attempt'[c] /\ ToTry(c)'[6] = Point(c)'
    BY DEF ToTry
  <2> QED BY <1>1, <1>3, <2>1, <2>2, FewerAt
<1> QED BY <1>2, <1>3

LEMMA StepAdvances ==
  ASSUME Typed, Listed, NEW c \in Calls, Placed(c), CallStep(c)
  PROVE  Fewer(ToTry(c)', ToTry(c))
<1> USE DEF GoTo, Return, local, Point
<1>1. Typed /\ pc \in [Calls -> Places] /\ attempt \in [Calls -> 0 .. 1] /\ at \in [Calls -> Nat]
  BY DEF Typed
<1>2. CASE StartCandidate(c)
  BY <1>1, <1>2, StayingAdvances DEF StartCandidate
<1>3. CASE SkipAccount(c)
  BY <1>1, <1>3, ListedStep, StayingAdvances DEF SkipAccount
<1>4. CASE UseAccount(c)
  BY <1>1, <1>4, ListedStep, StayingAdvances DEF UseAccount
<1>5. CASE Claim(c)
  <2>1. pc[c] = "claim" /\ pc'[c] = "request" /\ UNCHANGED <<order, at, accounts, attempt>>
    BY <1>1, <1>5 DEF Claim
  <2> QED BY <1>1, <2>1, StayingAdvances
<1>6. CASE Refused(c) \/ Broken(c)
  <2>1. pc[c] = "request" /\ pc'[c] = "act" /\ UNCHANGED <<order, at, accounts, attempt>>
    BY <1>1, <1>6 DEF Refused, Broken, Note
  <2> QED BY <1>1, <2>1, StayingAdvances
<1>7. CASE RetrySameAccount(c)
  BY <1>1, <1>7, StayingAdvances DEF RetrySameAccount, RetriesAccount
<1>8. CASE TryNextAccount(c)
  BY <1>1, <1>8, StayingAdvances DEF TryNextAccount
<1>9. CASE SkipCandidate(c)
  BY <1>1, <1>9, LeavingAdvances DEF SkipCandidate, After
<1>10. CASE NoCandidateLeft(c) \/ Answered(c) \/ AbortAfterEmission(c)
  <2>1. pc[c] \in {"candidate", "request", "act"} /\ pc'[c] = "done" /\ UNCHANGED order
    BY <1>1, <1>10 DEF NoCandidateLeft, Answered, AbortAfterEmission
  <2> QED BY <2>1, LeavingAdvances
<1>11. ASSUME LeaveCandidate(c) \/ OutOfAttempts(c), pc[c] \in {"account", "claim", "act"}, UNCHANGED order
       PROVE  Fewer(ToTry(c)', ToTry(c))
  <2>1. LeftFor(c) \/ GaveUpWith(c)
    BY <1>11, Leaving
  <2> QED BY <1>11, <2>1, LeavingAdvances DEF LeftFor, GaveUpWith
<1>12. CASE NoAccountLeft(c) \/ NoAttemptLeft(c) \/ ClaimRefused(c) \/ TryNextCandidate(c)
  BY <1>11, <1>12 DEF NoAccountLeft, NoAttemptLeft, ClaimRefused, TryNextCandidate
<1>13. CASE RetryRefused(c)
  <2>1. CASE Exhausted(c)
    BY <1>11, <1>13, <2>1 DEF RetryRefused
  <2>2. CASE ~Exhausted(c)
    BY <1>1, <1>13, <2>2, StayingAdvances DEF RetryRefused
  <2> QED BY <2>1, <2>2
<1> QED BY <1>2, <1>3, <1>4, <1>5, <1>6, <1>7, <1>8, <1>9, <1>10, <1>12, <1>13 DEF CallStep

\* Each step uses up something of one call that neither this call nor another one gives back, and what
\* is left is a tuple of natural numbers: no behaviour goes on for ever (binding.rs: the loops over
\* candidates, accounts and retries).
THEOREM AdvanceCorrect == Spec => CallAdvances /\ [](\A c \in Calls : ToTry(c) \in [1 .. 6 -> Nat])
<1>1. Init => Listed
  <2>1. <<>> \in Seq(Ids)
    OBVIOUS
  <2> QED BY <2>1 DEF Init, Listed
<1>2. Inv /\ Listed /\ [Next]_vars => Listed'
  <2> SUFFICES ASSUME Inv, Listed, [Next]_vars PROVE Listed'
    OBVIOUS
  <2>1. CASE UNCHANGED vars
    BY <2>1 DEF vars, Listed
  <2> QED BY <2>1, ListedStep DEF Next, Inv
<1>3. Inv /\ Listed => \A c \in Calls : ToTry(c) \in [1 .. 6 -> Nat]
  BY ToTryTyped DEF Inv, CallInv
<1>4. Inv /\ Listed /\ [Next]_vars
      => [\E c \in Calls : /\ Fewer(ToTry(c)', ToTry(c))
                           /\ \A d \in Calls \ {c} : ToTry(d)' = ToTry(d)]_vars
  <2> SUFFICES ASSUME Inv, Listed, NEW c \in Calls, Begin(c) \/ CallStep(c)
               PROVE  Fewer(ToTry(c)', ToTry(c)) /\ \A d \in Calls \ {c} : ToTry(d)' = ToTry(d)
    BY DEF Next
  <2>1. Typed /\ Placed(c)
    BY DEF Inv, CallInv
  <2>2. Fewer(ToTry(c)', ToTry(c))
    BY <2>1, BeginAdvances, StepAdvances
  <2>3. ASSUME NEW d \in Calls \ {c} PROVE ToTry(d)' = ToTry(d)
    <3>1. /\ order'[d] = order[d] /\ pc'[d] = pc[d] /\ at'[d] = at[d] /\ accounts'[d] = accounts[d]
          /\ attempt'[d] = attempt[d]
      <4>1. Others(c) /\ d \in Calls /\ d # c
        BY <2>1, StepOthers
      <4> QED BY <2>1, <4>1 DEF Others, Typed
    <3> QED BY <3>1 DEF ToTry, Stage, Point
  <2> QED BY <2>2, <2>3
<1> QED BY <1>1, <1>2, <1>3, <1>4, CallsCorrect, PTL DEF Spec, CallAdvances

=============================================================================
