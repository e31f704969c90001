-------------------------------- MODULE Gate --------------------------------
(***************************************************************************)
(* How an article becomes an extraction (internal/extract): NewFromConfig, *)
(* the GatedExtractor that asks Jev before it pays Claude, the checks both *)
(* clients make of the answers they get, and the second opinion that       *)
(* cmd/reclassify asks of the same classifier.                             *)
(*                                                                         *)
(* A text is the sequence of its paragraphs, the pieces between blank      *)
(* lines; Blank is a piece of white space.  Probabilities are percents,    *)
(* and NaN is what strconv.ParseFloat makes of "NaN".  Jev is taken to     *)
(* answer the same question with the same probability, which is what its   *)
(* model is pinned for; its calls, and Claude's, fail and answer nonsense  *)
(* at any time.                                                            *)
(***************************************************************************)
EXTENDS RumourStatus, Sequences

CONSTANTS
    Articles,
    Paragraphs, Blank,
    Title, Content,     \* the texts of each article; << >> for no content
    Probability,        \* Jev's answer to each question
    EnvValues,          \* what JEV_MIN_PROBABILITY may be set to
    NaN

DefaultJevMinProbability == 50

ASSUME TextAssumption ==
    /\ Title \in [Articles -> Seq(Paragraphs) \ {<< >>}]
    /\ Content \in [Articles -> Seq(Paragraphs)]

ASSUME NaNAssumption == NaN \notin Int \cup {NULL}

VARIABLES
    minProbability, \* the threshold config.Load made of the environment
    mode,           \* what NewFromConfig built: "stub", "refused", "gated"
    phase,          \* of each article: "queued", "likely" or "done"
    asked,          \* the question the gate put to Jev, or NULL
    gate,           \* the probability it was answered, or NULL
    outcome,        \* what Extract returned: Pending while it has not
    paid,           \* whether Claude was called for it
    verdict         \* reclassify's: "none", "keep" or "delete"

vars == <<minProbability, mode, phase, asked, gate, outcome, paid, verdict>>

-----------------------------------------------------------------------------
(* Texts. *)

\* strings.TrimSpace.
Trim(text) ==
    LET solid == {i \in DOMAIN text : text[i] # Blank}
        first == CHOOSE i \in solid : \A j \in solid : i <= j
        last == CHOOSE i \in solid : \A j \in solid : j <= i
    IN  IF solid = {} THEN << >> ELSE SubSeq(text, first, last)

\* jevState: what Jev is asked about a title and a body.
Question(title, body) == <<Trim(title), Trim(body)>>

\* extractOne's join of title and content, and splitArticleText's cut of it
\* at the first blank line.
Text(a) == Title[a] \o Content[a]

SplitQuestion(a) == Question(<<Head(Text(a))>>, Tail(Text(a)))

\* Mutant: reclassify asks about the headline alone.
OwnQuestion_Title(a) == Question(Title[a], << >>)

\* What reclassify asks.
OwnQuestion(a) == Question(Title[a], Content[a])

-----------------------------------------------------------------------------
(* Thresholds; a comparison with NaN is false. *)

\* Mutant: the configured threshold is ignored.
Less_Default(p, min) == p < DefaultJevMinProbability

Less(p, min) == min # NaN /\ p < min

AtLeast(p, min) == min # NaN /\ p >= min

\* getEnvFloat: an unset, unparseable or out-of-range value (NULL, or not in
\* 0..100) falls back to the default.
getEnvFloat(raw) ==
    IF raw = NaN THEN NaN
    ELSE IF raw = NULL \/ raw \notin 0..100 THEN DefaultJevMinProbability
    ELSE raw

-----------------------------------------------------------------------------
(* Answers. *)

JevAnswers(q) ==
    [ok : BOOLEAN, noul : {Probability[q], NULL, -1, 101}, model : BOOLEAN]

\* Classify returns a Classification: status 200, a noul in [0, 1] and the
\* id of the model that answered.
Usable(answer) ==
    /\ answer.ok
    /\ answer.noul # NULL /\ answer.noul \in 0..100
    /\ answer.model

ClaudeAnswers ==
    [ok : BOOLEAN, tool : BOOLEAN, confidence : {-1, 80},
     status : Statuses \cup {"agreed"}]

\* Extract finds the record_rumour block, and validateResult passes it.
validateResult(answer) ==
    /\ answer.ok /\ answer.tool
    /\ answer.confidence \in 0..100
    /\ answer.status \in Statuses

Pending  == [kind |-> "pending"]
Error    == [kind |-> "error"]
Rejected(p) == [kind |-> "rejected", probability |-> p]
Result(s, p) == [kind |-> "result", status |-> s, probability |-> p]

-----------------------------------------------------------------------------
\* config.Load and NewFromConfig: Claude without the gate is refused.
Init ==
    /\ \E raw \in EnvValues : minProbability = getEnvFloat(raw)
    /\ \E extractKey, typesafeKey \in BOOLEAN :
          mode = IF ~extractKey THEN "stub"
                 ELSE IF ~typesafeKey THEN "refused"
                 ELSE "gated"
    /\ phase = [a \in Articles |-> "queued"]
    /\ asked = [a \in Articles |-> NULL]
    /\ gate = [a \in Articles |-> NULL]
    /\ outcome = [a \in Articles |-> Pending]
    /\ paid = [a \in Articles |-> FALSE]
    /\ verdict = [a \in Articles |-> "none"]

Return(a, x) ==
    /\ phase' = [phase EXCEPT ![a] = "done"]
    /\ outcome' = [outcome EXCEPT ![a] = x]

\* The stub fails every article.
StubExtract(a) ==
    /\ mode = "stub" /\ phase[a] = "queued"
    /\ Return(a, Error)
    /\ UNCHANGED <<minProbability, mode, asked, gate, paid, verdict>>

\* GatedExtractor.Extract up to Jev's answer.
Classify(a) ==
    LET q == SplitQuestion(a)
    IN  /\ mode = "gated" /\ phase[a] = "queued"
        /\ \/ /\ q = <<<< >>, << >>>>
              /\ Return(a, Error)
              /\ UNCHANGED <<asked, gate>>
           \/ /\ q # <<<< >>, << >>>>
              /\ asked' = [asked EXCEPT ![a] = q]
              /\ \E answer \in JevAnswers(q) :
                    \/ /\ ~Usable(answer)
                       /\ Return(a, Error)
                       /\ UNCHANGED gate
                    \/ /\ Usable(answer)
                       /\ gate' = [gate EXCEPT ![a] = answer.noul]
                       /\ IF Less(answer.noul, minProbability)
                          THEN Return(a, Rejected(answer.noul))
                          ELSE /\ phase' = [phase EXCEPT ![a] = "likely"]
                               /\ UNCHANGED outcome
        /\ UNCHANGED <<minProbability, mode, paid, verdict>>

\* Claude is called for a likely article.
Extract(a) ==
    /\ phase[a] = "likely"
    /\ paid' = [paid EXCEPT ![a] = TRUE]
    /\ \E answer \in ClaudeAnswers :
          Return(a, IF validateResult(answer)
                    THEN Result(answer.status, gate[a])
                    ELSE Error)
    /\ UNCHANGED <<minProbability, mode, asked, gate, verdict>>

\* MarkExtracted failed: a later run extracts the article again.
Requeue(a) ==
    /\ phase[a] = "done" /\ verdict[a] = "none"
    /\ phase' = [phase EXCEPT ![a] = "queued"]
    /\ asked' = [asked EXCEPT ![a] = NULL]
    /\ gate' = [gate EXCEPT ![a] = NULL]
    /\ outcome' = [outcome EXCEPT ![a] = Pending]
    /\ paid' = [paid EXCEPT ![a] = FALSE]
    /\ UNCHANGED <<minProbability, mode, verdict>>

\* reclassify judges the article of a stored rumour; an error aborts it.
Reclassify(a) ==
    /\ outcome[a].kind = "result" /\ verdict[a] = "none"
    /\ verdict' = [verdict EXCEPT ![a] =
          IF AtLeast(Probability[OwnQuestion(a)], minProbability)
          THEN "keep" ELSE "delete"]
    /\ UNCHANGED <<minProbability, mode, phase, asked, gate, outcome, paid>>

Next ==
    \E a \in Articles :
        StubExtract(a) \/ Classify(a) \/ Extract(a) \/ Requeue(a) \/ Reclassify(a)

Spec == Init /\ [][Next]_vars
-----------------------------------------------------------------------------
(* Properties. *)

\* Claude is paid only for an article whose probability reached the
\* threshold (extract/gated.go:17), and never without the gate.  A threshold of
\* NaN, which config.go:97 accepts, lets every article through.
PaidOnlyForLikelyArticles ==
    \A a \in Articles : paid[a] =>
        /\ mode = "gated"
        /\ gate[a] # NULL
        /\ AtLeast(gate[a], minProbability) \/ minProbability = NaN

\* The clean-up never deletes what the gate let through: asked again with
\* the same threshold, the classifier keeps every rumour it accepted.  Two
\* cases are excepted: the gate cuts a title that holds a blank line and asks
\* another question than the clean-up, and nothing reaches a threshold of NaN.
ReclassifyKeepsAccepted ==
    \A a \in Articles : verdict[a] = "delete" =>
        Len(Title[a]) > 1 \/ minProbability = NaN
=============================================================================
