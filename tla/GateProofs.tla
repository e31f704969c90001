------------------------------ MODULE GateProofs -------------------------------
(***************************************************************************)
(* What the gate promises, for any articles, texts, probabilities and      *)
(* thresholds: Claude is paid only past the threshold, and the clean-up    *)
(* keeps what the gate accepted.                                           *)
(***************************************************************************)
EXTENDS Gate, SequenceTheorems, TLAPS

\* The gate let the article through: it was asked about it, and the answer
\* was not below the threshold.
Passed(a) ==
    /\ mode = "gated"
    /\ gate[a] \in Int /\ gate[a] = Probability[SplitQuestion(a)]
    /\ ~Less(gate[a], minProbability)

\* An article is paid for, and its rumour stored, only after it passed; what
\* the clean-up deletes it judged by another question or against NaN.
ArticleOK(a) ==
    /\ phase[a] = "likely" => Passed(a)
    /\ paid[a] => Passed(a) /\ phase[a] = "done"
    /\ outcome[a].kind = "result" => Passed(a) /\ phase[a] = "done"
    /\ verdict[a] = "delete" => Len(Title[a]) > 1 \/ minProbability = NaN

Inv ==
    /\ minProbability \in Int \cup {NaN}
    /\ phase \in [Articles -> {"queued", "likely", "done"}]
    /\ gate \in [Articles -> Int \cup {NULL}]
    /\ paid \in [Articles -> BOOLEAN]
    /\ DOMAIN outcome = Articles /\ DOMAIN verdict = Articles
    /\ \A a \in Articles : ArticleOK(a)

-----------------------------------------------------------------------------
\* splitArticleText undoes extractOne's join when the title is one paragraph:
\* the gate then asks Jev what the clean-up will ask.
THEOREM SplitUndoesJoin ==
    ASSUME NEW a \in Articles, ~(Len(Title[a]) > 1)
    PROVE  SplitQuestion(a) = OwnQuestion(a)
<1>1. /\ Title[a] \in Seq(Paragraphs) /\ Content[a] \in Seq(Paragraphs)
      /\ Title[a] # << >>
    BY TextAssumption
<1>2. Len(Title[a]) = 1
    <2> DEFINE n == Len(Title[a])
    <2>1. n \in Nat \ {0} /\ ~(n > 1)
        BY <1>1, EmptySeq
    <2> HIDE DEF n
    <2>2. n = 1
        BY <2>1
    <2> QED
        BY <2>2 DEF n
<1> DEFINE t == Title[a][1]
<1>3. Title[a] = <<t>>
    BY <1>1, <1>2
<1>4. t \in Paragraphs
    BY <1>1, <1>2
<1>5. Head(<<t>> \o Content[a]) = t /\ Tail(<<t>> \o Content[a]) = Content[a]
    <2> HIDE DEF t
    <2>1. /\ <<t>> \o Content[a] \in Seq(Paragraphs)
          /\ Len(<<t>> \o Content[a]) = 1 + Len(Content[a])
          /\ (<<t>> \o Content[a])[1] = t
          /\ \A i \in 1..Len(Content[a]) :
                 (<<t>> \o Content[a])[i + 1] = Content[a][i]
        BY <1>1, <1>4
    <2>2. Tail(<<t>> \o Content[a]) \in Seq(Paragraphs)
          /\ Len(Tail(<<t>> \o Content[a])) = Len(Content[a])
          /\ \A i \in 1..Len(Content[a]) :
                 Tail(<<t>> \o Content[a])[i] = Content[a][i]
        BY <1>1, <2>1
    <2> QED
        BY <1>1, <2>1, <2>2
<1> QED
    BY <1>3, <1>5 DEF SplitQuestion, OwnQuestion, Text

\* A usable answer is the probability of the question, a number.
LEMMA UsableAnswer ==
    ASSUME NEW q, NEW answer \in JevAnswers(q), Usable(answer)
    PROVE  answer.noul \in Int /\ answer.noul = Probability[q]
BY NullAssumption DEF JevAnswers, Usable

\* getEnvFloat yields a number or NaN, whatever the environment holds.
LEMMA ThresholdType ==
    ASSUME NEW raw
    PROVE  getEnvFloat(raw) \in Int \cup {NaN}
BY DEF getEnvFloat, DefaultJevMinProbability

\* Nothing was asked yet.
LEMMA InvInit == Init => Inv
BY ThresholdType DEF Init, Inv, ArticleOK, Pending

\* What a step does to other articles is nothing.
LEMMA OthersKept ==
    ASSUME NEW a, NEW b, b # a, ArticleOK(b),
           UNCHANGED <<minProbability, mode>>,
           phase'[b] = phase[b], gate'[b] = gate[b], paid'[b] = paid[b],
           outcome'[b] = outcome[b], verdict'[b] = verdict[b]
    PROVE  ArticleOK(b)'
BY DEF ArticleOK, Passed

\* Every step keeps the types, and leaves the other articles alone.
LEMMA TypeStep ==
    ASSUME Inv, NEW a \in Articles,
           StubExtract(a) \/ Classify(a) \/ Extract(a) \/ Requeue(a) \/ Reclassify(a)
    PROVE  /\ UNCHANGED <<minProbability, mode>>
           /\ phase' \in [Articles -> {"queued", "likely", "done"}]
           /\ gate' \in [Articles -> Int \cup {NULL}]
           /\ paid' \in [Articles -> BOOLEAN]
           /\ DOMAIN outcome' = Articles /\ DOMAIN verdict' = Articles
           /\ \A b \in Articles \ {a} :
                  /\ phase'[b] = phase[b] /\ gate'[b] = gate[b] /\ paid'[b] = paid[b]
                  /\ outcome'[b] = outcome[b] /\ verdict'[b] = verdict[b]
<1>1. CASE StubExtract(a)
    BY <1>1 DEF StubExtract, Return, Inv
<1>2. CASE Classify(a)
    BY <1>2, UsableAnswer DEF Classify, Return, Inv
<1>3. CASE Extract(a)
    BY <1>3 DEF Extract, Return, Inv
<1>4. CASE Requeue(a)
    BY <1>4 DEF Requeue, Inv
<1>5. CASE Reclassify(a)
    BY <1>5 DEF Reclassify, Inv
<1> QED
    BY <1>1, <1>2, <1>3, <1>4, <1>5

\* A step keeps the books of its own article.
LEMMA OwnStep ==
    ASSUME Inv, NEW a \in Articles,
           StubExtract(a) \/ Classify(a) \/ Extract(a) \/ Requeue(a) \/ Reclassify(a)
    PROVE  ArticleOK(a)'
<1>1. ArticleOK(a) /\ UNCHANGED <<minProbability, mode>>
    BY TypeStep DEF Inv
<1> USE DEF Inv
<1>2. CASE StubExtract(a)
    BY <1>1, <1>2 DEF StubExtract, Return, Error, ArticleOK, Passed
<1>3. CASE Classify(a)
    <2> DEFINE q == SplitQuestion(a)
    <2>1. mode = "gated" /\ phase[a] = "queued" /\ UNCHANGED <<paid, verdict>>
        BY <1>3 DEF Classify
    <2>2. ~paid[a] /\ outcome[a].kind # "result"
        BY <1>1, <2>1 DEF ArticleOK
    <2>3. CASE Return(a, Error)
        BY <1>1, <2>1, <2>2, <2>3 DEF Return, Error, ArticleOK
    <2>4. ASSUME NEW answer \in JevAnswers(q), Usable(answer),
                 gate' = [gate EXCEPT ![a] = answer.noul]
          PROVE  gate'[a] \in Int /\ gate'[a] = Probability[q]
        BY <2>4, UsableAnswer
    <2>5. CASE \E answer \in JevAnswers(q) :
                   /\ Usable(answer)
                   /\ gate' = [gate EXCEPT ![a] = answer.noul]
                   /\ Less(answer.noul, minProbability)
                   /\ Return(a, Rejected(answer.noul))
        BY <1>1, <2>1, <2>2, <2>5 DEF Return, Rejected, ArticleOK
    <2>6. CASE \E answer \in JevAnswers(q) :
                   /\ Usable(answer)
                   /\ gate' = [gate EXCEPT ![a] = answer.noul]
                   /\ ~Less(answer.noul, minProbability)
                   /\ phase' = [phase EXCEPT ![a] = "likely"]
                   /\ UNCHANGED outcome
        <3>1. PICK answer \in JevAnswers(q) :
                  /\ Usable(answer)
                  /\ gate' = [gate EXCEPT ![a] = answer.noul]
                  /\ ~Less(answer.noul, minProbability)
                  /\ phase' = [phase EXCEPT ![a] = "likely"]
                  /\ UNCHANGED outcome
            BY <2>6
        <3>2. gate'[a] = answer.noul /\ gate'[a] \in Int /\ gate'[a] = Probability[q]
            BY <2>4, <3>1
        <3>3. Passed(a)'
            BY <1>1, <2>1, <3>1, <3>2 DEF Passed, Less
        <3> QED
            BY <1>1, <2>1, <2>2, <3>1, <3>3 DEF ArticleOK
    <2> QED
        BY <1>3, <2>3, <2>5, <2>6 DEF Classify
<1>4. CASE Extract(a)
    <2>1. Passed(a) /\ UNCHANGED <<gate, verdict>> /\ phase'[a] = "done"
        BY <1>1, <1>4 DEF Extract, Return, ArticleOK
    <2> QED
        BY <1>1, <2>1 DEF ArticleOK, Passed
<1>5. CASE Requeue(a)
    <2>1. /\ phase'[a] = "queued" /\ ~paid'[a] /\ outcome'[a] = Pending
          /\ verdict' = verdict
        BY <1>5 DEF Requeue
    <2> QED
        BY <1>1, <2>1 DEF ArticleOK, Pending
<1>6. CASE Reclassify(a)
    <2>1. Passed(a) /\ UNCHANGED <<phase, gate, outcome, paid>>
        BY <1>1, <1>6 DEF Reclassify, ArticleOK
    <2>2. ASSUME verdict'[a] = "delete", ~(Len(Title[a]) > 1), minProbability # NaN
          PROVE  FALSE
        <3>1. ~AtLeast(Probability[OwnQuestion(a)], minProbability)
            BY <1>6, <2>2 DEF Reclassify
        <3>2. Probability[OwnQuestion(a)] = gate[a]
            BY <2>1, <2>2, SplitUndoesJoin DEF Passed
        <3>3. gate[a] \in Int /\ minProbability \in Int
              /\ ~Less(gate[a], minProbability)
            BY <2>1, <2>2 DEF Passed
        <3> QED
            BY <2>2, <3>1, <3>2, <3>3 DEF AtLeast, Less
    <2> QED
        BY <1>1, <2>1, <2>2 DEF ArticleOK, Passed
<1> QED
    BY <1>2, <1>3, <1>4, <1>5, <1>6

\* The invariant holds in every reachable state.
THEOREM InvHolds == Spec => []Inv
<1>1. Inv /\ [Next]_vars => Inv'
    <2> SUFFICES ASSUME Inv, [Next]_vars PROVE Inv'
        OBVIOUS
    <2>1. ASSUME NEW a \in Articles,
                 StubExtract(a) \/ Classify(a) \/ Extract(a) \/ Requeue(a)
                     \/ Reclassify(a)
          PROVE  Inv'
        <3>1. ArticleOK(a)'
            BY <2>1, OwnStep
        <3>2. \A b \in Articles \ {a} : ArticleOK(b)'
            BY <2>1, TypeStep, OthersKept DEF Inv
        <3> QED
            BY <2>1, <3>1, <3>2, TypeStep DEF Inv
    <2>2. CASE UNCHANGED vars
        BY <2>2 DEF vars, Inv, ArticleOK, Passed
    <2> QED
        BY <2>1, <2>2 DEF Next
<1> QED
    BY InvInit, <1>1, PTL DEF Spec

-----------------------------------------------------------------------------
\* GatedExtractor pays Claude only for an article that Jev put at the
\* threshold or above, and never without Jev; a threshold of NaN is the one
\* way around it.
THEOREM ThresholdGuardsSpending == Spec => []PaidOnlyForLikelyArticles
<1>1. Inv => PaidOnlyForLikelyArticles
    <2> SUFFICES ASSUME Inv, NEW a \in Articles, paid[a]
                 PROVE  /\ mode = "gated"
                        /\ gate[a] # NULL
                        /\ AtLeast(gate[a], minProbability) \/ minProbability = NaN
        BY DEF PaidOnlyForLikelyArticles
    <2>1. Passed(a)
        BY DEF Inv, ArticleOK
    <2>2. gate[a] \in Int /\ mode = "gated" /\ gate[a] # NULL
        BY <2>1, NullAssumption DEF Passed
    <2>3. ASSUME minProbability # NaN PROVE AtLeast(gate[a], minProbability)
        BY <2>1, <2>2, <2>3 DEF Passed, Less, AtLeast, Inv
    <2> QED
        BY <2>2, <2>3
<1> QED
    BY <1>1, InvHolds, PTL

\* cmd/reclassify keeps every rumour the gate accepted at the same threshold,
\* but for a title with a blank line and a threshold of NaN.
THEOREM AcceptedIsKept == Spec => []ReclassifyKeepsAccepted
<1>1. Inv => ReclassifyKeepsAccepted
    BY DEF Inv, ArticleOK, ReclassifyKeepsAccepted
<1> QED
    BY <1>1, InvHolds, PTL
=============================================================================
