------------------------------- MODULE Dataset ------------------------------
(***************************************************************************)
(* evals/dataset.py: the loader that refuses every document that would     *)
(* change what the benchmark measures without saying so.                   *)
(*                                                                         *)
(* A mapping of the document is a function from the keys it has to their   *)
(* values; Junk stands for a value of the wrong type, a blank text or a    *)
(* key nobody knows.  A reference query is known by the result it has.     *)
(***************************************************************************)
EXTENDS Naturals, Sequences, FiniteSets

CONSTANTS MinQuestions, MaxQuestions, Junk

ASSUME DatasetAssumption == MinQuestions \in Nat /\ MaxQuestions \in Nat

Tiers == {"easy", "medium", "hard", "expert"}
Splits == {"dev", "test"}

RequiredKeys == {"id", "tier", "question", "gold_sql", "ordered", "covers", "split"}
OptionalKeys == {"expect", "glossary", "naive_sql"}
RequiredTopLevel == {"version", "dataset", "fingerprint", "questions"}
OptionalTopLevel == {"retired"}

Has(mapping, key) == key \in DOMAIN mapping
HasKeys(mapping, required, optional) ==
  required \subseteq DOMAIN mapping /\ DOMAIN mapping \subseteq required \cup optional

IsText(value) == value # Junk

\* A list of texts that is not empty.
IsTextList(value) ==
  value # Junk /\ value # <<>> /\ \A i \in DOMAIN value : IsText(value[i])

NoRepeats(list) ==
  \A i, j \in DOMAIN list : list[i] = list[j] => i = j

\* The reading without the glossary is asked of an expert question, together
\* with the term it turns on, and of no other.
InterpretationIsDeclared(raw) ==
  IF raw.tier = "expert"
  THEN /\ Has(raw, "naive_sql") /\ IsText(raw.naive_sql)
       /\ raw.naive_sql # raw.gold_sql
       /\ Has(raw, "glossary")
  ELSE ~Has(raw, "naive_sql")

GlossaryIsUsable(raw) ==
  Has(raw, "glossary") => IsTextList(raw.glossary) /\ NoRepeats(raw.glossary)

\* On the easy tier only; `rows` is a count.
ExpectationIsUsable(raw) ==
  Has(raw, "expect") =>
    /\ raw.tier = "easy"
    /\ raw.expect # Junk /\ DOMAIN raw.expect # {}
    /\ DOMAIN raw.expect \subseteq {"rows", "value"}
    /\ Has(raw.expect, "rows") => raw.expect.rows \in Nat

\* What _parse_question lets through.
IsQuestion(raw) ==
  /\ HasKeys(raw, RequiredKeys, OptionalKeys)
  /\ IsText(raw.id) /\ IsText(raw.question) /\ IsText(raw.gold_sql)
  /\ raw.tier \in Tiers
  /\ raw.ordered \in BOOLEAN
  /\ IsTextList(raw.covers)
  /\ raw.split \in Splits
  /\ InterpretationIsDeclared(raw)
  /\ GlossaryIsUsable(raw)
  /\ ExpectationIsUsable(raw)

\* Question, as far as a run reads it.
AsQuestion(raw) ==
  [id |-> raw.id, tier |-> raw.tier, gold |-> raw.gold_sql,
   ordered |-> raw.ordered, split |-> raw.split]

IsFingerprint(value) ==
  value # Junk /\ DOMAIN value # {} /\ \A r \in DOMAIN value : value[r] \in Nat

\* An id is used once, and never one that was retired.
IdsAreFresh(document) ==
  LET questions == document.questions
      retired == IF Has(document, "retired") THEN document.retired ELSE <<>>
  IN  /\ \A i, j \in DOMAIN questions :
           questions[i].id = questions[j].id => i = j
      /\ retired # Junk /\ \A id \in DOMAIN retired : IsText(retired[id])
      /\ \A i \in DOMAIN questions : questions[i].id \notin DOMAIN retired

\* What parse_dataset lets through: a document that is no mapping is Junk.
IsDataset(document) ==
  /\ document # Junk
  /\ HasKeys(document, RequiredTopLevel, OptionalTopLevel)
  /\ document.version \in Nat
  /\ IsFingerprint(document.fingerprint)
  /\ document.questions # Junk
  /\ Len(document.questions) \in MinQuestions..MaxQuestions
  /\ \A i \in DOMAIN document.questions : IsQuestion(document.questions[i])
  /\ IdsAreFresh(document)

ParseDataset(document) ==
  [fingerprint |-> document.fingerprint,
   questions |-> [i \in DOMAIN document.questions |->
                    AsQuestion(document.questions[i])]]

----------------------------------------------------------------------------
\* questions_in_split, in dataset order; "all" is the None of the code.  A
\* recursive function, and not SelectSeq, because its range is reasoned about.
InSplit(question, split) == split \in {"all", question.split}

QuestionsInSplit(dataset, split) ==
  LET kept[n \in 0..Len(dataset.questions)] ==
        IF n = 0 THEN <<>>
        ELSE IF InSplit(dataset.questions[n], split)
             THEN Append(kept[n - 1], dataset.questions[n])
             ELSE kept[n - 1]
  IN  kept[Len(dataset.questions)]

\* split_fingerprint: a hash of the (id, split) pairs is taken as the pairs.
IdsOnly(dataset) ==  \* faulty: which split an id is in does not count
  {dataset.questions[i].id : i \in DOMAIN dataset.questions}

SplitFingerprint(dataset) ==
  {<<dataset.questions[i].id, dataset.questions[i].split>> :
     i \in DOMAIN dataset.questions}
=============================================================================
