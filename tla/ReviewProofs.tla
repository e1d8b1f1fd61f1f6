----------------------------- MODULE ReviewProofs -----------------------------
(* Theorems about Review, for any choice of fields that has currency,      *)
(* total_amount, description and amount, and any number of line items.     *)
EXTENDS Review, TLAPS

\* A result is what the stages make of the extraction it was built from.
ReviewInv ==
  /\ stage \in {"text", "structured", "grounded", "ruled", "done"}
  /\ stage # "text" => extraction \in Extractions
  /\ stage \in {"grounded", "ruled", "done"} => groundings = GroundExtraction(extraction)
  /\ stage \in {"ruled", "done"} => violations = RunBusinessRules(extraction)
  /\ stage = "done" => /\ flags = AllFlags(violations, groundings, document)
                       /\ status = IF flags # {} THEN "needs_review" ELSE "success"

LEMMA ReviewInvariant == Spec => []ReviewInv
  <1>1. Init => ReviewInv
    BY DEF Init, ReviewInv
  <1>2. ReviewInv /\ [Next]_vars => ReviewInv'
    <2> SUFFICES ASSUME ReviewInv, [Next]_vars PROVE ReviewInv'
      OBVIOUS
    <2>1. CASE Structure
      BY <2>1 DEF Structure, ReviewInv
    <2>2. CASE Ground
      BY <2>2 DEF Ground, ReviewInv
    <2>3. CASE ApplyRules
      BY <2>3 DEF ApplyRules, ReviewInv
    <2>4. CASE AssignStatus
      BY <2>4 DEF AssignStatus, ReviewInv
    <2>5. CASE Again \/ UNCHANGED vars
      BY <2>5 DEF Again, ReviewInv, vars
    <2>6. QED
      BY <2>1, <2>2, <2>3, <2>4, <2>5 DEF Next
  <1>3. QED
    BY <1>1, <1>2, PTL DEF Spec

\* Whichever value currency has, one of the stages flags it.
LEMMA CurrencyFlagged ==
  ASSUME NEW e \in Extractions, NEW d
  PROVE  AllFlags(RunBusinessRules(e), GroundExtraction(e), d) # {}
  <1> DEFINE p == <<0, "currency">>
  <1>1. /\ "currency" \in HeaderFields \cap CriticalHeader
        /\ "currency" \in Inferred
        /\ p \in Paths(e) /\ p[1] = 0 /\ p[2] = "currency"
    BY ReviewAssumption DEF ReviewAssumption, CriticalHeader, Inferred, Paths
  <1>2. CASE Missing(ValueAt(e, p))
    <2>1. Flag(p, "missing_mandatory", "critical") \in CheckMandatory(e)
      BY <1>1, <1>2 DEF CheckMandatory, ValueAt
    <2>2. QED
      BY <2>1 DEF AllFlags, RunBusinessRules
  <1>3. CASE ~Missing(ValueAt(e, p))
    <2> DEFINE g == [path |-> p, match |-> "inferred"]
    <2>1. p \in Checked(e)
      BY <1>1, <1>3 DEF Checked
    <2>2. MatchField(p, ValueAt(e, p)) = "inferred"
      BY <1>1 DEF MatchField
    <2>3. g \in GroundExtraction(e)
      BY <2>1, <2>2 DEF GroundExtraction
    <2>4. GroundingFlag(g) \in AllFlags(RunBusinessRules(e), GroundExtraction(e), d)
      BY <2>3 DEF AllFlags
    <2>5. QED
      BY <2>4
  <1>4. QED
    BY <1>2, <1>3

\* No result gets the status success: currency is critical when it is
\* missing and inferred, hence flagged, when it is not.
THEOREM NeverSuccess == Spec => []AlwaysReviewed
  <1>1. ReviewInv => AlwaysReviewed
    BY CurrencyFlagged DEF ReviewInv, AlwaysReviewed
  <1>2. QED
    BY <1>1, ReviewInvariant, PTL
-----------------------------------------------------------------------------
(* Which fields carry a flag.                                              *)

\* Fields of an extraction and what pydantic let into them.
LEMMA PathFacts ==
  ASSUME NEW e \in Extractions, NEW p \in Paths(e)
  PROVE  /\ \/ p[1] = 0 /\ p[2] \in HeaderFields /\ p = <<0, p[2]>>
            \/ p[1] # 0 /\ p[1] \in LineNumbers(e) /\ p[2] \in LineFields
         /\ p[1] # 0 => p[2] \notin Inferred
         /\ p[1] # 0 /\ p[2] = "amount" => ~Missing(ValueAt(e, p))
         /\ p # <<0, "line_items">> /\ p # <<0, "_document">>
  <1>1. PICK n \in 0..MaxLines : e.lines \in [1..n -> Lines]
    BY DEF Extractions
  <1>2. LineNumbers(e) = 1..n /\ 0 \notin LineNumbers(e)
    BY <1>1, ReviewAssumption DEF LineNumbers, ReviewAssumption
  <1>3. \/ p[1] = 0 /\ p[2] \in HeaderFields /\ p = <<0, p[2]>>
        \/ p[1] # 0 /\ p[1] \in LineNumbers(e) /\ p[2] \in LineFields
    BY <1>2 DEF Paths
  <1>4. p[1] # 0 => p[2] \notin Inferred
    BY <1>3, ReviewAssumption
    DEF ReviewAssumption, Inferred, OptionalLine, SapManaged
  <1>5. ASSUME p[1] # 0, p[2] = "amount" PROVE ~Missing(ValueAt(e, p))
    <2>1. e.lines[p[1]] \in Lines /\ "amount" \in LineFields
      BY <1>1, <1>2, <1>3, <1>5, ReviewAssumption DEF ReviewAssumption
    <2>2. e.lines[p[1]]["amount"] \in ValuesOf("amount")
      BY <2>1 DEF Lines
    <2>3. ValuesOf("amount") = {"printed", "unprinted"}
      BY DEF ValuesOf, MandatoryText, MandatoryNumber, OptionalNumber, CriticalHeader,
             WarningHeader
    <2>4. QED
      BY <1>5, <2>2, <2>3 DEF ValueAt, Missing
  <1>6. "line_items" \notin HeaderFields /\ "_document" \notin HeaderFields
    BY ReviewAssumption
    DEF ReviewAssumption, CriticalHeader, WarningHeader, OptionalHeader, MandatoryNumber
  <1>7. p # <<0, "line_items">> /\ p # <<0, "_document">>
    BY <1>3, <1>6
  <1>8. QED
    BY <1>3, <1>4, <1>5, <1>7

\* The flags the rules and the grounding raise for a field.
LEMMA RuleFlags ==
  ASSUME NEW e \in Extractions, NEW p \in Paths(e)
  PROVE  (\E flag \in RunBusinessRules(e) : flag.field = p)
           <=> \/ Mandatory(p) /\ Missing(ValueAt(e, p))
               \/ p = <<0, "total_amount">> /\ ~e.balanced
  <1>1. (\E flag \in CheckMandatory(e) : flag.field = p)
          <=> p[1] = 0 /\ Mandatory(p) /\ Missing(ValueAt(e, p))
    <2>1. ASSUME NEW flag \in CheckMandatory(e), flag.field = p
          PROVE  p[1] = 0 /\ Mandatory(p) /\ Missing(ValueAt(e, p))
      BY <2>1 DEF CheckMandatory, Flag, Mandatory, ValueAt
    <2>2. ASSUME p[1] = 0, Mandatory(p), Missing(ValueAt(e, p))
          PROVE  \E flag \in CheckMandatory(e) : flag.field = p
      <3> DEFINE severity == IF p[2] \in CriticalHeader THEN "critical" ELSE "warning"
      <3>1. p = <<0, p[2]>> /\ p[2] \in HeaderFields
        BY <2>2, PathFacts
      <3>2. Flag(<<0, p[2]>>, "missing_mandatory", severity) \in CheckMandatory(e)
        BY <2>2, <3>1 DEF CheckMandatory, Mandatory, ValueAt
      <3>3. QED
        BY <3>1, <3>2 DEF Flag
    <2>3. QED
      BY <2>1, <2>2
  <1>2. (\E flag \in CheckArithmetic(e) : flag.field = p)
          <=> p = <<0, "total_amount">> /\ ~e.balanced
    <2>1. CASE e.balanced
      BY <2>1 DEF CheckArithmetic
    <2>2. CASE ~e.balanced
      <3> DEFINE f == Flag(<<0, "total_amount">>, "arithmetic_mismatch", "warning")
      <3>1. CheckArithmetic(e) = {f}
        BY <2>2 DEF CheckArithmetic
      <3>2. f.field = <<0, "total_amount">>
        BY DEF Flag
      <3> HIDE DEF f
      <3>3. QED
        BY <2>2, <3>1, <3>2
    <2>3. QED
      BY <2>1, <2>2
  <1>3. (\E flag \in CheckLineItems(e) : flag.field = p)
          <=> p[1] # 0 /\ Mandatory(p) /\ Missing(ValueAt(e, p))
    <2>1. ASSUME NEW flag \in CheckLineItems(e), flag.field = p
          PROVE  p[1] # 0 /\ Mandatory(p) /\ Missing(ValueAt(e, p))
      <3>1. e.lines # <<>>
        BY <2>1, PathFacts DEF CheckLineItems, Flag
      <3>2. p \in LineNumbers(e) \X {"description", "amount"} /\ Missing(ValueAt(e, p))
        BY <2>1, <3>1 DEF CheckLineItems, Flag
      <3>3. p[1] # 0
        <4>1. PICK n \in 0..MaxLines : e.lines \in [1..n -> Lines]
          BY DEF Extractions
        <4>2. 0 \notin LineNumbers(e)
          BY <4>1, ReviewAssumption DEF LineNumbers, ReviewAssumption
        <4>3. QED
          BY <3>2, <4>2
      <3>4. QED
        BY <3>2, <3>3, PathFacts DEF Mandatory
    <2>2. ASSUME p[1] # 0, Mandatory(p), Missing(ValueAt(e, p))
          PROVE  \E flag \in CheckLineItems(e) : flag.field = p
      <3>1. p[1] \in LineNumbers(e) /\ p[2] = "description"
        BY <2>2, PathFacts DEF Mandatory
      <3>2. p \in LineNumbers(e) \X {"description", "amount"}
        BY <3>1 DEF Paths
      <3>3. e.lines # <<>>
        BY <3>1 DEF LineNumbers
      <3>4. Flag(p, "missing_mandatory", "critical") \in CheckLineItems(e)
        BY <2>2, <3>2, <3>3 DEF CheckLineItems
      <3>5. QED
        BY <3>4 DEF Flag
    <2>3. QED
      BY <2>1, <2>2
  <1>4. QED
    BY <1>1, <1>2, <1>3 DEF RunBusinessRules

LEMMA GroundingFlags ==
  ASSUME NEW e \in Extractions, NEW p \in Paths(e)
  PROVE  (\E g \in GroundExtraction(e) : g.match # "grounded" /\ g.path = p)
           <=> p \in Checked(e) /\ MatchField(p, ValueAt(e, p)) # "grounded"
  <1>1. ASSUME NEW g \in GroundExtraction(e), g.match # "grounded", g.path = p
        PROVE  p \in Checked(e) /\ MatchField(p, ValueAt(e, p)) # "grounded"
    BY <1>1 DEF GroundExtraction
  <1>2. ASSUME p \in Checked(e), MatchField(p, ValueAt(e, p)) # "grounded"
        PROVE  \E g \in GroundExtraction(e) : g.match # "grounded" /\ g.path = p
    <2>1. [path |-> p, match |-> MatchField(p, ValueAt(e, p))] \in GroundExtraction(e)
      BY <1>2 DEF GroundExtraction
    <2>2. QED
      BY <1>2, <2>1
  <1>3. QED
    BY <1>1, <1>2

LEMMA DoubtsOfChecked ==
  ASSUME NEW e \in Extractions, NEW p \in Paths(e)
  PROVE  Doubtful(e, p)
           <=> \/ p \in Checked(e) /\ MatchField(p, ValueAt(e, p)) # "grounded"
               \/ Mandatory(p) /\ Missing(ValueAt(e, p))
               \/ p = <<0, "total_amount">> /\ ~e.balanced
  <1> DEFINE v == ValueAt(e, p)
             Bad == p \in Checked(e) /\ MatchField(p, v) # "grounded"
  <1>1. CASE p[1] # 0 /\ p[2] \in SapManaged
    <2>1. Bad <=> v # "null"
      BY <1>1 DEF Checked, MatchField
    <2>2. QED
      BY <1>1, <2>1, PathFacts DEF Doubtful
  <1>2. CASE p[1] = 0 /\ p[2] \in Inferred
    <2>1. Bad <=> ~Missing(v)
      BY <1>2 DEF Checked, MatchField
    <2>2. Mandatory(p)
      BY <1>2 DEF Mandatory, Inferred, CriticalHeader, WarningHeader
    <2>3. QED
      BY <1>2, <2>1, <2>2 DEF Doubtful
  <1>3. CASE ~(p[1] # 0 /\ p[2] \in SapManaged) /\ p[2] \notin Inferred
    <2>1. Bad <=> v = "unprinted"
      BY <1>3 DEF Checked, MatchField, Missing
    <2>2. QED
      BY <1>3, <2>1 DEF Doubtful
  <1>4. QED
    BY <1>1, <1>2, <1>3, PathFacts

\* The flags of a result name exactly the fields a reader may doubt.
THEOREM FlagsExact == Spec => []FlagsAreTheDoubts
  <1>1. ReviewInv => FlagsAreTheDoubts
    <2> SUFFICES ASSUME ReviewInv, stage = "done", NEW p \in Paths(extraction)
                 PROVE  Doubtful(extraction, p) <=> \E flag \in flags : flag.field = p
      BY DEF FlagsAreTheDoubts
    <2> DEFINE e == extraction
               Grounds == {GroundingFlag(g) :
                             g \in {x \in GroundExtraction(e) : x.match # "grounded"}}
    <2>1. e \in Extractions
      BY DEF ReviewInv
    <2>2. flags = RunBusinessRules(e) \cup Grounds \cup ConfidenceFlags(document)
      BY DEF ReviewInv, AllFlags
    <2>3. ~\E flag \in ConfidenceFlags(document) : flag.field = p
      BY <2>1, PathFacts DEF ConfidenceFlags, Flag
    <2>4. \A g : GroundingFlag(g).field = g.path
      BY DEF GroundingFlag, Flag
    <2>5. (\E flag \in Grounds : flag.field = p)
            <=> \E g \in GroundExtraction(e) : g.match # "grounded" /\ g.path = p
      BY <2>4
    <2>6. QED
      BY <2>1, <2>2, <2>3, <2>5, RuleFlags, GroundingFlags, DoubtsOfChecked
  <1>2. QED
    BY <1>1, ReviewInvariant, PTL
-----------------------------------------------------------------------------
(* How severe the flags are.                                               *)

\* An empty critical field is the rules' to report.
LEMMA EmptyIsCritical ==
  ASSUME NEW e \in Extractions, NEW f \in HeaderFields \cap CriticalHeader,
         e.header[f] = "empty"
  PROVE  Flag(<<0, f>>, "missing_mandatory", "critical") \in RunBusinessRules(e)
  <1>1. f \in {g \in HeaderFields \cap (CriticalHeader \cup WarningHeader) :
                  Missing(e.header[g])}
    BY DEF Missing
  <1>2. Flag(<<0, f>>, "missing_mandatory", "critical") \in CheckMandatory(e)
    BY <1>1 DEF CheckMandatory
  <1>3. QED
    BY <1>2 DEF RunBusinessRules

\* One that is not in the text is the grounding's.
LEMMA UnprintedIsCritical ==
  ASSUME NEW e \in Extractions, NEW f \in (HeaderFields \cap CriticalHeader) \ Inferred,
         e.header[f] = "unprinted"
  PROVE  \E g \in GroundExtraction(e) :
           /\ g.match # "grounded"
           /\ GroundingFlag(g) = Flag(<<0, f>>, "ungrounded", "critical")
  <1> DEFINE p == <<0, f>>
             g == [path |-> p, match |-> "ungrounded"]
  <1>1. p \in Paths(e) /\ p[1] = 0 /\ p[2] = f /\ ValueAt(e, p) = "unprinted"
    BY DEF Paths, ValueAt
  <1>2. p \in Checked(e) /\ MatchField(p, ValueAt(e, p)) = "ungrounded"
    BY <1>1 DEF Checked, MatchField, Missing
  <1>3. g \in GroundExtraction(e)
    BY <1>2 DEF GroundExtraction
  <1>4. p \in CriticalPaths
    BY DEF CriticalPaths
  <1>5. g.match = "ungrounded" /\ g.path = p
    OBVIOUS
  <1> HIDE DEF g, p
  <1>6. GroundingFlag(g) = Flag(p, "ungrounded", "critical")
    BY <1>4, <1>5 DEF GroundingFlag
  <1>7. QED
    BY <1>3, <1>5, <1>6 DEF p

\* Rules and grounding between them leave no critical header field that is
\* missing or not in the text with a warning only.
THEOREM CriticalFlagged == Spec => []CriticalDoubtIsCritical
  <1>1. ReviewInv => CriticalDoubtIsCritical
    <2> SUFFICES ASSUME ReviewInv, stage = "done",
                        NEW f \in (HeaderFields \cap CriticalHeader) \ Inferred,
                        extraction.header[f] \in {"empty", "unprinted"}
                 PROVE  \E flag \in flags : flag.field = <<0, f>> /\ flag.severity = "critical"
      BY DEF CriticalDoubtIsCritical
    <2> DEFINE e == extraction
               Grounds == {GroundingFlag(g) :
                             g \in {x \in GroundExtraction(e) : x.match # "grounded"}}
    <2>1. e \in Extractions
      BY DEF ReviewInv
    <2>2. flags = RunBusinessRules(e) \cup Grounds \cup ConfidenceFlags(document)
      BY DEF ReviewInv, AllFlags
    <2>3. \E reason \in {"missing_mandatory", "ungrounded"} :
            Flag(<<0, f>>, reason, "critical") \in flags
      <3>1. CASE e.header[f] = "empty"
        BY <2>1, <2>2, <3>1, EmptyIsCritical
      <3>2. CASE e.header[f] = "unprinted"
        <4>1. Flag(<<0, f>>, "ungrounded", "critical") \in Grounds
          BY <2>1, <3>2, UnprintedIsCritical
        <4>2. QED
          BY <2>2, <4>1
      <3>3. QED
        BY <3>1, <3>2
    <2>4. QED
      BY <2>3 DEF Flag
  <1>2. QED
    BY <1>1, ReviewInvariant, PTL
=============================================================================
