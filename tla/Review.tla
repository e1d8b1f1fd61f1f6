------------------------------- MODULE Review -------------------------------
(***************************************************************************)
(* Stages 5 to 7 of run_pipeline: every value the LLM returned is compared *)
(* with the text of the document (grounding), the business rules are run,  *)
(* and both decide the flags and the status of the result.                 *)
(*                                                                         *)
(* A value is abstracted to what the stages tell apart:                    *)
(*   null       None                                                       *)
(*   empty      ""                                                         *)
(*   blank      a string of white space                                    *)
(*   printed    found in the source text (exactly, by fuzzy match, or as a *)
(*              number or a date in another format)                        *)
(*   unprinted  not found there                                            *)
(***************************************************************************)
EXTENDS Naturals, Sequences

CONSTANTS HeaderFields,   \* the header fields of an instance
          LineFields,     \* the fields of a line item of an instance
          MaxLines        \* bound: line items of an invoice

(* constants.py and invoice_schema.py *)
CriticalHeader == {"invoice_number", "invoice_date", "vendor_name", "customer_name", "currency"}
WarningHeader  == {"company_code"}
Inferred       == {"company_code", "currency"}
SapManaged     == {"gl_account", "cost_center", "profit_center"}

MandatoryText   == CriticalHeader \cup WarningHeader \cup {"description"}
MandatoryNumber == {"subtotal", "tax_amount", "total_amount", "amount"}
OptionalNumber  == {"tax_percent", "quantity", "unit_price"}
OptionalHeader  == {"due_date", "payment_terms", "vendor_address", "vendor_tax_id",
                    "vendor_bank_name", "vendor_account_no", "vendor_sort_code",
                    "vendor_iban", "customer_address", "po_number", "reference_number",
                    "tax_percent"}
OptionalLine    == {"line_no", "quantity", "unit_price", "tax_percent", "reference_code"}
                   \cup SapManaged

ASSUME ReviewAssumption ==
  /\ HeaderFields \subseteq CriticalHeader \cup WarningHeader \cup OptionalHeader
                              \cup (MandatoryNumber \ {"amount"})
  /\ {"currency", "total_amount"} \subseteq HeaderFields
  /\ LineFields \subseteq {"description", "amount"} \cup OptionalLine
  /\ {"description", "amount"} \subseteq LineFields
  /\ MaxLines \in Nat

\* What pydantic accepts for a field.
ValuesOf(f) ==
  CASE f \in MandatoryText   -> {"empty", "blank", "printed", "unprinted"}
    [] f \in MandatoryNumber -> {"printed", "unprinted"}
    [] f \in OptionalNumber  -> {"null", "printed", "unprinted"}
    [] OTHER                 -> {"null", "empty", "blank", "printed", "unprinted"}

Values  == {"null", "empty", "blank", "printed", "unprinted"}
Headers == {h \in [HeaderFields -> Values] : \A f \in HeaderFields : h[f] \in ValuesOf(f)}
Lines   == {l \in [LineFields -> Values] : \A f \in LineFields : l[f] \in ValuesOf(f)}

\* balanced: subtotal + tax_amount is total_amount, within the tolerance.
\* additional_fields is left out: no stage looks at it.
Extractions ==
  [header: Headers, lines: UNION {[1..n -> Lines] : n \in 0..MaxLines}, balanced: BOOLEAN]

\* normalize_document: where the text came from and how sure the OCR was.
Documents == {[source |-> "digital", confidence |-> "none"],
              [source |-> "mixed", confidence |-> "none"]}
             \cup [source: {"ocr", "mixed"}, confidence: {"low", "good"}]

\* Paths: <<0, f>> is a header field, <<i, f>> a field of line item i.
LineNumbers(e) == DOMAIN e.lines
Paths(e) == ({0} \X HeaderFields) \cup (LineNumbers(e) \X LineFields)
ValueAt(e, p) == IF p[1] = 0 THEN e.header[p[2]] ELSE e.lines[p[1]][p[2]]
CriticalPaths == {0} \X CriticalHeader

Flag(p, reason, severity) == [field |-> p, reason |-> reason, severity |-> severity]

VARIABLES
  stage,                 \* "text", "structured", "grounded", "ruled" or "done"
  document, extraction,  \* the invoice under way
  groundings,            \* ground_extraction: [path, match] per checked value
  violations,            \* run_business_rules
  flags, status          \* assign_status
vars == <<stage, document, extraction, groundings, violations, flags, status>>
-----------------------------------------------------------------------------
(* grounding.py *)

Missing(v) == v \in {"null", "empty"}

\* Seeded defects: inference not reported; null SAP fields checked too;
\* every missing header field a warning.
MatchFieldTrustsInference(p, v) ==
  IF p[1] # 0 /\ p[2] \in SapManaged THEN "unexpected_sap_field"
  ELSE IF v = "unprinted" THEN "ungrounded" ELSE "grounded"

CheckedAllSap(e) ==
  {p \in Paths(e) : (p[1] # 0 /\ p[2] \in SapManaged) \/ ~Missing(ValueAt(e, p))}

CheckMandatoryWarns(e) ==
  {Flag(<<0, f>>, "missing_mandatory", "warning") :
     f \in {g \in HeaderFields \cap (CriticalHeader \cup WarningHeader) : Missing(e.header[g])}}

MatchField(p, v) ==
  IF p[1] # 0 /\ p[2] \in SapManaged THEN "unexpected_sap_field"
  ELSE IF p[2] \in Inferred THEN "inferred"
  ELSE IF v = "unprinted" THEN "ungrounded" ELSE "grounded"

\* A SAP-managed field is checked unless it is None, any other unless it is
\* None or "".
Checked(e) ==
  {p \in Paths(e) : IF p[1] # 0 /\ p[2] \in SapManaged
                    THEN ValueAt(e, p) # "null" ELSE ~Missing(ValueAt(e, p))}

GroundExtraction(e) == {[path |-> p, match |-> MatchField(p, ValueAt(e, p))] : p \in Checked(e)}

(* business_rules.py *)

CheckMandatory(e) ==
  {Flag(<<0, f>>, "missing_mandatory", IF f \in CriticalHeader THEN "critical" ELSE "warning") :
     f \in {g \in HeaderFields \cap (CriticalHeader \cup WarningHeader) : Missing(e.header[g])}}

CheckArithmetic(e) ==
  IF e.balanced THEN {} ELSE {Flag(<<0, "total_amount">>, "arithmetic_mismatch", "warning")}

CheckLineItems(e) ==
  IF e.lines = <<>>
  THEN {Flag(<<0, "line_items">>, "empty_line_items", "critical")}
  ELSE {Flag(p, "missing_mandatory", "critical") :
          p \in {q \in LineNumbers(e) \X {"description", "amount"} : Missing(ValueAt(e, q))}}

RunBusinessRules(e) == CheckMandatory(e) \cup CheckArithmetic(e) \cup CheckLineItems(e)

(* status.py *)

GroundingFlag(g) ==
  CASE g.match = "unexpected_sap_field" -> Flag(g.path, "sap_managed_field_populated", "warning")
    [] g.match = "inferred"             -> Flag(g.path, "inferred", "warning")
    [] OTHER -> Flag(g.path, "ungrounded",
                     IF g.path \in CriticalPaths THEN "critical" ELSE "warning")

ConfidenceFlags(d) ==
  IF d.source \in {"ocr", "mixed"} /\ d.confidence = "low"
  THEN {Flag(<<0, "_document">>, "low_ocr_confidence", "warning")} ELSE {}

AllFlags(vs, gs, d) ==
  vs \cup {GroundingFlag(g) : g \in {x \in gs : x.match # "grounded"}} \cup ConfidenceFlags(d)
-----------------------------------------------------------------------------
(* run_pipeline, stages 4 to 7.                                            *)

NoExtraction == [header |-> <<>>, lines |-> <<>>, balanced |-> TRUE]

Init ==
  /\ stage = "text" /\ document \in Documents /\ extraction = NoExtraction
  /\ groundings = {} /\ violations = {} /\ flags = {} /\ status = "none"

\* The LLM's answer passed the schema.
Structure ==
  /\ stage = "text"
  /\ extraction' \in Extractions
  /\ stage' = "structured"
  /\ UNCHANGED <<document, groundings, violations, flags, status>>

Ground ==
  /\ stage = "structured"
  /\ stage' = "grounded" /\ groundings' = GroundExtraction(extraction)
  /\ UNCHANGED <<document, extraction, violations, flags, status>>

ApplyRules ==
  /\ stage = "grounded"
  /\ stage' = "ruled" /\ violations' = RunBusinessRules(extraction)
  /\ UNCHANGED <<document, extraction, groundings, flags, status>>

AssignStatus ==
  /\ stage = "ruled"
  /\ stage' = "done"
  /\ flags' = AllFlags(violations, groundings, document)
  /\ status' = IF flags' # {} THEN "needs_review" ELSE "success"
  /\ UNCHANGED <<document, extraction, groundings, violations>>

\* The next invoice.
Again ==
  /\ stage = "done"
  /\ stage' = "text" /\ document' \in Documents /\ extraction' = NoExtraction
  /\ groundings' = {} /\ violations' = {} /\ flags' = {} /\ status' = "none"

Next == Structure \/ Ground \/ ApplyRules \/ AssignStatus \/ Again

Spec == Init /\ [][Next]_vars
-----------------------------------------------------------------------------
(* What a reader of the result may doubt: a value that is not in the text, *)
(* a mandatory text that is missing, an inferred value, a value for a      *)
(* field only SAP fills in, a total that does not add up.                  *)
Mandatory(p) ==
  IF p[1] = 0 THEN p[2] \in CriticalHeader \cup WarningHeader ELSE p[2] = "description"

Doubtful(e, p) ==
  \/ ValueAt(e, p) = "unprinted"
  \/ Mandatory(p) /\ Missing(ValueAt(e, p))
  \/ p[1] = 0 /\ p[2] \in Inferred
  \/ p[1] # 0 /\ p[2] \in SapManaged /\ ValueAt(e, p) # "null"
  \/ p = <<0, "total_amount">> /\ ~e.balanced

\* "anything unverifiable is flagged ..., never silently returned as fact"
\* (README): the fields of header and line items with a flag are exactly
\* the doubtful ones, none is passed over and none is flagged for nothing.
FlagsAreTheDoubts ==
  stage = "done" =>
    \A p \in Paths(extraction) :
      Doubtful(extraction, p) <=> \E flag \in flags : flag.field = p

\* company_code and currency "are always flagged for review by design"
\* (README), and currency is critical when it is missing: so no result at
\* all gets the status success.
AlwaysReviewed == stage = "done" => status = "needs_review"

\* A critical header field that is missing or not in the text is flagged as
\* critical by one of the two stages, whichever of them notices.
CriticalDoubtIsCritical ==
  stage = "done" =>
    \A f \in (HeaderFields \cap CriticalHeader) \ Inferred :
      extraction.header[f] \in {"empty", "unprinted"}
        => \E flag \in flags : flag.field = <<0, f>> /\ flag.severity = "critical"
=============================================================================
