\* A critical, an inferred, an optional and a numeric header field; up to
\* one line item with a text, a number and a SAP-managed field.
CONSTANTS
  HeaderFields = {"invoice_number", "currency", "po_number", "total_amount"}
  LineFields = {"description", "amount", "gl_account"}
  MaxLines = 1
SPECIFICATION Spec
INVARIANT FlagsAreTheDoubts
INVARIANT AlwaysReviewed
INVARIANT CriticalDoubtIsCritical
