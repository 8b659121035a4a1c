----------------------------- MODULE MCEvidence -----------------------------
(***************************************************************************)
(* Small instances of Evidence: one record content of each kind.           *)
(***************************************************************************)
EXTENDS Evidence

CONSTANTS
    plain, secret, bad, big, \* record contents, one of each kind
    c1                       \* a client

MCKind == [c \in Contents |->
    CASE c = plain -> "plain"
      [] c = secret -> "secret"
      [] c = bad -> "malformed"
      [] c = big -> "large"]
=============================================================================
