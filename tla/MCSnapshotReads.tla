-------------------------- MODULE MCSnapshotReads --------------------------
(***************************************************************************)
(* A small instance of SnapshotReads: a plain record the jaq program turns *)
(* into three values, so that a page ends inside it, and an older redacted *)
(* one on whose second output it fails.                                    *)
(***************************************************************************)
EXTENDS SnapshotReads

CONSTANTS
    plain, secret, big, \* record contents
    c1                  \* a client

MCKind == [c \in Contents |->
    CASE c = plain -> "plain" [] c = secret -> "secret" [] c = big -> "large"]
MCStamp == [c \in Contents |-> IF c = plain THEN 2 ELSE 1]
MCOutputs == [c \in Contents |->
    IF c = plain THEN <<"value", "value", "value">> ELSE <<"value", "error">>]
=============================================================================
