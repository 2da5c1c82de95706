------------------------------- MODULE PyNone -------------------------------
(* Python's None: a model value that is no number, string or identifier.   *)
CONSTANT None
=============================================================================
