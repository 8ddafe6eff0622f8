--------------------------- MODULE MCRecordReader ---------------------------
(* Every input of a few bytes: line feeds, carriage returns and another.     *)
EXTENDS RecordReader

AnyByte == {"lf", "cr", "x"}
=============================================================================
