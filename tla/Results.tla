------------------------------ MODULE Results ------------------------------
(***************************************************************************)
(* What an answer looks like: http/serialization.py turns the rows of the  *)
(* driver into JSON values and http/shapes.py decides how they are drawn.  *)
(* A cell is known by its kind, a row is a sequence of cells.              *)
(***************************************************************************)
EXTENDS Naturals, Sequences, FiniteSets

\* A float may be a NaN or an infinity, which is passed through like any other.
Passthrough == {"str", "int", "float", "nonfinite", "bool", "null"}
CellKinds == Passthrough \cup {"decimal", "date", "time", "interval", "other"}

NullAsText(cell) ==  \* faulty: None is written out with the rest
  IF cell \in Passthrough \ {"null"} THEN cell ELSE "str"

\* What is not of a type JSON has is written out.
ToJsonable(cell) == IF cell \in Passthrough THEN cell ELSE "str"

EncodeRows(rows) ==
  [i \in DOMAIN rows |-> [c \in DOMAIN rows[i] |-> ToJsonable(rows[i][c])]]

\* What a response can carry: JSON has no NaN and no infinity.
Renderable(rows) ==
  \A i \in DOMAIN rows : \A c \in DOMAIN rows[i] : rows[i][c] # "nonfinite"

IsNumeric(cell) == cell \in {"int", "float", "nonfinite", "decimal"}

\* The first value of a column that is not null, and null if there is none.
Filled(rows, column) ==
  {i \in DOMAIN rows : column \in DOMAIN rows[i] /\ rows[i][column] # "null"}

ColumnSample(rows, column) ==
  IF Filled(rows, column) = {} THEN "null"
  ELSE LET first == CHOOSE i \in Filled(rows, column) :
                      \A j \in Filled(rows, column) : i <= j
       IN  rows[first][column]

Measures(rows) == {c \in 1..2 : IsNumeric(ColumnSample(rows, c))}

Classify(columns, rows) ==
  IF rows = <<>> THEN "empty"
  ELSE IF columns = 1 THEN IF Len(rows) = 1 THEN "scalar" ELSE "list"
  ELSE IF Len(rows) > 1 /\ columns = 2 /\ Cardinality(Measures(rows)) = 1
  THEN "chartable"
  ELSE "table"

\* Only of a chartable answer.
ChartSeries(rows) ==
  LET measure == CHOOSE c \in Measures(rows) : TRUE
  IN  [label |-> 3 - measure, measure |-> measure]
=============================================================================
