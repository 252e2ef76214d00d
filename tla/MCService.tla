----------------------------- MODULE MCService -----------------------------
(* An instance of Service for TLC. *)
EXTENDS Service, TLC

Symmetry == Permutations(Requests)
Served == {"chinook", "pagila"}
ThreeTargets == Served \cup {"spare"}

----------------------------------------------------------------------------
(* Texts.                                                                  *)

Text(parsed) == [tooLong |-> FALSE, parsed |-> parsed, calls |-> FALSE]
Tree(class, up, operand) == [class |-> class, up |-> up, operand |-> operand]

Count == Tree(<<"Select">>, <<0>>, <<FALSE>>)
\* (SELECT ...) UNION VALUES ...;
Monthly ==
  Text(<<Tree(<<"Union", "Subquery", "Select", "Values">>, <<0, 1, 2, 1>>,
              <<FALSE, TRUE, TRUE, TRUE>>), Empty>>)
\* WITH ... AS (INSERT ...) SELECT ...
Inserting == Text(<<Tree(<<"Select", "CTE", "Insert">>, <<0, 1, 2>>,
                         <<FALSE, FALSE, FALSE>>)>>)
\* SELECT ... FOR UPDATE
Locking == Text(<<Tree(<<"Select", "Lock">>, <<0, 1>>, <<FALSE, FALSE>>)>>)
\* SELECT ... / ..., which may be a NaN
Ratio == Text(<<Tree(<<"Select", "Div">>, <<0, 1>>, <<FALSE, FALSE>>)>>)
\* SELECT nextval(...)
Calling == [Text(<<Count>>) EXCEPT !.calls = TRUE]
Health == Text(<<Tree(<<"Select", "Subquery", "Select">>, <<0, 1, 2>>,
                      <<FALSE, FALSE, TRUE>>)>>)
Listing == Text(<<Count>>)

\* chinook has an amount for each number, and pagila a label and a value out of
\* JSON, more of them than can be fetched. Nobody is told where spare is.
Databases2 ==
  [chinook |->
     (Monthly :> [columns |-> 2,
                  rows |-> <<<<"int", "decimal">>, <<"int", "decimal">>>>])
     @@ (Ratio :> [columns |-> 1, rows |-> <<<<"nonfinite">>>>])
     @@ (Health :> [columns |-> 3, rows |-> <<<<"str", "str", "int">>>>]),
   pagila |->
     (Monthly :> [columns |-> 2,
                  rows |-> <<<<"date", "null">>, <<"date", "int">>, <<"date", "other">>,
                             <<"date", "int">>>>]),
   spare |-> <<>>]

----------------------------------------------------------------------------
(* Catalogues: chinook gains an album, and a column that refers to it.     *)

Relation(oid, name, kind) ==
  [oid |-> oid, name |-> name, kind |-> kind, namespace |-> "public"]
Attribute(rel, num, name) ==
  [rel |-> rel, num |-> num, name |-> name, type |-> "integer", notnull |-> num = 1,
   dropped |-> FALSE]

Before ==
  [relations |-> {Relation(1, "track", "r"), Relation(2, "totals", "m")},
   attributes |-> {Attribute(1, 1, "id"), Attribute(2, 1, "sum"),
                   [Attribute(1, 2, "disc") EXCEPT !.dropped = TRUE]},
   primary |-> {[rel |-> 1, columns |-> {1}]},
   foreign |-> {}]
After ==
  [relations |-> Before.relations \cup {Relation(3, "album", "r")},
   attributes |-> Before.attributes \cup {Attribute(1, 3, "album"),
                                          Attribute(3, 1, "id")},
   primary |-> Before.primary \cup {[rel |-> 3, columns |-> {1}]},
   foreign |-> {[name |-> "fk", rel |-> 1, referred |-> 3, namespace |-> "public",
                 columns |-> <<3>>, referredColumns |-> <<1>>]}]
\* More columns than a query may give.
Wide ==
  [relations |-> {Relation(1, "film", "v")},
   attributes |-> {Attribute(1, n, "c") : n \in 1..4},
   primary |-> {}, foreign |-> {}]
Nothing == [relations |-> {}, attributes |-> {}, primary |-> {}, foreign |-> {}]
Deployed == [chinook |-> Before, pagila |-> Wide, spare |-> Nothing]
Schemas == [chinook |-> {Before, After}, pagila |-> {Wide}, spare |-> {Nothing}]

----------------------------------------------------------------------------
(* Configurations and requests.                                            *)

OldSecret == [analyst |-> "old"]
UserMaps == {[analyst |-> "old"], [analyst |-> "new"], Unreadable}
Proxies == {{"10.0.0.1"}}
Hosts == {"10.0.0.1", "192.0.2.7"}

Basic(password) ==
  [scheme |-> "basic", decoded |-> [username |-> "analyst", password |-> password]]
Ask(database, header) ==
  [path |-> "/ask", database |-> database, header |-> header,
   scheme |-> "http", host |-> "10.0.0.1", proto |-> "https", forwardedFor |-> None]
Get(path, header) ==
  [path |-> path, database |-> None, header |-> header,
   scheme |-> "http", host |-> "192.0.2.7", proto |-> None, forwardedFor |-> "10.0.0.1"]

Traffic ==
  {Ask(None, Basic("old")), Ask("pagila", Basic("new")), Ask("elsewhere", Basic("old")),
   Get("/health", Basic("old")), Get("/databases", Basic("old")),
   Get("/schema", Basic("new")),
   [Get("/schema", Basic("new")) EXCEPT !.database = "spare"]}
Written == {Monthly, Ratio, Inserting, Locking, Calling}
=============================================================================
