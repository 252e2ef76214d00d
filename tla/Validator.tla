----------------------------- MODULE Validator -----------------------------
(***************************************************************************)
(* safety/validator.py: which texts may reach the database.                *)
(*                                                                         *)
(* A text is what sqlglot makes of it: whether it is within the length     *)
(* limit, and the statements it parses to, or Unparsed.  A statement is    *)
(* Empty (a stray semicolon) or a syntax tree: nodes 1..n, 1 the root,     *)
(* each with its class, its parent (which has a smaller number) and        *)
(* whether it is an operand: a side of a set operation, or what a          *)
(* parenthesis holds.  `calls` says that a function it calls writes, which *)
(* no syntax shows.                                                        *)
(***************************************************************************)
EXTENDS Naturals, Sequences

CONSTANTS Unparsed, Empty

\* sqlglot's families.
SetOperation == {"Union", "Intersect", "Except"}
DML == {"Insert", "Update", "Delete", "Merge", "Copy"}
DDL == {"Create"}

AllowedRoots == {"Select"} \cup SetOperation
AllowedBranches == {"Select", "Subquery", "Values"} \cup SetOperation
ForbiddenNodes ==
  DML \cup DDL \cup
  {"Command", "Drop", "Alter", "TruncateTable", "Set", "Grant", "Revoke", "Into"}

Nodes(tree) == DOMAIN tree.class

\* The nodes _first_disallowed_branch comes to: down from the root through the
\* sides of set operations and through parentheses.
Visited(tree) ==
  LET visited[n \in Nodes(tree)] ==
        \/ n = 1
        \/ /\ tree.operand[n]
           /\ tree.class[tree.up[n]] \in SetOperation \cup {"Subquery"}
           /\ visited[tree.up[n]]
  IN  {n \in Nodes(tree) : visited[n]}

DisallowedBranches(tree) ==
  {n \in Visited(tree) \ {1} :
     /\ tree.class[tree.up[n]] \in SetOperation
     /\ tree.class[n] \notin AllowedBranches}

WalkOfTheRoot(tree) == {tree.class[1]}  \* faulty: a CTE is not looked into

Walk(tree) == {tree.class[n] : n \in Nodes(tree)}

IsQuery(tree) ==
  /\ tree.class[1] \in AllowedRoots
  /\ Walk(tree) \cap ForbiddenNodes = {}
  /\ DisallowedBranches(tree) = {}

\* validate_sql: the statements left when the empty ones are dropped are one
\* query.
ValidateSql(text) ==
  /\ ~text.tooLong
  /\ text.parsed # Unparsed
  /\ \E i \in DOMAIN text.parsed :
       /\ text.parsed[i] # Empty
       /\ \A j \in DOMAIN text.parsed \ {i} : text.parsed[j] = Empty
       /\ IsQuery(text.parsed[i])
=============================================================================
