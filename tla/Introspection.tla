--------------------------- MODULE Introspection ---------------------------
(***************************************************************************)
(* db/introspection.py: a schema put together from three catalogue         *)
(* queries.                                                                *)
(*                                                                         *)
(* A catalogue holds what the queries join: relations (oid, name, kind,    *)
(* namespace), attributes (of an oid), primary keys and foreign keys.  A   *)
(* query gives a set of rows.  Columns in attnum order are a function of   *)
(* the attnum, and likewise the members of a key; tables and keys, which   *)
(* the code sorts, are sets.                                               *)
(***************************************************************************)
EXTENDS Naturals, FiniteSets

CONSTANT NoSchema  \* SchemaIntrospectionError

RelationKinds == {"r", "v"}  \* _KINDS: tables and views

Public(catalogue) ==
  {c \in catalogue.relations : c.namespace = "public" /\ c.kind \in RelationKinds}

RelationRows(catalogue) ==
  {[relname |-> c.name, relkind |-> c.kind] : c \in Public(catalogue)}

\* A column that was dropped stays, and a system column has no positive attnum.
ColumnRows(catalogue) ==
  LET listed(c, a) == a.rel = c.oid /\ a.num > 0 /\ ~a.dropped
      pairs == {p \in Public(catalogue) \X catalogue.attributes : listed(p[1], p[2])}
  IN  {[relname |-> p[1].name, attname |-> p[2].name, attnum |-> p[2].num,
        type |-> p[2].type, notnull |-> p[2].notnull,
        primary |-> \E k \in catalogue.primary :
                      k.rel = p[1].oid /\ p[2].num \in k.columns] : p \in pairs}

\* One row per member of a foreign key; the table it refers to may be anywhere.
KeyRows(catalogue) ==
  LET named(oid) == CHOOSE c \in catalogue.relations : c.oid = oid
      column(oid, num) ==
        CHOOSE a \in catalogue.attributes : a.rel = oid /\ a.num = num
      members(k) ==
        {[relname |-> named(k.rel).name, conname |-> k.name, ordinal |-> i,
          column |-> column(k.rel, k.columns[i]).name,
          referredTable |-> named(k.referred).name,
          referredColumn |-> column(k.referred, k.referredColumns[i]).name] :
           i \in DOMAIN k.columns}
  IN  UNION {members(k) :
               k \in {f \in catalogue.foreign : f.namespace = "public"}}

\* _group_foreign_keys: the rows of one constraint are one key.
GroupForeignKeys(rows) ==
  LET of(name) == {row \in rows : row.conname = name}
      ordinals(name) == {row.ordinal : row \in of(name)}
      member(name, i) == CHOOSE row \in of(name) : row.ordinal = i
  IN  {[columns |-> [i \in ordinals(name) |-> member(name, i).column],
        referredTable |-> member(name, 1).referredTable,
        referredColumns |-> [i \in ordinals(name) |-> member(name, i).referredColumn]] :
         name \in {row.conname : row \in rows}}

\* get_schema, of rows read from what may be three catalogues: the relation
\* list decides which tables there are, and what names another is left out.
Assemble(relations, columns, keys) ==
  LET columnsOf(name) == {row \in columns : row.relname = name}
      column(name, num) == CHOOSE row \in columnsOf(name) : row.attnum = num
      table(relation) ==
        [name |-> relation.relname, kind |-> relation.relkind,
         columns |->
           [num \in {row.attnum : row \in columnsOf(relation.relname)} |->
              LET row == column(relation.relname, num)
              IN  [name |-> row.attname, type |-> row.type,
                   nullable |-> ~row.notnull, primaryKey |-> row.primary]],
         foreignKeys |->
           GroupForeignKeys({row \in keys : row.relname = relation.relname})]
  IN  IF relations = {} THEN NoSchema
      ELSE {table(relation) : relation \in relations}

\* schema_to_dict: neither keys nor nullability leave the process.
SchemaToDict(schema) ==
  {[name |-> t.name, kind |-> t.kind,
    columns |-> [num \in DOMAIN t.columns |->
                   [name |-> t.columns[num].name, type |-> t.columns[num].type]]] :
     t \in schema}
=============================================================================
