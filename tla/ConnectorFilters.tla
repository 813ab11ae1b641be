------------------------- MODULE ConnectorFilters -------------------------
(***************************************************************************)
(* How the connectors push a filter down to their source.  Feishu and      *)
(* Tencent Docs are sent a filter body, an AND of groups of conditions,    *)
(* which the service evaluates; a file is loaded into an in-memory SQLite  *)
(* table and filtered by a WHERE clause.  Satisfies is what a filter means *)
(* whoever evaluates it, and the reference the two are compared with.      *)
(*                                                                         *)
(* A filter names the fields it is about: the one field, or, when virtual, *)
(* the alternatives of or_fields.  Values are ordered as dates are; case   *)
(* and substrings are given by constants.                                  *)
(***************************************************************************)
EXTENDS Integers, Sequences

CONSTANTS
    KnownFields,        \* declared columns of the domain
    RelationshipFields, \* relationship_filter_fields: filters, not columns
    Values,             \* contents of a cell
    EmptyText,          \* the empty text: a cell of a CSV left blank
    Null,               \* no cell
    Folded,             \* [Values -> Values]: the value without its case
    Within              \* pairs <<part, whole>>: substrings

Operators ==
    {"eq", "contains", "in", "is_empty", "date_before", "date_after", "date_between"}

ASSUME FiltersAssumption ==
    /\ KnownFields \cap RelationshipFields = {}
    /\ Values \subseteq Int
    /\ EmptyText \in Values /\ Null \notin Values
    /\ \A v \in Values : EmptyText <= v
    /\ Folded \in [Values -> Values]
    /\ Within \subseteq Values \X Values

FilterFields == KnownFields \cup RelationshipFields

\* A ConnectorFilter: one field, or alternatives if it is virtual, and as many
\* values as its operator takes
FilterOK(f) ==
    /\ f.operator \in Operators /\ f.value \in Seq(Values)
    /\ f.virtual \in BOOLEAN
    /\ ~f.virtual => \E n \in f.names : f.names = {n}
    /\ f.operator \in {"eq", "contains", "date_before", "date_after"} => Len(f.value) = 1
    /\ f.operator = "date_between" => Len(f.value) = 2

-----------------------------------------------------------------------------
\* What a filter means

Blank(cell) == cell \in {Null, EmptyText}

Means(operator, v, cell) ==
    CASE operator = "is_empty"     -> Blank(cell)
      [] operator = "eq"           -> cell = v[1]
      [] operator = "in"           -> \E i \in DOMAIN v : cell = v[i]
      [] operator = "contains"     -> <<v[1], cell>> \in Within
      [] operator = "date_before"  -> ~Blank(cell) /\ cell < v[1]
      [] operator = "date_after"   -> ~Blank(cell) /\ cell > v[1]
      [] operator = "date_between" -> ~Blank(cell) /\ v[1] <= cell /\ cell <= v[2]

Satisfies(filter, row) ==
    \E n \in filter.names : Means(filter.operator, filter.value, row[n])

\* Whether or not case is told apart
Unfold(v) == {w \in Values : Folded[w] = Folded[v]}

SatisfiesFolded(filter, row) ==
    \E n \in filter.names :
        IF filter.operator \in {"eq", "contains"} /\ row[n] # Null
        THEN \E w \in Unfold(filter.value[1]), c \in Unfold(row[n]) :
                 Means(filter.operator, <<w>>, c)
        ELSE Means(filter.operator, filter.value, row[n])

-----------------------------------------------------------------------------
\* Filter bodies (feishu_bitable.py, tencent_docs.py)

\* _FEISHU_OPERATORS and _TENCENT_OPERATORS: the second spells them otherwise
NativeOperators == {"eq", "contains", "is_empty", "date_before", "date_after"}

ConditionFor(field, operator, v) == [field |-> field, operator |-> operator, value |-> v]

\* An `in` has no native form and a range no single operator: each is a group
Group(filter) ==
    CASE filter.virtual ->
             [any |-> TRUE,
              of  |-> {ConditionFor(n, filter.operator, filter.value) : n \in filter.names}]
      [] ~filter.virtual /\ filter.operator = "in" ->
             [any |-> TRUE,
              of  |-> UNION {{ConditionFor(n, "eq", <<filter.value[i]>>) :
                                 i \in DOMAIN filter.value} : n \in filter.names}]
      [] ~filter.virtual /\ filter.operator = "date_between" ->
             [any |-> FALSE,
              of  |-> {ConditionFor(n, "at_least", <<filter.value[1]>>) : n \in filter.names}
                      \cup {ConditionFor(n, "at_most", <<filter.value[2]>>) : n \in filter.names}]
      [] OTHER ->
             [any |-> FALSE,
              of  |-> {ConditionFor(n, filter.operator, filter.value) : n \in filter.names}]

Body(filters) == {Group(f) : f \in filters}

\* _condition_for raises for an operator it cannot push down
Pushable(filter) ==
    \/ filter.operator \in NativeOperators
    \/ ~filter.virtual /\ filter.operator \in {"in", "date_between"}

\* The service's side: one condition of a filter body against a row
ServiceHolds(condition, row) ==
    LET cell == row[condition.field]
        v    == condition.value
    IN  CASE condition.operator = "at_least" -> ~Blank(cell) /\ cell >= v[1]
          [] condition.operator = "at_most"  -> ~Blank(cell) /\ cell <= v[1]
          [] OTHER -> Means(condition.operator, v, cell)

BodyHolds(body, row) ==
    \A g \in body : IF g.any THEN \E c \in g.of : ServiceHolds(c, row)
                             ELSE \A c \in g.of : ServiceHolds(c, row)

-----------------------------------------------------------------------------
\* The WHERE clause of a file (local_file.py, sqlite_filter.py)

\* column_for: a relationship has no column in a file and reads as ''
Column(row, field) == IF field \in KnownFields THEN row[field] ELSE EmptyText

\* Mutant: eq without "collate nocase"
conditionExact(operator, v, cell) ==
    CASE operator = "is_empty"     -> Blank(cell)
      [] operator = "eq"           -> cell # Null /\ cell = v[1]
      [] operator = "contains"     -> cell # Null /\ \E w \in Unfold(v[1]), c \in Unfold(cell) :
                                                         <<w, c>> \in Within
      [] operator = "in"           -> cell # Null /\ \E i \in DOMAIN v : cell = v[i]
      [] operator = "date_before"  -> cell # Null /\ cell < v[1]
      [] operator = "date_after"   -> cell # Null /\ cell > v[1]
      [] operator = "date_between" -> cell # Null /\ v[1] <= cell /\ cell <= v[2]

\* A comparison with NULL is never true; '' is less than every date.  `in` is
\* not "collate nocase".
condition(operator, v, cell) ==
    CASE operator = "is_empty"     -> Blank(cell)
      [] operator = "eq"           -> cell # Null /\ Folded[cell] = Folded[v[1]]
      [] operator = "contains"     -> cell # Null /\ \E w \in Unfold(v[1]), c \in Unfold(cell) :
                                                         <<w, c>> \in Within
      [] operator = "in"           -> cell # Null /\ \E i \in DOMAIN v : cell = v[i]
      [] operator = "date_before"  -> cell # Null /\ cell < v[1]
      [] operator = "date_after"   -> cell # Null /\ cell > v[1]
      [] operator = "date_between" -> cell # Null /\ v[1] <= cell /\ cell <= v[2]

build_where(filters, row) ==
    \A f \in filters : \E n \in f.names : condition(f.operator, f.value, Column(row, n))
=============================================================================
