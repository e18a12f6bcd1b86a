-------------------------------- MODULE TableView --------------------------------
(***************************************************************************)
(* The SQLite wrapper.  A view gathers clauses until it is output: its text *)
(* is then made, prepared and stepped, and each row unpacked into typed     *)
(* views.  The library that runs the text is modelled as far as the texts   *)
(* go that the wrapper makes.                                               *)
(***************************************************************************)
EXTENDS Integers, Sequences, SequencesExt, FiniteSets, TLC

CONSTANTS
    Rows,          \* rows that are inserted: [id, name, data], each a value
    ColumnSets,    \* columns that are selected together
    Conditions,    \* of where: atoms that are joined by OR
    MaxClauses, MaxLevels, MaxRows, MaxLeft,
    Quote          \* the character that ends a text literal

VARIABLES
    users,         \* table Users, by primary key
    connection,    \* "open", "closed", or "busy" (given up while a statement was left)
    statements,    \* statements that have not been finalized
    view,          \* the view at hand
    asked,         \* what was asked of it: a sequence of levels, one for each select
    out            \* the last output: how it ended, what it gave, what it stands for
sqlVars == <<users, connection, statements, view, asked, out>>

Value(type, v) == [type |-> type, v |-> v]
NullValue == Value("null", <<>>)
None == Value("none", <<>>)

\* Table FavNumbers: each number is the one user's favourite.
FavNumbers == <<[user_id |-> Value("int", 1), fav_num |-> Value("int", 434)],
                [user_id |-> Value("int", 2), fav_num |-> Value("int", 256)],
                [user_id |-> Value("int", 1), fav_num |-> Value("int", 0)]>>
\* The types a column's view takes.  An aggregate keeps its column's view: both are of id.
ColumnTypes == [id |-> {"int"}, name |-> {"text"}, data |-> {"blob", "null"},
                fav_num |-> {"int"}, count |-> {"int"}, avg |-> {"int"}]
Tables == "Users" :> {"id", "name", "data"}
          @@ "Users JOIN FavNumbers" :> {"id", "name", "data", "fav_num"}
Aggregates == {"count", "avg"}

SqlInit ==
    /\ users = <<>> /\ connection = "open" /\ statements = 0
    /\ view = None /\ asked = <<>> /\ out = None

-----------------------------------------------------------------------------
\* as_sqlite: quotes in a text are doubled, a byte of a blob is written in two digits.
Literal(kind, chars) == [kind |-> kind, chars |-> chars]
TextLiteral(t) == Literal("quoted",
    <<Quote>> \o FlattenSeq([k \in DOMAIN t |-> IF t[k] = Quote THEN <<Quote, Quote>> ELSE <<t[k]>>])
    \o <<Quote>>)
BlobLiteral(b) == Literal("hex", FlattenSeq([k \in DOMAIN b |-> <<b[k] \div 16, b[k] % 16>>]))
AsSqlite(value) ==
    CASE value.type = "text" -> TextLiteral(value.v)
      [] value.type = "blob" -> BlobLiteral(value.v)
      [] value.type = "null" -> Literal("NULL", <<>>)
      [] OTHER -> Literal("number", <<value.v>>)

\* bind: an empty buffer has no address, and no address is NULL.
Bound(value) == IF value.type = "blob" /\ value.v = <<>> THEN NullValue ELSE value

\* The typed view of a column refuses a cell of another type; a nullable one takes NULL.
Unpacks(column, cell) == cell.type \in ColumnTypes[column]

-----------------------------------------------------------------------------
\* The library: literals.  A text ends at a quote that is not doubled.
ReadText(l) ==
    LET n == Len(l)
        \* Where the quotes are paired off from the left.
        read[k \in 1..n] == IF k = n THEN [ok |-> l[k] = Quote, text |-> <<>>]
                            ELSE IF l[k] # Quote
                                 THEN [ok |-> read[k + 1].ok, text |-> <<l[k]>> \o read[k + 1].text]
                                 ELSE IF k + 1 < n /\ l[k + 1] = Quote
                                      THEN [ok |-> read[k + 2].ok, text |-> <<Quote>> \o read[k + 2].text]
                                      ELSE [ok |-> FALSE, text |-> <<>>]
    IN  IF n < 2 THEN [ok |-> FALSE, text |-> <<>>] ELSE read[2]
ReadLiteral(l) ==
    CASE l.kind = "quoted" -> [ok |-> ReadText(l.chars).ok, value |-> Value("text", ReadText(l.chars).text)]
      [] l.kind = "hex" -> [ok |-> TRUE, value |-> Value("blob",
             [k \in 1..(Len(l.chars) \div 2) |-> 16 * l.chars[2 * k - 1] + l.chars[2 * k]])]
      [] l.kind = "NULL" -> [ok |-> TRUE, value |-> NullValue]
      [] OTHER -> [ok |-> TRUE, value |-> Value("int", l.chars[1])]

\* A condition as text: atoms and the words between them; AND binds more than OR.
AtomHolds(row, atom) ==
    LET cell == row[atom.column]
        value == ReadLiteral(atom.literal).value
    IN  /\ cell.type # "null" /\ value.type # "null"
        /\ IF atom.op = "=" THEN cell = value ELSE cell.v >= value.v
WhereHolds(row, text) ==
    text = <<>> \/
    \E i, j \in DOMAIN text :
        /\ i <= j /\ (i = 1 \/ text[i - 1].word = "OR") /\ (j = Len(text) \/ text[j + 1].word = "OR")
        /\ \A k \in i..j : text[k].word # "OR" /\ (text[k].word = "atom" => AtomHolds(row, text[k]))

Before(r, q, orders) ==
    \E k \in DOMAIN orders :
        LET column == orders[k].column
        IN  /\ IF orders[k].kind = "ASC" THEN r[column].v < q[column].v ELSE r[column].v > q[column].v
            /\ \A j \in 1..(k - 1) : r[orders[j].column] = q[orders[j].column]
Sorted(rows, orders) == SortSeq(rows, LAMBDA r, q : Before(r, q, orders))

IDSum(rows) == FoldLeft(LAMBDA sum, r : sum + r.id.v, 0, rows)
Aggregate(column, rows) ==
    IF column = "count" THEN Value("int", Len(rows))
    ELSE IF rows = <<>> THEN NullValue ELSE Value("real", <<IDSum(rows), Len(rows)>>)
Project(columns, rows) ==
    IF columns \subseteq Aggregates THEN <<[c \in columns |-> Aggregate(c, rows)]>>
    ELSE [k \in DOMAIN rows |-> [c \in columns |-> rows[k][c]]]

FromTable(table) ==
    IF table = "Users" THEN users
    ELSE LET pairs == FlattenSeq([k \in DOMAIN users |->
                        [j \in DOMAIN FavNumbers |-> <<users[k], FavNumbers[j]>>]])
             joined == SelectSeq(pairs, LAMBDA p : p[1].id = p[2].user_id)
         IN  [k \in DOMAIN joined |-> ("fav_num" :> joined[k][2].fav_num) @@ joined[k][1]]

\* A level of a query over the rows it is from; a negative limit is none.
RunLevel(q, rows) ==
    LET some == SelectSeq(rows, LAMBDA r : WhereHolds(r, q.where))
        all == Project(q.columns, Sorted(some, q.order_by))
        end == IF q.limit < 0 \/ q.offset + q.limit > Len(all) THEN Len(all) ELSE q.offset + q.limit
    IN  SubSeq(all, q.offset + 1, end)
LevelPrepares(q, scope) ==
    /\ q.columns \cup {o.column : o \in ToSet(q.order_by)} \subseteq scope \cup Aggregates
    /\ \A k \in DOMAIN q.where : q.where[k].word = "atom" =>
            q.where[k].column \in scope /\ ReadLiteral(q.where[k].literal).ok

\* The whole text, levels from the inside out.
Prepares(sql) ==
    /\ Head(sql).from \in DOMAIN Tables
    /\ \A k \in DOMAIN sql :
        LevelPrepares(sql[k], IF k = 1 THEN Tables[sql[1].from] ELSE sql[k - 1].columns)
Run(sql) == FoldLeft(LAMBDA rows, q : RunLevel(q, rows), FromTable(Head(sql).from), sql)

-----------------------------------------------------------------------------
\* as_sql.  Without a select there is no table in the text.
NoLimit == -1
ConditionText(c) == FlattenSeq([k \in DOMAIN c |->
    (IF k = 1 THEN <<>> ELSE <<[word |-> "OR"]>>)
    \o <<[word |-> "atom", column |-> c[k].column, op |-> c[k].op, literal |-> AsSqlite(c[k].value)]>>])
WhereText(conditions) == FlattenSeq([k \in DOMAIN conditions |->
    (IF k = 1 THEN <<>> ELSE <<[word |-> "AND"]>>) \o ConditionText(conditions[k])])
AsSql(v) ==
    v.inner \o <<[columns |-> v.select.columns, from |-> v.select.from, where |-> WhereText(v.where),
                  order_by |-> v.order_by, limit |-> v.limit, offset |-> v.offset]>>

-----------------------------------------------------------------------------
\* Calls on a view make a new one.
Select(columns, from) == [columns |-> columns, from |-> from]
NewView(select, inner) ==
    [select |-> select, inner |-> inner, where |-> <<>>, order_by |-> <<>>, limit |-> NoLimit, offset |-> 0]
NoSelect == Select({}, "")
Level(from, columns) ==
    [from |-> from, columns |-> columns, conditions |-> <<>>, orders |-> <<>>, limits |-> {}, offsets |-> <<>>]
\* The columns that the text of the level at hand can name.
Scope == IF Len(asked) = 1 THEN Tables[asked[1].from] ELSE asked[Len(asked) - 1].columns
\* A view that is selected from gives columns, or aggregates of its IDs.
Selects(columns, scope) ==
    columns \subseteq scope \ Aggregates \/ (columns \subseteq Aggregates /\ "id" \in scope)
Clauses(l) == Len(l.conditions) + Len(l.orders) + Cardinality(l.limits) + Len(l.offsets)
More == connection = "open" /\ view # None /\ FoldLeft(LAMBDA n, l : n + Clauses(l), 0, asked) < MaxClauses
AskedToo(field, value) == asked' = [asked EXCEPT ![Len(asked)][field] = value]
tableVars == <<users, connection, statements>>

\* Database::select and join; a joined view has its table only once it is selected from.
NewSelect(columns) ==
    /\ connection = "open" /\ view = None
    /\ view' = NewView(Select(columns, "Users"), <<>>)
    /\ asked' = <<Level("Users", columns)>>
    /\ out' = None /\ UNCHANGED tableVars
NewJoin ==
    /\ connection = "open" /\ view = None
    /\ view' = NewView(NoSelect, <<>>)
    /\ asked' = <<Level("Users JOIN FavNumbers", {})>>
    /\ out' = None /\ UNCHANGED tableVars

\* Fault: the clauses of the inner view are taken along.
SelectAgainKeep(columns) ==
    [view EXCEPT !.select = Select(columns, ""), !.inner = AsSql(view)]

SelectAgain(columns) == NewView(Select(columns, ""), AsSql(view))

ViewSelect(columns) ==
    /\ connection = "open" /\ view # None /\ Len(asked) < MaxLevels
    /\ IF view.select # NoSelect
       THEN /\ Selects(columns, view.select.columns)
            /\ view' = SelectAgain(columns) /\ asked' = Append(asked, Level("", columns))
       ELSE /\ Selects(columns, Tables[asked[1].from])
            /\ view' = [view EXCEPT !.select = Select(columns, asked[1].from)]
            /\ AskedToo("columns", columns)
    /\ UNCHANGED <<tableVars, out>>

Where(condition) ==
    /\ More /\ \A k \in DOMAIN condition : condition[k].column \in Scope
    /\ view' = [view EXCEPT !.where = Append(@, condition)]
    /\ AskedToo("conditions", Append(Last(asked).conditions, condition))
    /\ UNCHANGED <<tableVars, out>>

OrderBy(column, kind) ==
    /\ More /\ column \in Scope
    /\ view' = [view EXCEPT !.order_by = Append(@, [column |-> column, kind |-> kind])]
    /\ AskedToo("orders", Append(Last(asked).orders, [column |-> column, kind |-> kind]))
    /\ UNCHANGED <<tableVars, out>>

\* A limit that restricts no more than the one there is leaves it.
Limit(n) ==
    /\ More
    /\ view' = IF view.limit # NoLimit /\ n >= view.limit THEN view ELSE [view EXCEPT !.limit = n]
    /\ AskedToo("limits", Last(asked).limits \cup {n})
    /\ UNCHANGED <<tableVars, out>>

Offset(n) ==
    /\ More
    /\ view' = [view EXCEPT !.offset = @ + n]
    /\ AskedToo("offsets", Append(Last(asked).offsets, n))
    /\ UNCHANGED <<tableVars, out>>

-----------------------------------------------------------------------------
\* What the levels that were asked for stand for, each in SQL's order of clauses.
Expected ==
    LET Rows1(l, rows) ==
            Project(l.columns,
              Sorted(SelectSeq(rows, LAMBDA r : \A k \in DOMAIN l.conditions :
                        \E j \in DOMAIN l.conditions[k] :
                            LET atom == l.conditions[k][j]
                            IN  IF atom.op = "=" THEN r[atom.column] = atom.value
                                ELSE r[atom.column].v >= atom.value.v),
                     l.orders))
        Skipped(l) == FoldLeft(LAMBDA x, y : x + y, 0, l.offsets)
        Wanted(l, rows) ==
            LET shown == Rows1(l, rows)
            IN  SelectSeq([k \in DOMAIN shown |-> <<k, shown[k]>>],
                    LAMBDA p : p[1] > Skipped(l) /\ \A n \in l.limits : p[1] <= Skipped(l) + n)
        Stripped(s) == [k \in DOMAIN s |-> s[k][2]]
    IN  FoldLeft(LAMBDA rows, l : Stripped(Wanted(l, rows)), FromTable(asked[1].from), asked)

\* execute.  A row is unpacked before the next is stepped to.
Unpackable(row) == \A c \in DOMAIN row : Unpacks(c, row[c])
Execute(expected) ==
    LET sql == AsSql(view)
        rows == Run(sql)
        bad == {k \in DOMAIN rows : ~Unpackable(rows[k])}
        taken == IF expected = 1 /\ Len(rows) > 1 THEN 1 ELSE Len(rows)
    IN  IF ~Prepares(sql) THEN [result |-> "bad statement", rows |-> <<>>]
        ELSE IF \E k \in bad : k <= taken
             THEN [result |-> "bad view", rows |-> SubSeq(rows, 1, (CHOOSE k \in bad : \A j \in bad : k <= j) - 1)]
        ELSE IF taken < Len(rows) THEN [result |-> "too many", rows |-> SubSeq(rows, 1, 1)]
        ELSE IF expected = 1 /\ rows = <<>> THEN [result |-> "too few", rows |-> <<>>]
        ELSE [result |-> "ok", rows |-> rows]

\* operator>>, into one row (1), or into a vector or a callback (0).
Output(expected) ==
    /\ connection = "open" /\ view # None
    /\ out' = [expected |-> expected, got |-> Execute(expected), of |-> asked,
               stands_for |-> IF Head(asked).columns = {} THEN <<>> ELSE Expected]
    /\ view' = None /\ asked' = <<>> /\ UNCHANGED tableVars

-----------------------------------------------------------------------------
\* insert: a statement that fails is not finalized.
InsertRow(row) ==
    /\ connection = "open" /\ view = None /\ Len(users) < MaxRows /\ statements < MaxLeft
    /\ IF \E k \in DOMAIN users : users[k].id = row.id
       THEN statements' = statements + 1 /\ UNCHANGED users
       ELSE /\ users' = Sorted(Append(users, [c \in DOMAIN row |-> Bound(row[c])]),
                               <<[column |-> "id", kind |-> "ASC"]>>)
            /\ UNCHANGED statements
    /\ out' = None /\ UNCHANGED <<connection, view, asked>>

RemoveWhere(condition) ==
    /\ connection = "open" /\ view = None
    /\ users' = SelectSeq(users, LAMBDA r : ~WhereHolds(r, ConditionText(condition)))
    /\ out' = None /\ UNCHANGED <<connection, statements, view, asked>>

\* ~Database
Close ==
    /\ connection = "open"
    /\ connection' = IF statements = 0 THEN "closed" ELSE "busy"
    /\ view' = None /\ asked' = <<>> /\ out' = None /\ UNCHANGED <<users, statements>>

SqlNext ==
    \/ \E r \in Rows : InsertRow(r)
    \/ \E c \in Conditions : RemoveWhere(c) \/ Where(c)
    \/ \E cs \in ColumnSets :
          NewSelect(cs) \/ ViewSelect(cs)
    \/ \E k \in {"ASC", "DESC"}, c \in {"id", "fav_num"} : OrderBy(c, k)
    \/ \E n \in 0..MaxRows : Limit(n) \/ (n > 0 /\ Offset(n))
    \/ \E e \in {0, 1} : Output(e)
    \/ NewJoin \/ Close

-----------------------------------------------------------------------------
\* Conditions are joined as they are: next to another, an OR is torn apart by the AND.
TornApart(l) == Len(l.conditions) > 1 /\ \E k \in DOMAIN l.conditions : Len(l.conditions[k]) > 1

\* A view gives the rows that its calls stand for, whatever texts and blobs its conditions
\* quote and however it was selected from again: as many as are asked for or an error that
\* says why, never other rows.  Two views have no such promise: one that joins a condition
\* made of alternatives to another, and a joined one that was never selected from, whose text
\* names no table.  An average is never given: it is read through the view of the column of
\* integers that it is over, which refuses it, as it refuses the NULL over no rows.
ViewsMeanWhatWasAsked ==
    LET rows == out.stands_for
        single == out.expected = 1
    IN  (out # None /\ ~\E k \in DOMAIN out.of : TornApart(out.of[k])) =>
        IF Head(out.of).columns = {} THEN out.got.result = "bad statement"
        ELSE /\ IsPrefix(out.got.rows, rows)
             /\ out.got.result =
                    IF \E k \in DOMAIN rows : ~Unpackable(rows[k]) THEN "bad view"
                    ELSE IF single /\ Len(rows) > 1 THEN "too many"
                    ELSE IF single /\ rows = <<>> THEN "too few"
                    ELSE "ok"
             /\ out.got.result = "ok" => out.got.rows = rows
=============================================================================
