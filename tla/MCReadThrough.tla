--------------------------- MODULE MCReadThrough ---------------------------
(* Instance for TLC: three rows of three columns, pages of at most two rows *)
EXTENDS ReadThrough, TLC

\* 0 is the blank text, 2 is 1 in capitals, 1 and 2 are parts of 3
mcFolded == [v \in Values |-> IF v = 2 THEN 1 ELSE v]
mcWithin == {<<v, v>> : v \in Values} \cup {<<0, v>> : v \in Values} \cup {<<1, 3>>}

mcTable ==
    << [name |-> 1, code |-> 3,    due |-> 0,    owner |-> 1],
       [name |-> 2, code |-> 1,    due |-> Null, owner |-> 1],
       [name |-> 3, code |-> Null, due |-> 2,    owner |-> 2],
       [name |-> 3, code |-> 1,    due |-> 3,    owner |-> Null] >>
mcColumns == <<"name", "code", "due">>

mcMaxPage == [feishu |-> 2, tencent |-> 3]

Of(field, operator, v) ==
    [names |-> {field}, virtual |-> FALSE, operator |-> operator, value |-> v]
Identity(operator, v) ==
    [names |-> {"name", "code"}, virtual |-> TRUE, operator |-> operator, value |-> v]

mcFilters ==
    { {}, {Of("name", "in", <<1, 3>>)}, {Of("name", "in", <<>>), Of("owner", "eq", <<1>>)},
      {Of("due", "date_between", <<2, 3>>)}, {Of("due", "date_between", <<0, 2>>)},
      {Of("due", "date_before", <<3>>)},
      {Of("due", "date_after", <<2>>), Of("name", "eq", <<3>>)}, {Identity("contains", <<1>>)},
      {Identity("eq", <<2>>), Of("due", "is_empty", <<0>>)}, {Identity("in", <<1, 2>>)},
      {Of("size", "eq", <<1>>)} }

\* Both threads ask Feishu; one asks it for its columns too, the file for the rows
\* of each filter, and Tencent Docs for the rows of some
remoteFilters ==
    { {}, {Of("due", "date_after", <<2>>), Of("name", "in", <<1, 3>>)},
      {Identity("eq", <<2>>), Of("due", "is_empty", <<0>>)}, {Identity("in", <<1, 2>>)} }

Records(source, fields, filters, limit) ==
    [kind |-> "records", source |-> source, fields |-> fields, filters |-> filters, limit |-> limit]
Schema(source) ==
    [kind |-> "columns", source |-> source, fields |-> {}, filters |-> {}, limit |-> 0]

feishuQueries == {Records("feishu", {"name"}, {}, 3), Schema("feishu")}

plainQueries ==
    {Records("file", {"name"}, f, 2) : f \in mcFilters}
    \cup {Records("tencent", {"name"}, f, 2) : f \in remoteFilters}
    \cup {Schema("file"), Schema("tencent"), Records("tencent", {"size"}, {}, 2)}

mcQueries == ("t1" :> plainQueries \cup feishuQueries) @@ ("t2" :> {Records("feishu", {"name"}, {}, 3)})
=============================================================================
