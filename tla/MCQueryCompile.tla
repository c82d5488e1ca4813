--------------------------- MODULE MCQueryCompile ----------------------------
(***************************************************************************)
(* QueryCompile for TLC.  The statements are of four kinds: every one and  *)
(* every two of the fields below over a measurement, with and without a    *)
(* GROUP BY interval and fill(none); statements that differ in their       *)
(* condition, their dimensions or their unnest source; statements over     *)
(* one or two subqueries, a join or a binary operation of subqueries; and  *)
(* statements over a subquery of a subquery.  Times are MinTime..MaxTime,  *)
(* an interval is 2 or 3 units of time and a period at most 3.             *)
(***************************************************************************)
EXTENDS QueryCompile

\* the registries of package op and of the math functions, as far as the
\* statements name them
MCProjectOps == {"row_max"}
MCAggregateOps == {"max", "count", "percentile"}
MCMathFunctions == {"abs", "pow"}

MCMinTime == -8

\* op.CompileOp wants a first argument
MCCompileOp(expr) == Len(expr.Args) >= 1

x == VarRef("x")
Lit(n) == IntegerLiteral(n)
MaxOf(arg) == Call("max", <<arg>>)
CountOf(arg) == Call("count", <<arg>>)
Ema(args) == Call("exponential_moving_average", args)
Holt(args) == Call("holt_winters", args)

Valid ==
    {x, Wildcard, MaxOf(x), CountOf(x), MaxOf(Wildcard), MaxOf(CountOf(x)), CountOf(MaxOf(x)),
     Call("percentile", <<x, Lit(2)>>), Distinct("x"),
     Call("row_max", <<x, Lit(1)>>), Call("row_max", <<CountOf(x)>>),
     MaxOf(Call("row_max", <<x>>)),
     Ema(<<x, Lit(2)>>), Ema(<<MaxOf(x), Lit(3)>>), Ema(<<Wildcard, Lit(1), Lit(-1)>>),
     Call("triple_exponential_derivative", <<x, Lit(2), Lit(1), StringLiteral("simple")>>),
     Call("kaufmans_efficiency_ratio", <<x, Lit(3)>>),
     Call("chande_momentum_oscillator", <<CountOf(x), Lit(2), Lit(0), StringLiteral("none")>>),
     Holt(<<MaxOf(x), Lit(1), Lit(0)>>), Holt(<<Distinct("x"), Lit(2), Lit(1)>>),
     Call("holt_winters_with_fit", <<Call("distinct", <<x>>), Lit(1), Lit(0)>>),
     BinaryExpr(x, Lit(1)), BinaryExpr(Lit(1), MaxOf(x)), BinaryExpr(MaxOf(x), x),
     BinaryExpr(MaxOf(x), MaxOf(x)), ParenExpr(CountOf(x))}

Invalid ==
    {MaxOf(Distinct("x")), Call("max", <<>>), Call("nope", <<x>>), Lit(1),
     Ema(<<x>>), Ema(<<x, Lit(0)>>), Ema(<<x, x>>), Ema(<<x, Lit(2), Lit(-2)>>),
     Ema(<<x, Lit(2), x>>), Ema(<<x, Lit(2), Lit(1), StringLiteral("none")>>),
     Ema(<<x, Lit(2), Lit(1), Lit(1)>>),
     Call("triple_exponential_derivative", <<x, Lit(2), Lit(0)>>),
     Call("kaufmans_efficiency_ratio", <<x, Lit(3), Lit(0), StringLiteral("simple")>>),
     Holt(<<x, Lit(1), Lit(0)>>), Holt(<<MaxOf(x), Lit(0), Lit(0)>>),
     Holt(<<MaxOf(x), Lit(1), Lit(-1)>>), Holt(<<MaxOf(x), Lit(1)>>),
     Holt(<<MaxOf(x), x, Lit(1)>>), Holt(<<MaxOf(x), Lit(1), x>>),
     Call("distinct", <<>>), Holt(<<Call("distinct", <<>>), Lit(1), Lit(0)>>),
     Holt(<<Call("distinct", <<x, x>>), Lit(1), Lit(0)>>),
     Holt(<<Call("distinct", <<Lit(1)>>), Lit(1), Lit(0)>>),
     BinaryExpr(Lit(1), StringLiteral("a")), BinaryExpr(Wildcard, x),
     BinaryExpr(MaxOf(Wildcard), x), [type |-> "NilLiteral"]}

Time(args) == Call("time", args)

Intervals == {<<>>, <<Time(<<DurationLiteral(2)>>)>>}

TimeField == [Expr |-> VarRef("time"), Alias |-> "t"]

FieldLists ==
    {<<Field(e)>> : e \in Valid \cup Invalid}
        \cup {<<Field(e), Field(f)>> : e \in Valid, f \in Valid}
        \cup {<<TimeField>>, <<TimeField, Field(x)>>}

OverMeasurement ==
    {[Select(fields, dimensions) EXCEPT !.Fill = fill] :
        fields \in FieldLists, dimensions \in Intervals, fill \in {"NullFill", "NoFill"}}

Where(expr, min, max) == [err |-> FALSE, expr |-> expr, Min |-> min, Max |-> max]

Conditions ==
    {[err |-> TRUE], Where(NoExpr, 1, 5), Where(NoExpr, ZeroTime, 5), Where(x, 1, ZeroTime),
     Where(Call("abs", <<x>>), 1, 5), Where(Call("pow", <<x>>), 1, 5),
     Where(BinaryExpr(x, Call("pow", <<x, MaxOf(x)>>)), 1, 5),
     Where(BinaryExpr(Call("abs", <<x>>), Call("pow", <<x, Lit(2)>>)), 1, 5)}
        \cup {Where([type |-> "InCondition", Stmt |-> Select(<<Field(e)>>, <<>>)], 1, 5) :
                e \in {x, MaxOf(Distinct("x"))}}

Dimensions ==
    {<<VarRef("host"), Wildcard, RegexLiteral>>, <<VarRef("TIME")>>, <<Call("now", <<>>)>>,
     <<Lit(1)>>, <<Time(<<>>)>>, <<Time(<<Lit(2)>>)>>,
     <<Time(<<DurationLiteral(2)>>), Time(<<DurationLiteral(3)>>)>>,
     <<Time(<<DurationLiteral(0)>>), Time(<<DurationLiteral(3)>>)>>,
     <<Time(<<DurationLiteral(0), DurationLiteral(1)>>)>>}
        \cup {<<Time(<<DurationLiteral(3), offset>>)>> :
                offset \in {DurationLiteral(4), DurationLiteral(-4), TimeLiteral(5),
                            Call("now", <<>>), Call("now", <<x>>), Call("abs", <<>>),
                            TimeString(5),
                            TimeString(Nil),
                            StringLiteral("a"), Lit(1)}}

Unnest(expr, aliases, dstType) == [Expr |-> expr, Aliases |-> aliases, DstType |-> dstType]

UnnestSources ==
    {<<Unnest(Call("match_all", <<Pattern(2), x>>), 2, 2)>>,
     <<Unnest(Call("match_all", <<Pattern(2), x>>), 1, 1)>>,
     <<Unnest(Call("match_all", <<Pattern(1), x>>), 1, 2)>>,
     <<Unnest(Call("match_all", <<Pattern(1)>>), 1, 1)>>,
     <<Unnest(Call("match_all", <<Lit(1), x>>), 1, 1)>>,
     <<Unnest(Call("match_all", <<Pattern(Nil), x>>), 1, 1)>>,
     <<Unnest(Call("match", <<Pattern(1), x>>), 1, 1)>>,
     <<Unnest(x, 1, 1)>>}

Aggregate == Select(<<Field(CountOf(x))>>, <<Time(<<DurationLiteral(3)>>)>>)

Varied ==
    {[Aggregate EXCEPT !.Condition = condition] : condition \in Conditions}
        \cup {[Aggregate EXCEPT !.Dimensions = dimensions] : dimensions \in Dimensions}
        \cup {[Aggregate EXCEPT !.UnnestSource = unnest] : unnest \in UnnestSources}
        \cup {[Aggregate EXCEPT !.Fill = "LinearFill", !.Fields = <<Field(x)>>],
              [Aggregate EXCEPT !.Limit = 1, !.Target = TRUE, !.Range = 1]}

\* the statements that stand as subqueries: in ascending order, sorted in
\* descending order, or in descending order without a sort field
Ordered(st) ==
    {st, [st EXCEPT !.SortFields = 1, !.Ascending = FALSE], [st EXCEPT !.SortFields = 1]}

Inner ==
    UNION {Ordered(Select(<<Field(e)>>, dimensions)) :
            e \in {x, MaxOf(x), Ema(<<x, Lit(2)>>), Holt(<<MaxOf(x), Lit(1), Lit(0)>>)},
            dimensions \in Intervals}

Outer ==
    UNION {Ordered(Select(<<Field(e)>>, dimensions)) :
            e \in {MaxOf(x), Ema(<<MaxOf(x), Lit(3)>>)}, dimensions \in Intervals}

Some(S) == {s \in S : s.Fields[1].Expr \in {x, MaxOf(x)} /\ s.Dimensions = <<>>}

OverSubqueries ==
    {[outer EXCEPT !.Sources = sources] :
        outer \in Outer,
        sources \in {<<SubQuery(a)>> : a \in Inner}
            \cup {<<SubQuery(a), SubQuery(b)>> : a \in Some(Inner), b \in Some(Inner)}
            \cup {<<Join(a, b)>> : a \in {Measurement} \cup {SubQuery(q) : q \in Some(Inner)},
                                   b \in {Measurement} \cup {SubQuery(q) : q \in Some(Inner)}}
            \cup {<<BinOp(a, b)>> : a \in {Measurement, SubQuery(Select(<<Field(x)>>, <<>>))},
                                    b \in {SubQuery(q) : q \in Some(Inner)}}
            \cup {<<SubQuery([a EXCEPT !.Sources = <<SubQuery(b)>>])>> :
                    a \in Some(Inner), b \in Inner}}

MCStatements == OverMeasurement \cup Varied \cup OverSubqueries

\* what a statement is put under: an aggregate with and without an
\* interval, in either order, and a moving average
MCParents ==
    {[Select(<<Field(e)>>, dimensions) EXCEPT !.Ascending = ascending] :
        e \in {MaxOf(x), Ema(<<MaxOf(x), Lit(3)>>)}, dimensions \in Intervals,
        ascending \in BOOLEAN}
===============================================================================
