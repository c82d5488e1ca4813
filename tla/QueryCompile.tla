---------------------------- MODULE QueryCompile -----------------------------
(***************************************************************************)
(* The compiler of SELECT statements, lib/util/lifted/influx/query/        *)
(* compile.go.  Compile walks the fields of a statement and gathers what   *)
(* it meets in flags of a compiledStatement, validateFields decides from   *)
(* the flags whether the fields go together, every subquery among the      *)
(* sources is compiled the same way under what it inherits from its        *)
(* parent, and Prepare maps the shards of the time range of the statement. *)
(*                                                                         *)
(* A statement is the syntax tree of package influxql as far as the        *)
(* compiler looks at it: a record per node, with the node's Go type in     *)
(* field "type".  An error is the tag of the return that made it; Ok is    *)
(* the nil error.  The fields are in the form influxql.Reduce leaves.      *)
(***************************************************************************)
EXTENDS Integers, Sequences, FiniteSets, SequencesExt

CONSTANTS Statements,       \* the statements Compile is called with
          ProjectOps,       \* the names op.IsProjectOp knows
          AggregateOps,     \* the names op.IsAggregateOp knows
          MathFunctions,    \* the names GetMathFunction knows
          CompileOp(_),     \* op.CompileOp returns nil for this call
          MinTime, MaxTime, \* influxql.MinTime and influxql.MaxTime
          Now,              \* CompileOptions.Now
          ZeroTime,         \* the zero time.Time
          DurationBits,     \* the width of a time.Duration
          Parents,          \* statements to put a statement under as a subquery
          Nil

ASSUME /\ MinTime \in Int /\ MaxTime \in Int /\ Now \in MinTime..MaxTime
       /\ DurationBits \in Nat \ {0}

VARIABLES stmt,         \* the statement
          TimeFilterProtection,     \* the switch of that name
          pc,           \* "parsed", "compiled", "rejected", "prepared", "failed"
          c,            \* the compiledStatement of Compile
          differs,      \* stmt.SubQueryHasDifferentAscending
          timeRange,    \* the time range the shards were mapped for
          shards        \* the shard mapping of Prepare: "none", "open", "closed"

vars == <<stmt, TimeFilterProtection, pc, c, differs, timeRange, shards>>

Ok == "nil"

---------------------------------------------------------------------------
\* the nodes of the syntax tree

VarRef(val) == [type |-> "VarRef", Val |-> val]
Wildcard == [type |-> "Wildcard"]
RegexLiteral == [type |-> "RegexLiteral"]
IntegerLiteral(val) == [type |-> "IntegerLiteral", Val |-> val]
StringLiteral(val) == [type |-> "StringLiteral", Val |-> val]
DurationLiteral(val) == [type |-> "DurationLiteral", Val |-> val]
TimeLiteral(val) == [type |-> "TimeLiteral", Val |-> val]
Call(name, args) == [type |-> "Call", Name |-> name, Args |-> args]
Distinct(val) == [type |-> "Distinct", Val |-> val]
BinaryExpr(lhs, rhs) == [type |-> "BinaryExpr", LHS |-> lhs, RHS |-> rhs]
ParenExpr(expr) == [type |-> "ParenExpr", Expr |-> expr]

\* a string that looks like a time, and the time ToTimeLiteral reads from
\* it, which is Nil when it fails
TimeString(time) == [type |-> "StringLiteral", Val |-> "time", Time |-> time]

\* the pattern of an unnest function by the number of its subexpressions,
\* which is Nil for a pattern regexp.MustCompile panics at
Pattern(n) == [type |-> "VarRef", Val |-> "pattern", NumSubexp |-> n]

Measurement == [type |-> "Measurement"]
SubQuery(statement) == [type |-> "SubQuery", Statement |-> statement]
Join(lsrc, rsrc) == [type |-> "Join", LSrc |-> lsrc, RSrc |-> rsrc]
BinOp(lsrc, rsrc) == [type |-> "BinOp", LSrc |-> lsrc, RSrc |-> rsrc]

\* the nodes that are an influxql.Literal; whether a regular expression is
\* one is decided in package influxql, and the statements checked have none
\* where it matters
IsLiteral(expr) ==
    expr.type \in {"IntegerLiteral", "StringLiteral", "DurationLiteral", "TimeLiteral"}

FirstError(a, b) == IF a # Ok THEN a ELSE b

Larger(a, b) == IF a < b THEN b ELSE a

Smaller(a, b) == IF b < a THEN b ELSE a

---------------------------------------------------------------------------
\* the compiler of one field: s.global is the compiledStatement,
\* s.AllowWildcard the flag of the compiledField

Failed(s) == s.global.err # Ok

Fail(s, e) == [s EXCEPT !.global.err = e]

newCompiler ==
    [Condition |-> Nil, TimeRange |-> [Min |-> ZeroTime, Max |-> ZeroTime],
     Interval |-> [Duration |-> 0, Offset |-> 0], InheritedInterval |-> FALSE,
     ExtraIntervals |-> 0, Ascending |-> FALSE, FunctionCalls |-> <<>>,
     OnlySelectors |-> TRUE, HasDistinct |-> FALSE, FillOption |-> "NullFill",
     TopBottomFunction |-> "", PercentileOGSketchFunction |-> "",
     HasAuxiliaryFields |-> FALSE, Fields |-> <<>>, TimeFieldName |-> "time",
     Limit |-> 0, HasTarget |-> FALSE, stmt |-> Nil, err |-> Ok]

RECURSIVE compileExpr(_, _), compileCall(_, _), compileArgs(_, _, _)

\* the argument of a function must be a field, a wildcard or a regular
\* expression; c.global.stmt is nil in the compiler of a subquery
compileSymbol(s, name, field) ==
    CASE field.type = "VarRef" -> s
      [] field.type \in {"Wildcard", "RegexLiteral"} ->
            IF s.AllowWildcard THEN [s EXCEPT !.global.OnlySelectors = FALSE]
            ELSE Fail(s, "unsupported expression with wildcard")
      [] field.type = "Call" ->
            CASE s.global.stmt = Nil -> Fail(s, "panic: nil pointer")
              [] s.global.stmt.Range > 0 -> s
              [] OTHER -> Fail(s, "expected field argument")
      [] OTHER -> Fail(s, "expected field argument")

\* the checks of the period and of the hold period, args[1] and args[2]
periodArgs(name, args) ==
    CASE args[2].type # "IntegerLiteral" -> "period must be an integer"
      [] args[2].Val < 1 -> "period must be greater than or equal to 1"
      [] Len(args) < 3 -> Ok
      [] args[3].type # "IntegerLiteral" -> "hold period must be an integer"
      [] /\ name = "triple_exponential_derivative"
         /\ args[3].Val < 1 /\ args[3].Val # -1 -> "hold period must be greater than or equal to 1"
      [] args[3].Val < 0 /\ args[3].Val # -1 -> "hold period must be greater than or equal to 0"
      [] OTHER -> Ok

\* the check of the warmup type, args[3]
warmupArg(args, allowed) ==
    CASE Len(args) < 4 -> Ok
      [] args[4].type # "StringLiteral" -> "warmup type must be a string"
      [] args[4].Val \notin allowed -> "warmup type must be one of"
      [] OTHER -> Ok

\* what the moving averages do once their arguments are checked: they are
\* no selectors, they read args[1] intervals more, and they stand over an
\* aggregate when there is a GROUP BY interval and over a field when not
overWindow(s, name, args) ==
    LET s1 == [s EXCEPT !.global.OnlySelectors = FALSE,
                        !.global.ExtraIntervals = Larger(@, args[2].Val)]
    IN  IF args[1].type = "Call"
        THEN IF s1.global.Interval.Duration = 0
             THEN Fail(s1, "aggregate requires a GROUP BY interval")
             ELSE compileExpr(s1, args[1])
        ELSE IF s1.global.Interval.Duration # 0 /\ ~s1.global.InheritedInterval
             THEN Fail(s1, "aggregate function required inside the call")
             ELSE compileSymbol(s1, name, args[1])

\* a moving average of between 2 and most arguments
movingAverage(s, name, args, most, warmups) ==
    LET e == IF Len(args) \notin 2..most THEN "invalid number of arguments"
             ELSE FirstError(periodArgs(name, args), warmupArg(args, warmups))
    IN  IF e # Ok THEN Fail(s, e) ELSE overWindow(s, name, args)

compileExponentialMovingAverage(s, name, args) ==
    movingAverage(s, name, args, 4, {"exponential", "simple"})

compileKaufmans(s, name, args) ==
    movingAverage(s, name, args, 3, {})

compileChandeMomentumOscillator(s, args) ==
    movingAverage(s, "chande_momentum_oscillator", args, 4, {"none", "exponential", "simple"})

compileDistinct(s, args, nested) ==
    CASE Len(args) = 0 -> Fail(s, "distinct function requires at least one argument")
      [] Len(args) # 1 -> Fail(s, "distinct function can only have one argument")
      [] args[1].type # "VarRef" -> Fail(s, "expected field argument in distinct()")
      [] OTHER -> [s EXCEPT !.global.HasDistinct = @ \/ ~nested,
                            !.global.OnlySelectors = FALSE]

\* Distinct.NewCall
NewCall(expr) == Call("distinct", <<VarRef(expr.Val)>>)

\* an expression compiled as a nested one: its distinct does not count
compileNestedExpr(s, expr) ==
    CASE expr.type = "Call" /\ expr.Name = "distinct" -> compileDistinct(s, expr.Args, TRUE)
      [] expr.type = "Distinct" -> compileDistinct(s, NewCall(expr).Args, TRUE)
      [] OTHER -> compileExpr(s, expr)

compileHoltWinters(s, args, withFit) ==
    CASE Len(args) # 3 -> Fail(s, "invalid number of arguments")
      [] args[2].type # "IntegerLiteral" -> Fail(s, "expected integer argument as second arg")
      [] args[2].Val <= 0 -> Fail(s, "second arg must be greater than 0")
      [] args[3].type # "IntegerLiteral" -> Fail(s, "expected integer argument as third arg")
      [] args[3].Val < 0 -> Fail(s, "third arg cannot be negative")
      [] OTHER ->
            LET s1 == [s EXCEPT !.global.OnlySelectors = FALSE]
            IN  CASE args[1].type # "Call" -> Fail(s1, "must use aggregate function")
                  [] s1.global.Interval.Duration = 0 ->
                        Fail(s1, "aggregate requires a GROUP BY interval")
                  [] OTHER -> compileNestedExpr(s1, args[1])

\* the arguments that are no literals are compiled, up to the first error
compileProjectOp(s, expr) ==
    IF ~CompileOp(expr) THEN Fail(s, "op.CompileOp")
    ELSE compileArgs(s, expr.Args, Len(expr.Args))

\* the loop of compileProjectOp over the first n arguments
compileArgs(s, args, n) ==
    IF n = 0 THEN s
    ELSE LET acc == compileArgs(s, args, n - 1)
         IN  IF Failed(acc) \/ IsLiteral(args[n]) THEN acc ELSE compileExpr(acc, args[n])

normalizedExpr(expr) == IF expr.type = "Distinct" THEN NewCall(expr) ELSE expr

NonSelectors ==
    {"count", "sum", "mean", "median", "mode", "stddev", "spread", "rate", "irate", "absent"}

\* a selector that counts every aggregate as one
validateSelector_AllSelect(s, expr) == s

validateSelector(s, expr) ==
    IF expr.Name \in NonSelectors THEN [s EXCEPT !.global.OnlySelectors = FALSE] ELSE s

compileAggregateOp(s, expr) ==
    LET s1 == validateSelector(s, expr)
    IN  CASE ~CompileOp(expr) -> Fail(s1, "op.CompileOp")
          [] expr.Args[1].type = "Call" -> compileCall(s1, normalizedExpr(expr.Args[1]))
          [] OTHER -> compileSymbol(s1, expr.Name, expr.Args[1])

ExponentialMovingAverages ==
    {"exponential_moving_average", "double_exponential_moving_average",
     "triple_exponential_moving_average", "relative_strength_index",
     "triple_exponential_derivative"}

\* a call by its name; the functions of the registries of math, string,
\* label and time functions and of aggregate operators compile themselves
\* outside this file, and the statements checked have none
compileCall(s, expr) ==
    CASE expr.Name \in ProjectOps -> compileProjectOp(s, expr)
      [] expr.Name \in AggregateOps -> compileAggregateOp(s, expr)
      [] expr.Name \in ExponentialMovingAverages ->
            compileExponentialMovingAverage(s, expr.Name, expr.Args)
      [] expr.Name \in {"kaufmans_efficiency_ratio", "kaufmans_adaptive_moving_average"} ->
            compileKaufmans(s, expr.Name, expr.Args)
      [] expr.Name = "chande_momentum_oscillator" ->
            compileChandeMomentumOscillator(s, expr.Args)
      [] expr.Name \in {"holt_winters", "holt_winters_with_fit"} ->
            compileHoltWinters(s, expr.Args, expr.Name = "holt_winters_with_fit")
      [] OTHER -> Fail(s, "undefined function")

\* a call that stands in a field is put on the list of function calls,
\* unless it is a project operator
compileExpr(s, expr) ==
    CASE expr.type = "VarRef" -> [s EXCEPT !.global.HasAuxiliaryFields = TRUE]
      [] expr.type \in {"Wildcard", "RegexLiteral"} ->
            IF s.AllowWildcard THEN [s EXCEPT !.global.HasAuxiliaryFields = TRUE]
            ELSE Fail(s, "unable to use wildcard in a binary expression")
      [] expr.type = "Call" ->
            IF expr.Name \in ProjectOps THEN compileProjectOp(s, expr)
            ELSE compileCall([s EXCEPT !.global.FunctionCalls = Append(@, expr.Name)], expr)
      [] expr.type = "Distinct" ->
            compileDistinct([s EXCEPT !.global.FunctionCalls = Append(@, "distinct")],
                            NewCall(expr).Args, FALSE)
      [] expr.type = "BinaryExpr" ->
            LET s1 == [s EXCEPT !.AllowWildcard = FALSE]
                lhs == compileExpr(s1, expr.LHS)
            IN  CASE IsLiteral(expr.LHS) /\ IsLiteral(expr.RHS) ->
                        Fail(s1, "cannot perform a binary expression on two literals")
                  [] IsLiteral(expr.LHS) -> compileExpr(s1, expr.RHS)
                  [] IsLiteral(expr.RHS) -> lhs
                  [] Failed(lhs) -> lhs
                  [] OTHER -> compileExpr(lhs, expr.RHS)
      [] expr.type = "ParenExpr" -> compileExpr(s, expr.Expr)
      [] IsLiteral(expr) -> Fail(s, "field must contain at least one variable")
      [] OTHER -> Fail(s, "unimplemented")

---------------------------------------------------------------------------
\* the compiler of a statement; c.err is the error the method returns

Reject(cs, e) == [cs EXCEPT !.err = e]

NoExpr == [type |-> "nil"]

\* a statement over one measurement
Select(fields, dimensions) ==
    [Fields |-> fields, Dimensions |-> dimensions, Fill |-> "NullFill",
     Condition |-> [err |-> FALSE, expr |-> NoExpr, Min |-> ZeroTime, Max |-> ZeroTime],
     Sources |-> <<Measurement>>, SortFields |-> 0, Ascending |-> TRUE,
     Limit |-> 0, Target |-> FALSE, Range |-> 0, UnnestSource |-> <<>>]

Field(expr) == [Expr |-> expr, Alias |-> ""]

RECURSIVE validateCondition(_), validateArgs(_, _)

\* a condition may call the math functions only, each with its arguments
validateCondition(expr) ==
    CASE expr.type = "BinaryExpr" ->
            FirstError(validateCondition(expr.LHS), validateCondition(expr.RHS))
      [] expr.type = "Call" ->
            CASE expr.Name \notin MathFunctions -> "invalid function call in condition"
              [] Len(expr.Args) # (IF expr.Name \in {"atan2", "pow"} THEN 2 ELSE 1) ->
                    "invalid number of arguments"
              [] OTHER -> validateArgs(expr.Args, Len(expr.Args))
      [] OTHER -> Ok

\* the first error of the first n arguments of a call
validateArgs(args, n) ==
    IF n = 0 THEN Ok
    ELSE FirstError(validateArgs(args, n - 1), validateCondition(args[n]))

ToLower(val) == IF val = "TIME" THEN "time" ELSE val

\* an offset that is not cut to the interval
GoRem_Whole(a, b) == a

\* Go's %, which has the sign of a
GoRem(a, b) == IF a >= 0 THEN a % b ELSE -((-a) % b)

\* t.Sub(t.Truncate(d)): Truncate leaves t as it is when d is not positive
SinceTruncated(t, d) == IF d <= 0 THEN 0 ELSE t % d

\* the offset of the interval from the second argument of time()
intervalOffset(cs, lit) ==
    LET d == cs.Interval.Duration
    IN  CASE lit.type = "DurationLiteral" ->
                IF d = 0 THEN Reject(cs, "panic: integer divide by zero")
                ELSE [cs EXCEPT !.Interval.Offset = GoRem(lit.Val, d)]
          [] lit.type = "TimeLiteral" ->
                [cs EXCEPT !.Interval.Offset = SinceTruncated(lit.Val, d)]
          [] lit.type = "Call" ->
                CASE lit.Name # "now" ->
                        Reject(cs, "time dimension offset function must be now()")
                  [] Len(lit.Args) # 0 ->
                        Reject(cs, "time dimension offset now() function requires no arguments")
                  [] OTHER -> [cs EXCEPT !.Interval.Offset = SinceTruncated(Now, d)]
          [] lit.type = "StringLiteral" /\ "Time" \in DOMAIN lit ->
                IF lit.Time = Nil THEN Reject(cs, "ToTimeLiteral")
                ELSE [cs EXCEPT !.Interval.Offset = SinceTruncated(lit.Time, d)]
          [] OTHER -> Reject(cs, "time dimension offset must be duration or now()")

\* one dimension: a tag, or the one call of time()
compileDimension(cs, d) ==
    CASE d.type = "VarRef" ->
            IF ToLower(d.Val) = "time"
            THEN Reject(cs, "time() is a function and expects at least one argument")
            ELSE cs
      [] d.type = "Call" ->
            CASE d.Name # "time" -> Reject(cs, "only time() calls allowed in dimensions")
              [] Len(d.Args) \notin 1..2 ->
                    Reject(cs, "time dimension expected 1 or 2 arguments")
              [] d.Args[1].type # "DurationLiteral" ->
                    Reject(cs, "time dimension must have duration argument")
              [] cs.Interval.Duration # 0 -> Reject(cs, "multiple time dimensions not allowed")
              [] Len(d.Args) = 1 -> [cs EXCEPT !.Interval.Duration = d.Args[1].Val]
              [] OTHER -> intervalOffset([cs EXCEPT !.Interval.Duration = d.Args[1].Val],
                                         d.Args[2])
      [] d.type \in {"Wildcard", "RegexLiteral"} -> cs
      [] OTHER -> Reject(cs, "only time and tag dimensions allowed")

RECURSIVE compileDimensionsTo(_, _, _)

\* the loop of compileDimensions over the first n dimensions
compileDimensionsTo(cs, dimensions, n) ==
    IF n = 0 THEN cs
    ELSE LET acc == compileDimensionsTo(cs, dimensions, n - 1)
         IN  IF acc.err # Ok THEN acc ELSE compileDimension(acc, dimensions[n])

compileDimensions(cs, st) == compileDimensionsTo(cs, st.Dimensions, Len(st.Dimensions))

\* the end of preprocess: a time that was not given is the least time, and
\* the greatest, or now when there is an interval
resolveTimeRange(cs) ==
    [Min |-> IF cs.TimeRange.Min = ZeroTime THEN MinTime ELSE cs.TimeRange.Min,
     Max |-> CASE cs.TimeRange.Max # ZeroTime -> cs.TimeRange.Max
               [] cs.Interval.Duration # 0 -> Now
               [] OTHER -> MaxTime]

\* st.Condition is what influxql.ConditionExpr makes of the condition: an
\* error, or the condition without the times and the range of the times
\* the error of the condition of a statement
conditionError(cond) == IF cond.err THEN "ConditionExpr" ELSE validateCondition(cond.expr)

\* the end of preprocess, with what compileDimensions returned
withTimeRange(cs, st) ==
    LET c3 == [cs EXCEPT !.FillOption = st.Fill]
    IN  CASE cs.err # Ok -> cs
          [] /\ TimeFilterProtection
             /\ c3.TimeRange.Min = ZeroTime /\ c3.TimeRange.Max = ZeroTime ->
                Reject(c3, "disabled the query because without specifying the time filter")
          [] OTHER -> [c3 EXCEPT !.TimeRange = resolveTimeRange(c3)]

\* preprocess once the condition is found to have the error e, or none
withCondition(cs, st, e) ==
    IF e # Ok THEN Reject(cs, e)
    ELSE withTimeRange(
            compileDimensions(
                [cs EXCEPT !.Condition = st.Condition.expr,
                           !.TimeRange = [Min |-> st.Condition.Min, Max |-> st.Condition.Max]],
                st),
            st)

preprocess(cs, st) ==
    withCondition([cs EXCEPT !.Ascending = st.Ascending, !.Limit = st.Limit,
                             !.HasTarget = st.Target],
                  st, conditionError(st.Condition))

\* a field that is the time is left out and names the time column
compileField(cs, f) ==
    IF f.Expr.type = "VarRef" /\ f.Expr.Val = "time"
    THEN IF f.Alias # "" THEN [cs EXCEPT !.TimeFieldName = f.Alias] ELSE cs
    ELSE compileExpr([global |-> [cs EXCEPT !.Fields = Append(@, f)],
                      AllowWildcard |-> TRUE], f.Expr).global

RECURSIVE compileFieldsTo(_, _, _)

\* the loop of compileFields over the first n fields
compileFieldsTo(cs, fields, n) ==
    IF n = 0 THEN [cs EXCEPT !.Fields = <<>>]
    ELSE LET acc == compileFieldsTo(cs, fields, n - 1)
         IN  IF acc.err # Ok THEN acc ELSE compileField(acc, fields[n])

compileFields(cs, st) == compileFieldsTo(cs, st.Fields, Len(st.Fields))

\* the fields go together
validateFields(cs) ==
    LET calls == Len(cs.FunctionCalls)
    IN  CASE Len(cs.Fields) = 0 -> "at least 1 non-time field must be queried"
          [] calls > 1 /\ cs.TopBottomFunction # "" ->
                "selector function cannot be combined with other functions"
          [] calls = 0 /\ cs.FillOption = "NoFill" -> "fill(none) must be used with a function"
          [] calls = 0 /\ cs.FillOption = "LinearFill" ->
                "fill(linear) must be used with a function"
          [] calls = 0 /\ cs.Interval.Duration # 0 /\ ~cs.InheritedInterval ->
                "GROUP BY requires at least one aggregate function"
          [] cs.HasDistinct /\ (calls # 1 \/ cs.HasAuxiliaryFields) ->
                "aggregate function distinct() cannot be combined with other functions or fields"
          [] /\ calls > 1 /\ cs.PercentileOGSketchFunction # ""
             /\ \E i \in 1..calls : cs.FunctionCalls[i] # "percentile_ogsketch" ->
                "selector function cannot be combined with other functions"
          [] cs.HasAuxiliaryFields /\ ~cs.OnlySelectors ->
                "mixing aggregate and non-aggregate queries is not supported"
          [] cs.HasAuxiliaryFields /\ calls > 1 ->
                "mixing multiple selector functions with tags or fields is not supported"
          [] OTHER -> Ok

\* the function of an unnest source and its aliases
validateUnnestFunc(u, call) ==
    CASE call.Name # "match_all" -> "unnest not support"
      [] Len(call.Args) # 2 -> "unnest match_all need 2 param"
      [] call.Args[1].type # "VarRef" -> "the argument of extract function must be pattern"
      [] call.Args[1].NumSubexp = Nil -> "panic: regexp: Compile"
      [] u.Aliases # call.Args[1].NumSubexp ->
            "the number of regular matching fields is not equal to the number of alias fields"
      [] u.Aliases # u.DstType ->
            "the number of DstType is not equal to the number of alias fields"
      [] OTHER -> Ok

RECURSIVE validateUnnestTo(_, _)

\* the loop of validateUnnestSource over the first n unnest sources
validateUnnestTo(unnest, n) ==
    IF n = 0 THEN Ok
    ELSE LET e == validateUnnestTo(unnest, n - 1)
             v == unnest[n]
         IN  CASE e # Ok -> e
               [] v.Expr.type = "Call" -> validateUnnestFunc(v, v.Expr)
               [] OTHER -> "parse func is not call"

\* nothing is validated in the compiler of a subquery, whose stmt is nil
validateUnnestSource(cs) ==
    IF cs.stmt = Nil THEN Ok
    ELSE validateUnnestTo(cs.stmt.UnnestSource, Len(cs.stmt.UnnestSource))

---------------------------------------------------------------------------
\* the sources of a statement

RECURSIVE compile(_, _, _), compileSources(_, _, _, _)

\* TimeRange.Intersect of two ranges without zero times
Intersect(a, b) == [Min |-> Larger(a.Min, b.Min), Max |-> Smaller(a.Max, b.Max)]

\* a subquery that takes the interval and does not say it is inherited
inherit_Unmarked(sub, cs) ==
    IF cs.Interval.Duration # 0 /\ sub.Interval.Duration = 0
    THEN [sub EXCEPT !.Interval = cs.Interval]
    ELSE sub

\* a subquery without a grouping interval takes the one of its parent
inherit(sub, cs) ==
    IF cs.Interval.Duration # 0 /\ sub.Interval.Duration = 0
    THEN [sub EXCEPT !.Interval = cs.Interval, !.InheritedInterval = TRUE]
    ELSE sub

\* the statement of a subquery under the compiler cs of its parent: what
\* it returns, and st.SubQueryHasDifferentAscending
returned(r) == [err |-> r.c.err, differs |-> r.differs]

\* subquery once preprocess returned the compiler sub
handDown(cs, st, sub) ==
    IF sub.err # Ok THEN [err |-> sub.err, differs |-> FALSE]
    ELSE returned(
            compile(inherit([sub EXCEPT
                                !.Ascending = cs.Ascending,
                                !.TimeRange = Intersect(@, cs.TimeRange),
                                !.FillOption = IF sub.Interval.Duration # 0 /\ @ = "NullFill"
                                               THEN "NoFill" ELSE @],
                            cs),
                    st, st.SortFields # 0 /\ sub.Ascending # cs.Ascending))

subquery(cs, st) == handDown(cs, st, preprocess(newCompiler, st))

\* one side of a source: a subquery is compiled, and the flag of the
\* statement is what take makes of it and the flag of the subquery
taken(take, r, sub) == [err |-> sub.err, differs |-> take[r.differs, sub.differs]]

side(cs, r, source, take) ==
    IF r.err # Ok \/ source.type # "SubQuery" THEN r
    ELSE taken(take, r, subquery(cs, source.Statement))

TakeLast == [mine, subs \in BOOLEAN |-> subs]

TakeIfUnset == [mine, subs \in BOOLEAN |-> IF ~mine THEN subs ELSE mine]

TakeNone == [mine, subs \in BOOLEAN |-> mine]

compileSource(cs, r, source) ==
    CASE source.type = "SubQuery" -> side(cs, r, source, TakeLast)
      [] source.type = "Join" ->
            side(cs, side(cs, r, source.LSrc, TakeLast), source.RSrc, TakeIfUnset)
      [] source.type = "BinOp" ->
            side(cs, side(cs, r, source.LSrc, TakeNone), source.RSrc, TakeNone)
      [] OTHER -> r

\* the fields, then every subquery of the sources in their order, up to
\* the first error
validated(cs) ==
    IF cs.err # Ok THEN cs
    ELSE Reject(cs, FirstError(validateFields(cs), validateUnnestSource(cs)))

withSources(cs, r) == [c |-> Reject(cs, r.err), differs |-> r.differs]

overSources(cs, st, flag) ==
    withSources(cs, compileSources(cs, st.Sources, flag, Len(st.Sources)))

compile(cs, st, flag) == overSources(validated(compileFields(cs, st)), st, flag)

\* the loop of compile over the first n sources
compileSources(cs, sources, flag, n) ==
    IF n = 0 THEN [err |-> cs.err, differs |-> flag]
    ELSE compileSource(cs, compileSources(cs, sources, flag, n - 1), sources[n])

RECURSIVE Compile(_)

\* the rewrites of the statement are left to package influxql; a statement
\* in the condition is compiled as one of its own
inCondition(r) ==
    IF r.c.err = Ok /\ r.c.Condition.type = "InCondition"
    THEN [r EXCEPT !.c.err = Compile(r.c.Condition.Stmt).c.err]
    ELSE r

preprocessed(cs, st) ==
    IF cs.err # Ok THEN [c |-> cs, differs |-> FALSE] ELSE inCondition(compile(cs, st, FALSE))

Compile(st) == preprocessed(preprocess([newCompiler EXCEPT !.stmt = st], st), st)

\* time.Duration(n) * d, which wraps
DurationMul(n, d) ==
    LET half == 2 ^ (DurationBits - 1)
    IN  ((n * d + half) % (2 * half)) - half

\* the time range of the shards: the range of the statement and the extra
\* intervals before it, which for a descending query is after it
shardTimeRange(cs) ==
    CASE cs.Interval.Duration = 0 \/ cs.ExtraIntervals <= 0 -> cs.TimeRange
      [] cs.Ascending ->
            [cs.TimeRange EXCEPT
                !.Min = Larger(MinTime, @ + DurationMul(-cs.ExtraIntervals, cs.Interval.Duration))]
      [] OTHER ->
            [cs.TimeRange EXCEPT
                !.Max = Smaller(MaxTime, @ + DurationMul(cs.ExtraIntervals, cs.Interval.Duration))]

---------------------------------------------------------------------------

Init ==
    /\ stmt \in Statements
    /\ TimeFilterProtection \in BOOLEAN
    /\ pc = "parsed"
    /\ c = newCompiler
    /\ differs = FALSE
    /\ timeRange = newCompiler.TimeRange
    /\ shards = "none"

CompileStatement ==
    /\ pc = "parsed"
    /\ \E r \in {Compile(stmt)} :
           /\ c' = r.c
           /\ differs' = r.differs
           /\ pc' = IF r.c.err = Ok THEN "compiled" ELSE "rejected"
    /\ UNCHANGED <<stmt, TimeFilterProtection, timeRange, shards>>

\* Prepare without a limit of buckets (SelectOptions.MaxBucketsN is 0): the
\* shards are mapped, or MapShards fails; then the sources are of more than
\* one storage engine, or the rewrite of the fields, the check of the types,
\* the options or the hints fail, or the statement is prepared
Prepare ==
    /\ pc = "compiled"
    /\ timeRange' = shardTimeRange(c)
    /\ \/ pc' = "failed" /\ shards' = "none"
       \/ /\ Len(stmt.Sources) >= 2
          /\ pc' = "failed" /\ shards' = "open"
       \/ pc' = "failed" /\ shards' = "closed"
       \/ pc' = "prepared" /\ shards' = "open"
    /\ UNCHANGED <<stmt, TimeFilterProtection, c, differs>>

Next == CompileStatement \/ Prepare

Spec == Init /\ [][Next]_vars

---------------------------------------------------------------------------
\* what the properties say of a statement, read from its syntax tree

RECURSIVE Nodes(_)

\* the nodes of an expression
Nodes(expr) ==
    {expr} \cup
    CASE expr.type = "Call" -> UNION {Nodes(expr.Args[i]) : i \in DOMAIN expr.Args}
      [] expr.type = "BinaryExpr" -> Nodes(expr.LHS) \cup Nodes(expr.RHS)
      [] expr.type = "ParenExpr" -> Nodes(expr.Expr)
      [] OTHER -> {}

RECURSIVE Operands(_)

\* what a field is made of by arithmetic, from left to right
Operands(expr) ==
    CASE expr.type = "BinaryExpr" -> Operands(expr.LHS) \o Operands(expr.RHS)
      [] expr.type = "ParenExpr" -> Operands(expr.Expr)
      [] OTHER -> <<expr>>

\* the operands of the fields of a statement, the time left out
Selected(st) ==
    FlattenSeq([i \in DOMAIN st.Fields |->
                    IF st.Fields[i].Expr = VarRef("time") THEN <<>>
                    ELSE Operands(st.Fields[i].Expr)])

IsPlain(expr) == expr.type \in {"VarRef", "Wildcard", "RegexLiteral"}

IsFunction(expr) ==
    \/ expr.type = "Distinct"
    \/ expr.type = "Call" /\ expr.Name \notin ProjectOps

\* a function that makes one value of many rows, or a row of each row,
\* and so has no row of its own to take the other fields from
IsNoSelector(expr) ==
    \/ expr.type = "Distinct"
    \/ /\ expr.type = "Call"
       /\ expr.Name \in NonSelectors \cup ExponentialMovingAverages \cup
                        {"distinct", "kaufmans_efficiency_ratio",
                         "kaufmans_adaptive_moving_average", "chande_momentum_oscillator",
                         "holt_winters", "holt_winters_with_fit"}

Accepts(st) == Compile(st).c.err = Ok

(***************************************************************************)
(* The types, and what Prepare relies on in a statement that Compile       *)
(* accepted: preprocess left no zero time in the time range, the extra     *)
(* intervals of the moving averages are never negative (the comment of     *)
(* compiledStatement.ExtraIntervals), the offset of the interval that      *)
(* compileDimensions took is shorter than the interval, and an inherited   *)
(* interval is an interval.                                                *)
(***************************************************************************)
TypeOK ==
    /\ TimeFilterProtection \in BOOLEAN
    /\ pc \in {"parsed", "compiled", "rejected", "prepared", "failed"}
    /\ differs \in BOOLEAN
    /\ shards \in {"none", "open", "closed"}
    /\ c.err = Ok <=> pc # "rejected"
    /\ pc \in {"compiled", "prepared", "failed"} =>
        /\ c.TimeRange.Min # ZeroTime /\ c.TimeRange.Max # ZeroTime
        /\ c.TimeRange.Min \in MinTime..MaxTime /\ c.TimeRange.Max \in MinTime..MaxTime
        /\ c.ExtraIntervals \in Nat
        /\ c.Interval.Duration \in Nat
        /\ c.Interval.Duration > 0 =>
                c.Interval.Offset \in 1 - c.Interval.Duration..c.Interval.Duration - 1
        /\ c.InheritedInterval => c.Interval.Duration > 0
        /\ Len(c.Fields) \in 1..Len(stmt.Fields)

(***************************************************************************)
(* What validateFields is there for, said of the statement and not of the  *)
(* flags that compileExpr and the functions under it set on their ways     *)
(* through a field: in a statement that Compile accepts, a field or        *)
(* wildcard that is selected as it is stands beside at most one function,  *)
(* and no function anywhere in the fields, at any depth, is one that is no *)
(* selector; and a distinct that is selected is the only thing selected.   *)
(***************************************************************************)
FieldsStandBesideOneSelector ==
    pc = "compiled" =>
        LET selected  == Selected(stmt)
            plain     == SelectSeq(selected, IsPlain)
            functions == SelectSeq(selected, IsFunction)
            nodes     == UNION {Nodes(stmt.Fields[i].Expr) : i \in DOMAIN stmt.Fields}
        IN  /\ plain # <<>> =>
                /\ Len(functions) <= 1
                /\ \A n \in nodes : ~IsNoSelector(n)
            /\ (\E i \in DOMAIN functions : functions[i].type = "Distinct") =>
                Len(selected) = 1

\* st as the only source of parent
Under(parent, st) == [parent EXCEPT !.Sources = <<SubQuery(st)>>]

(***************************************************************************)
(* The comment of compiledStatement.InheritedInterval: an interval that a  *)
(* subquery inherits does not make it fail.  A statement that Compile      *)
(* accepts when it stands alone is accepted as the subquery of every       *)
(* statement of Parents that Compile accepts, whatever subquery() hands    *)
(* down to it: the interval, the order, the time range and the fill.       *)
(***************************************************************************)
InheritedIntervalNeverRejects ==
    pc = "compiled" =>
        \A parent \in Parents : Accepts(parent) => Accepts(Under(parent, stmt))

(***************************************************************************)
(* Prepare maps the shards of all the times the statement reads: the range *)
(* of the statement lies in the range of the shards, and a statement with  *)
(* a moving average over an interval has shards for times before the range *)
(* (after it, when the order is descending) unless the range reaches the   *)
(* least (the greatest) time.                                              *)
(***************************************************************************)
ShardsCoverTheTimeRange ==
    pc \in {"prepared", "failed"} =>
        /\ timeRange.Min <= c.TimeRange.Min
        /\ timeRange.Max >= c.TimeRange.Max
        /\ c.Interval.Duration # 0 /\ c.ExtraIntervals > 0 =>
            IF c.Ascending
            THEN timeRange.Min < c.TimeRange.Min \/ timeRange.Min = MinTime
            ELSE timeRange.Max > c.TimeRange.Max \/ timeRange.Max = MaxTime

(***************************************************************************)
(* Every return of Prepare with an error closes the shards that MapShards  *)
(* opened, as the returns after RewriteFields, validateTypes,              *)
(* NewProcessorOptionsStmt and VerifyHintStmt do.                          *)
(***************************************************************************)
ShardsClosedOnError ==
    pc = "failed" => shards # "open"

RECURSIVE OrderedDifferently(_, _)

\* a subquery, at any depth of the sources of st, is sorted in the other
\* order than ascending
OrderedDifferently(st, ascending) ==
    \E i \in DOMAIN st.Sources :
        LET source == st.Sources[i]
            subs == CASE source.type = "SubQuery" -> {source}
                      [] source.type = "Join" ->
                            {q \in {source.LSrc, source.RSrc} : q.type = "SubQuery"}
                      [] OTHER -> {}
        IN  \E q \in subs :
                \/ q.Statement.SortFields # 0 /\ q.Statement.Ascending # ascending
                \/ OrderedDifferently(q.Statement, ascending)

(***************************************************************************)
(* SelectStatement.SubQueryHasDifferentAscending after Compile: subquery() *)
(* sets it where it once refused a subquery that is sorted in another      *)
(* order than the query, and compile hands it up from the subqueries and   *)
(* the sides of a join to the statement.  It is set exactly when some      *)
(* subquery of the statement is sorted in the other order.                 *)
(***************************************************************************)
DifferentOrderIsReported ==
    pc = "compiled" => (differs <=> OrderedDifferently(stmt, stmt.Ascending))
===============================================================================
