------------------------------- MODULE Parser -------------------------------
(***************************************************************************)
(* The query parser (query/parser.go Parse) over the tokens the lexer      *)
(* made.  The kind of a keyword or of punctuation is its text; the kind of *)
(* a literal is its type, its text is the value it denotes, or OutOfRange  *)
(* for a number that strconv refuses.                                      *)
(***************************************************************************)
EXTENDS QuerySyntax, SequencesExt, Integers

CONSTANTS
  OutOfRange,  \* the text of a number literal that denotes no value
  Inputs,      \* token sequences, without the end mark
  Grammar      \* queries of the grammar, which Inputs are held against

Keyword     == {"SELECT", "WHERE", "COUNT", "SUM", "AND", "OR", "GROUP", "BY", "HAVING", "FROM"}
Punctuation == {",", "(", ")", "*"}
Token ==
  [kind : {"ident"}, text : Names \ {EmptyName}] \cup
  { [kind |-> k, text |-> k] : k \in Keyword \cup Punctuation } \cup
  [kind : {"op"}, text : FilterOp] \cup
  [kind : {"string"}, text : Bits] \cup
  [kind : {"int64", "float64"}, text : Bits \cup {OutOfRange}]

ASSUME InputAssumption ==
  /\ Inputs \subseteq Seq(Token) /\ OutOfRange \notin Bits
  /\ \A x \in Grammar : QueryOK(x) /\ (x.proj = "columns" => x.cols # <<>>)

VARIABLES
  toks,   \* the input
  at,     \* the position of the next token
  phase,  \* which function of the parser runs
  ast,    \* the Query being filled in
  comps,  \* parseWhere: the comparisons,
  ops,    \* and the AND or OR between each and the next
  blame   \* the position of the parse error, 0 if it names none

pvars == <<toks, at, phase, ast, comps, ops, blame>>

EmptyQuery == [proj |-> "columns", cols |-> <<>>, sumCol |-> EmptyName,
               groupBy |-> EmptyName, agg |-> "count", where |-> NoFilterExpr]

ParserInit ==
  /\ toks \in Inputs
  /\ at = 1 /\ phase = "select" /\ ast = EmptyQuery
  /\ comps = <<>> /\ ops = <<>> /\ blame = 0

\* advance never moves past the end mark, which no pattern contains.
Kind(i) == IF i \in DOMAIN toks THEN toks[i].kind ELSE "EOF"
Peek    == Kind(at)
Text(i) == toks[i].text

\* A pattern is what a run of advance and check expects: the kinds allowed
\* at each place.  Blame falls on the first token that does not fit.
Fits(pattern) == \A i \in DOMAIN pattern : Kind(at + i - 1) \in pattern[i]
\* Mutant: the construct is blamed, not the token that does not fit.
MisfitBlamesStart(pattern) == at

Misfit(pattern) ==
  at - 1 + CHOOSE i \in DOMAIN pattern :
    /\ Kind(at + i - 1) \notin pattern[i]
    /\ \A j \in 1 .. (i - 1) : Kind(at + j - 1) \in pattern[j]

CountPattern   == << {"COUNT"}, {"("}, {"*"}, {")"} >>
SumPattern     == << {"SUM"}, {"("}, {"ident"}, {")"} >>
GroupByPattern == << {"GROUP"}, {"BY"}, {"ident"} >>
\* Mutant: a float literal is not a literal.
ComparisonPatternNoFloat == << {"ident"}, {"op"}, {"int64", "string"} >>

ComparisonPattern == << {"ident"}, {"op"}, ColumnType >>

Reject(i) ==
  /\ phase' = "rejected" /\ blame' = i
  /\ UNCHANGED <<toks, at, ast, comps, ops>>
Take(n, then) ==
  /\ at' = at + n /\ phase' = then
  /\ UNCHANGED <<toks, blame>>

-----------------------------------------------------------------------------
ParseSelect ==
  /\ phase = "select"
  /\ \/ Peek # "SELECT" /\ Reject(at)
     \/ Peek = "SELECT" /\ Take(1, "projection") /\ UNCHANGED <<ast, comps, ops>>

ParseStar ==
  /\ phase = "projection" /\ Peek = "*"
  /\ ast' = [ast EXCEPT !.proj = "star"]
  /\ Take(1, "clauses") /\ UNCHANGED <<comps, ops>>

ParseCount ==
  /\ phase = "projection" /\ Peek = "COUNT"
  /\ \/ ~Fits(CountPattern) /\ Reject(Misfit(CountPattern))
     \/ /\ Fits(CountPattern)
        /\ ast' = [ast EXCEPT !.proj = "count"]
        /\ Take(4, "clauses") /\ UNCHANGED <<comps, ops>>

ParseSum ==
  /\ phase = "projection" /\ Peek = "SUM"
  /\ \/ ~Fits(SumPattern) /\ Reject(Misfit(SumPattern))
     \/ /\ Fits(SumPattern)
        /\ ast' = [ast EXCEPT !.proj = "sum", !.sumCol = Text(at + 2)]
        /\ Take(4, "clauses") /\ UNCHANGED <<comps, ops>>

ParseFirstColumn ==
  /\ phase = "projection" /\ Peek = "ident"
  /\ ast' = [ast EXCEPT !.proj = "columns", !.cols = <<Text(at)>>]
  /\ Take(1, "columns") /\ UNCHANGED <<comps, ops>>

ParseNoProjection ==
  /\ phase = "projection" /\ Peek \notin {"*", "COUNT", "SUM", "ident"}
  /\ Reject(at)

\* One more item of a column list: a column, or the aggregate of a grouped
\* projection, which only the first column may precede and nothing follow.
ParseNextColumn ==
  /\ phase = "columns" /\ Peek = ","
  /\ \/ Kind(at + 1) \notin {"ident", "COUNT", "SUM"} /\ Reject(at + 1)
     \/ /\ Kind(at + 1) = "ident"
        /\ ast' = [ast EXCEPT !.cols = Append(@, Text(at + 1))]
        /\ Take(2, "columns") /\ UNCHANGED <<comps, ops>>
     \/ Kind(at + 1) \in {"COUNT", "SUM"} /\ Len(ast.cols) # 1 /\ Reject(at + 1)
     \/ /\ Kind(at + 1) \in {"COUNT", "SUM"} /\ Len(ast.cols) = 1
        /\ LET isSum   == Kind(at + 1) = "SUM"
               pattern == << {","} >> \o (IF isSum THEN SumPattern ELSE CountPattern)
           IN  \/ ~Fits(pattern) /\ Reject(Misfit(pattern))
               \/ Fits(pattern) /\ Kind(at + 5) = "," /\ Reject(at + 5)
               \/ /\ Fits(pattern) /\ Kind(at + 5) # ","
                  /\ ast' = [ast EXCEPT !.proj = "grouped",
                                        !.agg = IF isSum THEN "sum" ELSE "count",
                                        !.sumCol = IF isSum THEN Text(at + 3) ELSE @]
                  /\ Take(5, "clauses") /\ UNCHANGED <<comps, ops>>

\* Mutant: after the last column another one is looked for.
EndColumnsAgain ==
  /\ phase = "columns" /\ Peek # ","
  /\ Take(0, "columns") /\ UNCHANGED <<ast, comps, ops>>

EndColumns ==
  /\ phase = "columns" /\ Peek # ","
  /\ Take(0, "clauses") /\ UNCHANGED <<ast, comps, ops>>

ParseClauses ==
  /\ phase = "clauses"
  /\ \/ Peek = "FROM" /\ Reject(at)
     \/ Peek = "WHERE" /\ Take(1, "comparison") /\ UNCHANGED <<ast, comps, ops>>
     \/ Peek \notin {"FROM", "WHERE"} /\ Take(0, "group") /\ UNCHANGED <<ast, comps, ops>>

-----------------------------------------------------------------------------
(* parseWhere: read the conditions, then group them.                        *)

ParseComparison ==
  /\ phase = "comparison"
  /\ \/ ~Fits(ComparisonPattern) /\ Reject(Misfit(ComparisonPattern))
     \/ Fits(ComparisonPattern) /\ Text(at + 2) = OutOfRange /\ Reject(at + 2)
     \/ /\ Fits(ComparisonPattern) /\ Text(at + 2) # OutOfRange
        /\ comps' = Append(comps,
             [kind |-> "cmp", col |-> Text(at), op |-> Text(at + 1),
              lit |-> [type |-> Kind(at + 2), bits |-> Text(at + 2)]])
        /\ Take(3, "conditions") /\ UNCHANGED <<ast, ops>>

\* Mutant: OR binds tighter, a new group starts at every AND.
JoinGroupAtAnd(grouped, i) ==
  IF ops[i] = "OR"
  THEN [grouped EXCEPT ![Len(grouped)] = Append(@, comps[i + 1])]
  ELSE Append(grouped, <<comps[i + 1]>>)

\* One turn of pass 2: the comparison behind the i-th AND or OR.
JoinGroup(grouped, i) ==
  IF ops[i] = "AND"
  THEN [grouped EXCEPT ![Len(grouped)] = Append(@, comps[i + 1])]
  ELSE Append(grouped, <<comps[i + 1]>>)

\* Pass 2: split the comparisons at every OR.
GroupComparisons ==
  LET pass[i \in 0 .. Len(ops)] ==
        IF i = 0 THEN << <<comps[1]>> >> ELSE JoinGroup(pass[i - 1], i)
  IN  pass[Len(ops)]

\* Mutant: a group of one comparison stays a group.
LowerGroupAlways(members) == And(members)

\* Pass 3: a group or a list of groups of one is the one itself.
LowerGroup(members) == IF Len(members) = 1 THEN members[1] ELSE And(members)
LowerGroups(groups) ==
  IF Len(groups) = 1 THEN LowerGroup(groups[1])
  ELSE Or([g \in DOMAIN groups |-> LowerGroup(groups[g])])

ParseConditions ==
  /\ phase = "conditions"
  /\ \/ /\ Peek \in {"AND", "OR"}
        /\ ops' = Append(ops, Peek)
        /\ Take(1, "comparison") /\ UNCHANGED <<ast, comps>>
     \/ Peek = "ident" /\ Reject(at)
     \/ /\ Peek \notin {"AND", "OR", "ident"}
        /\ ast' = [ast EXCEPT !.where = LowerGroups(GroupComparisons)]
        /\ Take(0, "group") /\ UNCHANGED <<comps, ops>>

-----------------------------------------------------------------------------
ParseGroupBy ==
  /\ phase = "group"
  /\ \/ Peek # "GROUP" /\ Take(0, "end") /\ UNCHANGED <<ast, comps, ops>>
     \/ Peek = "GROUP" /\ ~Fits(GroupByPattern) /\ Reject(Misfit(GroupByPattern))
     \/ Fits(GroupByPattern) /\ Kind(at + 3) = "," /\ Reject(at + 3)
     \/ /\ Fits(GroupByPattern) /\ Kind(at + 3) # ","
        /\ ast' = [ast EXCEPT !.groupBy = Text(at + 2)]
        /\ Take(3, "end") /\ UNCHANGED <<comps, ops>>

\* validateGrouped returns no error.
ValidGrouping ==
  IF ast.proj = "grouped" THEN ast.groupBy = ast.cols[1] ELSE ast.groupBy = EmptyName

ParseEnd ==
  /\ phase = "end"
  /\ \/ Peek = "HAVING" /\ Reject(at)
     \/ Peek # "HAVING" /\ ~ValidGrouping /\ Reject(0)
     \/ Peek \notin {"HAVING", "EOF"} /\ ValidGrouping /\ Reject(at)
     \/ Peek = "EOF" /\ ValidGrouping /\ Take(0, "parsed") /\ UNCHANGED <<ast, comps, ops>>

ParserNext ==
  \/ ParseSelect
  \/ ParseStar \/ ParseCount \/ ParseSum \/ ParseFirstColumn \/ ParseNoProjection
  \/ ParseNextColumn \/ EndColumns
  \/ ParseClauses \/ ParseComparison \/ ParseConditions
  \/ ParseGroupBy \/ ParseEnd

ParserSpec == ParserInit /\ [][ParserNext]_pvars /\ WF_pvars(ParserNext)

-----------------------------------------------------------------------------
(* The grammar, as the tokens a query is written with.                      *)

Sym(k)   == <<[kind |-> k, text |-> k]>>
Ident(n) == <<[kind |-> "ident", text |-> n]>>

\* Parts in a row, with sep between each and the next.
Between(sep, parts) ==
  LET upTo[n \in 0 .. Len(parts)] ==
        IF n = 0 THEN <<>>
        ELSE upTo[n - 1] \o (IF n = 1 THEN <<>> ELSE sep) \o parts[n]
  IN  upTo[Len(parts)]

Listed(names) == Between(Sym(","), [i \in DOMAIN names |-> Ident(names[i])])
CountTokens  == Sym("COUNT") \o Sym("(") \o Sym("*") \o Sym(")")
SumTokens(x) == Sym("SUM") \o Sym("(") \o Ident(x.sumCol) \o Sym(")")

ProjectionTokens(x) ==
  CASE x.proj = "star"    -> Sym("*")
    [] x.proj = "count"   -> CountTokens
    [] x.proj = "sum"     -> SumTokens(x)
    [] x.proj = "columns" -> Listed(x.cols)
    [] OTHER -> Ident(x.groupBy) \o Sym(",") \o (IF x.agg = "sum" THEN SumTokens(x) ELSE CountTokens)

ComparisonTokens(e) ==
  Ident(e.col) \o <<[kind |-> "op", text |-> e.op], [kind |-> e.lit.type, text |-> e.lit.bits]>>

\* AND within each disjunct, OR between them, no parentheses.
TermTokens(terms) == Between(Sym("AND"), [i \in DOMAIN terms |-> ComparisonTokens(terms[i])])
ConditionTokens(e) ==
  Between(Sym("OR"), [i \in DOMAIN Disjuncts(e) |-> TermTokens(Conjuncts(Disjuncts(e)[i]))])

Sentence(x) ==
  Sym("SELECT") \o ProjectionTokens(x) \o
  (IF Filtered(x) THEN Sym("WHERE") \o ConditionTokens(x.where) ELSE <<>>) \o
  (IF x.proj = "grouped" THEN Sym("GROUP") \o Sym("BY") \o Ident(x.groupBy) ELSE <<>>)

-----------------------------------------------------------------------------
(* Properties.                                                              *)

\* Type invariant: the parser stays on the tokens and the end mark (part of
\* QueryCommand's, and checked there).
ParserTypeOK ==
  /\ toks \in Seq(Token)
  /\ at \in 1 .. (Len(toks) + 1)
  /\ blame \in 0 .. (Len(toks) + 1)
  /\ phase \in {"select", "projection", "columns", "clauses", "comparison", "conditions",
                "group", "end", "parsed", "rejected"}
  /\ QueryOK(ast)
  /\ comps \in Seq(Comparison)
  /\ ops \in Seq({"AND", "OR"})

\* Nothing is silently misread (parseWhere's comment, parser.go:434-436): the
\* query that comes out, written down again, is the input, token by token.
ReadsBack == phase = "parsed" => Sentence(ast) = toks

\* And no query of the grammar is refused.
Sentences == { Sentence(x) : x \in Grammar }
AcceptsGrammar == phase = "rejected" => toks \notin Sentences

\* The FilterExpr invariants the executor relies on (parser.go:95-107): at
\* most two levels, OR above AND, no group of one.
TreeShape ==
  LET e == ast.where
  IN  phase = "parsed" =>
        /\ e.kind \in {"none", "cmp", "and", "or"}
        /\ e.kind \in {"and", "or"} => Len(e.kids) >= 2
        /\ e.kind = "and" => \A i \in DOMAIN e.kids : e.kids[i].kind = "cmp"
        /\ e.kind = "or" =>
             \A i \in DOMAIN e.kids :
               \/ e.kids[i].kind = "cmp"
               \/ e.kids[i].kind = "and" /\ Len(e.kids[i].kids) >= 2

\* An error that names a token names one that is wrong: no query of the
\* grammar begins with the tokens up to it.  At the end mark, none is toks.
Beginnings == UNION { { SubSeq(w, 1, n) : n \in DOMAIN w } : w \in Sentences }
BlameIsDue ==
  phase = "rejected" /\ blame \in DOMAIN toks => SubSeq(toks, 1, blame) \notin Beginnings

\* The package comment (parser.go:3-6): "Supported grammar (one statement, no
\* AND/OR/JOIN/GROUP BY/expressions)", a WHERE being one comparison.
OneComparison == phase = "parsed" => ast.where.kind \in {"none", "cmp"} /\ ast.proj # "grouped"

\* Liveness (Parse runs on one goroutine, nothing blocks): it ends.
ParserStops == <>(phase \in {"parsed", "rejected"})
=============================================================================
