----------------------------- MODULE MCCompiler -----------------------------
(***************************************************************************)
(* Source files for Compiler: trees are built, given a meaning, and        *)
(* written down with no more parentheses than C needs.                     *)
(***************************************************************************)
EXTENDS Compiler

(***************************************************************************)
(* Trees.                                                                  *)
(***************************************************************************)
Num(n) == [Node("NUMBER") EXCEPT !.value = n]
Text(n) == [Node("STRING") EXCEPT !.value = n]
Id(x) == Named("IDENT", x, <<>>)
Bin(op, l, r) == Applied("BINARY", op, <<l, r>>)
Un(op, e) == Applied("UNARY", op, <<e>>)
Call(f, args) == Branch("CALL", <<Id(f)>> \o args)
Chonk == Named("TYPE", "chonk", <<>>)
Let(x, e) == Named("VAR_DECL", x, <<Chonk, e>>)
Set(x, e) == Applied("ASSIGN", "=", <<Id(x), e>>)
Gimme(e) == Branch("RETURN", <<e>>)
Do(stmts) == Branch("BLOCK", stmts)
Fn(f, stmts) == Named("FUNCTION", f, <<Chonk, Do(<<>>), Do(stmts)>>)
Param(x) == Named("VAR_DECL", x, <<Chonk>>)
Root(fns) == Branch("PROGRAM", fns)
PrintInt(e) == Call("print_int", <<e>>)

(***************************************************************************)
(* Trees as tokens.  Precedence: as in C, the tightest operators last.     *)
(***************************************************************************)
T(kind) == [kind |-> kind, lexeme |-> kind, value |-> 0]
Ident(x) == [T("IDENT") EXCEPT !.lexeme = x]
Precedence(op) == CASE op = "||" -> 1 [] op = "&&" -> 2 [] op = "|" -> 3
    [] op = "^" -> 4 [] op = "&" -> 5 [] op \in {"==", "!="} -> 6
    [] op \in {"<", ">", "<=", ">="} -> 7 [] op \in {"<<", ">>"} -> 8
    [] op \in {"+", "-"} -> 9 [] op \in {"*", "/", "%"} -> 10
UNARY_PRECEDENCE == 11

RECURSIVE Show(_, _), ShowArgs(_, _), ShowStmt(_), ShowAll(_, _)
Paren(ts) == <<T("(")>> \o ts \o <<T(")")>>
Show(e, level) ==
    CASE e.kind = "NUMBER" -> <<[T("NUMBER") EXCEPT !.value = e.value]>>
      [] e.kind = "STRING" -> <<[T("STRING") EXCEPT !.value = e.value]>>
      [] e.kind = "IDENT"  -> <<Ident(e.name)>>
      [] e.kind = "CALL"   -> <<Ident(e.kids[1].name)>>
                              \o Paren(ShowArgs(e.kids, 2))
      [] e.kind = "UNARY"  -> <<T(e.op)>> \o Show(e.kids[1], UNARY_PRECEDENCE)
      [] e.kind = "ASSIGN" -> Show(e.kids[1], 0) \o <<T(e.op)>>
                              \o Show(e.kids[2], 0)
      [] e.kind = "BINARY" ->
             LET p == Precedence(e.op)
                 ts == Show(e.kids[1], p) \o <<T(e.op)>> \o Show(e.kids[2], p + 1)
             IN IF p < level THEN Paren(ts) ELSE ts
ShowArgs(kids, i) ==
    IF i > Len(kids) THEN <<>>
    ELSE (IF i > 2 THEN <<T(",")>> ELSE <<>>) \o Show(kids[i], 0)
         \o ShowArgs(kids, i + 1)

Braces(ts) == <<T("{")>> \o ts \o <<T("}")>>
ShowDecl(d) == <<Ident(d.name), T(":"), T(d.kids[1].name)>>
               \o (IF Len(d.kids) = 2 THEN <<T("=")>> \o Show(d.kids[2], 0)
                   ELSE <<>>)
ShowStmt(n) ==
    CASE n.kind = "RETURN" -> <<T("gimme")>> \o Show(n.kids[1], 0) \o <<T(";")>>
      [] n.kind = "VAR_DECL" -> ShowDecl(n) \o <<T(";")>>
      [] n.kind = "IF" ->
             <<T("pwease")>> \o Paren(Show(n.kids[1], 0)) \o ShowStmt(n.kids[2])
             \o (IF Len(n.kids) = 3 THEN <<T("nowu")>> \o ShowStmt(n.kids[3])
                 ELSE <<>>)
      [] n.kind = "WHILE" ->
             <<T("wepeat")>> \o Paren(Show(n.kids[1], 0)) \o ShowStmt(n.kids[2])
      [] n.kind = "FOR" ->
             <<T("fow"), T("(")>> \o Show(n.kids[1], 0) \o <<T(";")>>
             \o Show(n.kids[2], 0) \o <<T(";")>> \o Show(n.kids[3], 0)
             \o <<T(")")>> \o ShowStmt(n.kids[4])
      [] n.kind = "BLOCK" -> Braces(ShowAll(n.kids, 1))
      [] n.kind = "BREAK" -> <<T("bweak"), T(";")>>
      [] n.kind = "CONTINUE" -> <<T("continyue"), T(";")>>
      [] OTHER -> Show(n, 0) \o <<T(";")>>
ShowAll(kids, i) == IF i > Len(kids) THEN <<>>
                    ELSE ShowStmt(kids[i]) \o ShowAll(kids, i + 1)

\* Parameters as parse_parameter reads them, the type first.
ShowParams(ps) ==
    FoldLeft(LAMBDA ts, p : (IF ts = <<>> THEN ts ELSE Append(ts, T(",")))
                            \o <<T(p.kids[1].name), Ident(p.name)>>, <<>>, ps)
RECURSIVE ShowFns(_, _)
ShowFns(fns, i) ==
    IF i > Len(fns) THEN <<T("EOF")>>
    ELSE <<T("nuzzle"), Ident(fns[i].name)>> \o Paren(ShowParams(fns[i].kids[2].kids))
         \o <<T("->"), T(fns[i].kids[1].name)>>
         \o ShowStmt(fns[i].kids[3]) \o ShowFns(fns, i + 1)

(***************************************************************************)
(* Tokens as text: packed, with a blank only where two tokens would run    *)
(* together, or with a comment and a line's end behind each.               *)
(***************************************************************************)
Pieces(op) == CHOOSE p \in SINGLE \X SINGLE : p[1] \o p[2] = op
Spelled(t) ==
    CASE t.kind = "NUMBER" -> <<ToString(t.value)>>
      [] t.kind = "STRING" -> <<QUOTE>> \o [i \in 1..(t.value - FORMAT) |-> "%"]
                              \o <<ESCAPE, QUOTE, QUOTE>>
      [] t.kind = "EOF" -> <<>>
      [] t.lexeme \in DOUBLES -> Pieces(t.lexeme)
      [] OTHER -> <<t.lexeme>>
RunTogether(a, b) == \/ a \notin MARKS /\ b \notin MARKS
                     \/ a \o b \in DOUBLES \cup {COMMENT}
Beside(text, t) ==
    IF text # <<>> /\ t # <<>> /\ RunTogether(Last(text), Head(t))
    THEN text \o <<" ">> \o t ELSE text \o t
Packed(ts) == FoldLeft(LAMBDA text, t : Beside(text, Spelled(t)), <<>>, ts)
Spread(ts) == FoldLeft(LAMBDA text, t : text \o Spelled(t) \o <<" ", "/", "/", "a", QUOTE, "\n">>,
                       <<>>, ts)

File(root, in) == [source |-> Packed(ShowFns(root.kids, 1)), tree |-> root, input |-> in,
                   target |-> "x86_64"]
SpreadFile(root, in) == [File(root, in) EXCEPT !.source = Spread(ShowFns(root.kids, 1))]
InMain(stmts) == Root(<<Fn("main", stmts)>>)

(***************************************************************************)
(* Every pair of operators, grouped either way, and every operator below   *)
(* and above a unary one.                                                  *)
(***************************************************************************)
OPS == UNION {LEVELS[k] : k \in DOMAIN LEVELS}
Grouped == {Bin(p, Bin(q, Num(5), Id("a")), Num(2)) : p \in OPS, q \in OPS}
           \cup {Bin(p, Num(5), Bin(q, Id("a"), Num(2))) : p \in OPS, q \in OPS}
           \cup {Un(u, Bin(p, Num(5), Id("a"))) : u \in {"-", "~"}, p \in OPS}
           \cup {Bin(p, Un("-", Id("a")), Un("~", Num(2))) : p \in OPS}
ReadAnd(e) == InMain(<<Let("a", Call("read_int", <<>>)), Gimme(e)>>)
OfExpression == {ReadAnd(e) : e \in Grouped}
\* Comparisons under two operators that take truths.
TRUTH_OPS == {"&&", "||", "&", "|", "^", "==", "!="}
Compared(k) == {Bin("<", Id("a"), Num(k)), Bin("!=", Num(k), Id("a"))}
OfTruths == {ReadAnd(Bin(p, Bin(q, c, t), Bin("==", Id("a"), Num(3)))) :
                p \in TRUTH_OPS, q \in TRUTH_OPS, c \in Compared(3), t \in Compared(5)}
            \cup {ReadAnd(Bin(p, c, Bin(q, t, Bin("==", Id("a"), Num(3))))) :
                p \in TRUTH_OPS, q \in TRUTH_OPS, c \in Compared(3), t \in Compared(5)}

(***************************************************************************)
(* Statements between two declarations and a result.                       *)
(***************************************************************************)
Less == Bin("<", Id("a"), Num(3))
Step == Set("a", Bin("+", Id("a"), Num(1)))
Declaring == Do(<<Let("c", Bin("-", Id("b"), Id("a"))), PrintInt(Id("c"))>>)
Simple == {Step, PrintInt(Bin("*", Id("a"), Id("b"))), Set("b", Call("read_int", <<>>)),
           Call("uwu_print", <<Text(FORMAT)>>), Call("print_str", <<Text(FORMAT)>>),
           Set("b", Id("a")),
           Bin("+", Id("a"), Id("b")), Declaring}
If2(s) == Branch("IF", <<Bin("==", Id("a"), Num(1)), s>>)
If3(s, t) == Branch("IF", <<Less, s, t>>)
While(body) == Branch("WHILE", <<Less, Do(body)>>)
ForTo(body) == Branch("FOR", <<Set("a", Num(0)), Less, PrintInt(Id("b")), Do(body)>>)
Nested == {If2(s) : s \in Simple}
          \cup {If3(s, t) : s \in Simple, t \in Simple}
          \cup {If2(If3(s, Step)) : s \in Simple}
          \cup {While(<<s, Step>>) : s \in Simple}
          \cup {While(<<If3(s, Gimme(Id("b"))), Step>>) : s \in Simple}
          \cup {ForTo(<<s, Step>>) : s \in Simple \ {Declaring}}
          \cup {While(<<Let("d", Id("a")), Step,
                        Branch("WHILE", <<Bin("<", Id("b"), Id("d")),
                            Do(<<Set("b", Bin("+", Id("b"), Num(1)))>>)>>)>>)}
Numbers(n) == [i \in 1..n |-> Bin("+", Id("a"), Num(i))]
Calls == {Call("uwu_printf", <<Text(FORMAT + n)>> \o Numbers(n)) : n \in 4..8}
OfStatement == {InMain(<<Let("a", Call("read_int", <<>>)), Let("b", Num(1)), s,
                         Gimme(Bin("-", Id("a"), Id("b")))>>) :
                   s \in Simple \cup Nested \cup Calls}
               \cup {InMain(<<Let("a", Call("read_int", <<>>)), s>>) : s \in {Step}}

\* A function of the program that does nothing, before and after main.
Idler == <<Let("a", Call("read_int", <<>>)), Call("idle", <<>>),
           Let("b", Bin("+", Id("a"), Call("idle", <<>>))), Gimme(Id("b"))>>
OfFunctions == {Root(<<Fn("idle", <<>>), Fn("main", Idler)>>),
                Root(<<Fn("main", Idler), Fn("idle", <<>>)>>)}

Runs(roots, inputs) == {File(r, in) : r \in roots, in \in inputs}
HasMeaning(p) == Meaning(p.tree, p.input, Fuel).ok
Ones == Runs(OfExpression \cup OfTruths \cup OfFunctions, {<<3>>})
Twos == Runs(OfStatement, {<<0, 2>>, <<1, 2>>, <<5>>, <<>>})

\* Sources with no meaning: a name nobody declares; a token of a program
\* missing; the blank behind the first word missing; a mark no token starts with,
\* and a string nobody ends.
Garbled(text) == [source |-> text, tree |-> NoTree, input |-> <<>>,
                   target |-> "x86_64"]
Unknown == File(InMain(<<Gimme(Id("x"))>>), <<>>)
Short == ShowFns(InMain(<<Let("a", Num(1)), If2(Gimme(Id("a")))>>).kids, 1)
ShortText == Packed(Short)
Broken == {Garbled(Packed(RemoveAt(Short, i))) : i \in (1..Len(Short) - 1) \ {20, 21}}
          \cup {Garbled(RemoveAt(ShortText, 2)), Garbled(Append(ShortText, "@")),
                Garbled(ShortText \o <<QUOTE, "a">>)}

\* The same statements with a comment behind every token.
Spaced == {SpreadFile(InMain(<<Let("a", Num(7)), s, Gimme(Id("a"))>>), <<>>) :
              s \in Calls \cup {PrintInt(Bin(op, Id("a"), Un("-", Num(2)))) : op \in OPS}}

\* The same for ARM64, one input each.
OnArm == {[p EXCEPT !.target = "arm64"] :
             p \in {q \in Ones \cup Runs(OfStatement, {<<1, 2>>}) : SupportedOnArm(q.tree)}}

MCPrograms == {p \in Ones \cup Twos \cup Spaced \cup OnArm : Supported(p.tree) /\ HasMeaning(p)}
              \cup {Unknown} \cup Broken

(***************************************************************************)
(* What the parser must read, whether the code generated for it is right   *)
(* or not.                                                                 *)
(***************************************************************************)
Leaves == {Node("BREAK"), Node("CONTINUE")}
OfSyntax == {ReadAnd(Un("!", Bin(p, Num(5), Id("a")))) : p \in OPS}
            \cup {ReadAnd(Bin(p, Un("!", Id("a")), Un(u, Un(u, Num(2))))) :
                     p \in OPS, u \in {"-", "~", "!"}}
            \cup {InMain(<<Let("a", Num(0)), Applied("ASSIGN", op, <<Id("a"), Bin(p, Id("a"), Num(2))>>)>>) :
                     op \in ASSIGNMENTS, p \in OPS}
            \cup {InMain(<<Let("a", Num(0)), Let("b", Num(1)), f, Gimme(Id("a"))>>) :
                     f \in {While(<<If3(s, t), Step>>) : s \in Leaves, t \in Leaves \cup Simple}
                           \cup {Branch("FOR", <<Set("a", Num(0)), Less, Step, Do(<<If2(s)>>)>>) :
                                    s \in Leaves \cup (Simple \ {Declaring})}}
\* A function with parameters; the same as docs/syntax.md:39 writes them, and the
\* const of docs/syntax.md:76, which the parser both refuses.
Adder(params) == Named("FUNCTION", "add_two_numbers",
    <<Chonk, Do(params), Do(<<Gimme(Bin("+", Id("a"), Id("b")))>>)>>)
WithParameters == Root(<<Adder(<<Param("a"), Param("b")>>), Fn("main", <<Gimme(Num(0))>>)>>)
NameFirst == LET ts == ShowFns(<<Adder(<<>>)>>, 1)
             IN SubSeq(ts, 1, 3) \o ShowDecl(Param("a")) \o <<T(",")>> \o ShowDecl(Param("b"))
                \o SubSeq(ts, 4, Len(ts))
WithConst == LET ts == ShowFns(InMain(<<Let("a", Num(1)), Gimme(Id("a"))>>).kids, 1)
             IN InsertAt(ts, 8, T("const"))
ToParse == Ones \cup Runs(OfStatement \cup OfSyntax \cup {WithParameters}, {<<>>}) \cup Spaced
           \cup {SpreadFile(r, <<>>) : r \in OfSyntax} \cup Broken
           \cup {Garbled(Packed(NameFirst)), Garbled(Packed(WithConst))}

AllPrograms == MCPrograms \cup ToParse
\* Only what is supported and has a meaning goes on to the code generator.
CompiledOrParsed == stage = "generate" => Supported(program.tree) /\ HasMeaning(program)
=============================================================================
