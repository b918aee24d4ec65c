------------------------------- MODULE Parser -------------------------------
(***************************************************************************)
(* The recursive-descent parser of the UwU-C compiler (parser_new.c).      *)
(* A source file is the sequence of tokens the lexer hands over, its last  *)
(* one "EOF".  Every parse_* function becomes an operator from the place   *)
(* it starts at to the node it builds and the place it stops at.  The      *)
(* first error_at prints a message and ends the process (util.c), so the   *)
(* NULL nodes, error_count and panic_mode of the code are never seen; a    *)
(* process that has ended is Exited.                                       *)
(***************************************************************************)
EXTENDS Naturals, Sequences

Node(kind) == [kind |-> kind, name |-> "", value |-> 0, op |-> "",
               offset |-> 0, kids |-> <<>>]
Branch(kind, kids) == [Node(kind) EXCEPT !.kids = kids]
Named(kind, name, kids) == [Branch(kind, kids) EXCEPT !.name = name]
Applied(kind, op, kids) == [Branch(kind, kids) EXCEPT !.op = op]

Exited == [at |-> 0, node |-> Node("NONE")]
Parsed(at, node) == [at |-> at, node |-> node]

TYPES == {"chonk", "smol", "megachonk", "floof", "bigfloof", "boop", "byte",
          "void"}
ASSIGNMENTS == {"=", "+=", "-=", "*=", "/="}
PREFIXES == {"!", "-", "~", "&", "*"}
\* The chain parse_logical_or ... parse_multiplicative, the loosest first.
LEVELS == <<{"||"}, {"&&"}, {"|"}, {"^"}, {"&"}, {"==", "!="},
            {"<", ">", "<=", ">="}, {"<<", ">>"}, {"+", "-"},
            {"*", "/", "%"}>>
MAX_CALL == 256

Check(ts, r, kind) == r.at # 0 /\ ts[r.at].kind = kind
CheckIn(ts, r, kinds) == r.at # 0 /\ ts[r.at].kind \in kinds
advance(r) == [r EXCEPT !.at = @ + 1]
Consume(ts, r, kind) == IF Check(ts, r, kind) THEN advance(r) ELSE Exited
ConsumeAt(ts, at, kind) == Consume(ts, Parsed(at, Node("NONE")), kind)
\* The node of r becomes the last child of the node of the parse before it.
Adopt(parent, r) == IF r.at = 0 THEN Exited
    ELSE Parsed(r.at, [parent EXCEPT !.kids = Append(@, r.node)])
IsDeclaration(ts, at) == ts[at].kind = "IDENT" /\ ts[at + 1].kind = ":"

RECURSIVE Expression(_, _), Level(_, _, _), LevelRest(_, _, _), Unary(_, _),
          PostfixRest(_, _), Arguments(_, _), Stars(_, _), Statement(_, _),
          BlockRest(_, _), Parameters(_, _), ProgramRest(_, _)

\* The expression, and the statement, behind r as the last child of its node.
ParseOperand(ts, r) == IF r.at = 0 THEN Exited
                       ELSE Adopt(r.node, Expression(ts, r.at))
ParseBody(ts, r) == IF r.at = 0 THEN Exited
                    ELSE Adopt(r.node, Statement(ts, r.at))

(***************************************************************************)
(* Types and declarations.                                                 *)
(***************************************************************************)
Stars(ts, r) == IF Check(ts, r, "*")
    THEN Stars(ts, Parsed(r.at + 1, Branch("POINTER_TYPE", <<r.node>>)))
    ELSE r
Type(ts, at) == IF at # 0 /\ ts[at].kind \in TYPES
    THEN Stars(ts, Parsed(at + 1, Named("TYPE", ts[at].kind, <<>>)))
    ELSE Exited

Initializer(ts, r) ==
    IF Check(ts, r, "=") THEN ParseOperand(ts, advance(r)) ELSE r
VarDecl(ts, at) ==
    LET colon == Consume(ts, ConsumeAt(ts, at, "IDENT"), ":")
    IN Initializer(ts, Adopt(Named("VAR_DECL", ts[at].lexeme, <<>>),
                             Type(ts, colon.at)))

Parameter(ts, at) ==
    LET type == Type(ts, at)
        name == Consume(ts, type, "IDENT")
    IN IF name.at = 0 THEN Exited
       ELSE Parsed(name.at,
                   Named("VAR_DECL", ts[type.at].lexeme, <<type.node>>))

(***************************************************************************)
(* Expressions.                                                            *)
(***************************************************************************)
Primary(ts, at) ==
    LET t == ts[at]
        leaf(node) == Parsed(at + 1, node)
        number(n) == leaf([Node("NUMBER") EXCEPT !.value = n])
    IN CASE t.kind = "NUMBER" -> number(t.value)
         [] t.kind = "true"   -> number(1)
         [] t.kind = "false"  -> number(0)
         [] t.kind = "STRING" ->
                leaf([Node("STRING") EXCEPT !.value = t.value])
         [] t.kind = "nuww"   -> leaf(Node("NULL"))
         [] t.kind = "IDENT"  -> leaf(Named("IDENT", t.lexeme, <<>>))
         [] t.kind = "("      -> Consume(ts, Expression(ts, at + 1), ")")
         [] OTHER             -> Exited

\* r.node is the call, its arguments so far among its children.
ArgumentsRest(ts, r) ==
    IF Check(ts, r, ",") THEN Arguments(ts, advance(r)) ELSE r
Arguments(ts, r) == IF Len(r.node.kids) >= MAX_CALL THEN Exited
                    ELSE ArgumentsRest(ts, ParseOperand(ts, r))
ArgumentList(ts, r) == IF Check(ts, r, ")") THEN r ELSE Arguments(ts, r)

Member(ts, r) ==
    [Consume(ts, r, "IDENT") EXCEPT !.node = Branch("MEMBER",
         <<r.node, Named("IDENT", ts[r.at].lexeme, <<>>)>>)]

PostfixRest(ts, r) ==
    LET behind(kind) == Parsed(r.at + 1, Branch(kind, <<r.node>>))
        call == Consume(ts, ArgumentList(ts, behind("CALL")), ")")
        index == Consume(ts, ParseOperand(ts, behind("INDEX")), "]")
    IN CASE Check(ts, r, "(") -> PostfixRest(ts, call)
         [] Check(ts, r, "[") -> PostfixRest(ts, index)
         [] Check(ts, r, ".") -> PostfixRest(ts, Member(ts, advance(r)))
         [] OTHER             -> r
Postfix(ts, at) == PostfixRest(ts, Primary(ts, at))

SizeOf(ts, at) ==
    LET open == ConsumeAt(ts, at, "(")
        operand == IF CheckIn(ts, open, TYPES) THEN Type(ts, open.at)
                   ELSE Expression(ts, open.at)
    IN IF open.at = 0 THEN Exited
       ELSE Consume(ts, Adopt(Node("SIZEOF"), operand), ")")

Unary(ts, at) ==
    CASE ts[at].kind \in PREFIXES ->
             Adopt(Applied("UNARY", ts[at].kind, <<>>), Unary(ts, at + 1))
      [] ts[at].kind = "sizeof" -> SizeOf(ts, at + 1)
      [] OTHER -> Postfix(ts, at)

\* Each level loops over its own operators, so that they associate to the
\* left, and takes its operands from the next tighter level.
LevelRest(ts, r, k) == IF CheckIn(ts, r, LEVELS[k])
    THEN LevelRest(ts, Adopt(Applied("BINARY", ts[r.at].kind, <<r.node>>),
                             Level(ts, r.at + 1, k + 1)), k)
    ELSE r
Level(ts, at, k) == IF k > Len(LEVELS) THEN Unary(ts, at)
                    ELSE LevelRest(ts, Level(ts, at, k + 1), k)

Assignment(ts, left) == IF CheckIn(ts, left, ASSIGNMENTS)
    THEN Adopt(Applied("ASSIGN", ts[left.at].kind, <<left.node>>),
               Expression(ts, left.at + 1))
    ELSE left
Expression(ts, at) == Assignment(ts, Level(ts, at, 1))

(***************************************************************************)
(* Statements.                                                             *)
(***************************************************************************)
BlockRest(ts, r) ==
    CASE r.at = 0 -> Exited
      [] ts[r.at].kind = "}" -> Parsed(r.at + 1, r.node)
      [] ts[r.at].kind = "EOF" -> Exited
      [] OTHER -> BlockRest(ts, Adopt(r.node, Statement(ts, r.at)))
Block(ts, at) == BlockRest(ts, Parsed(at, Node("BLOCK")))

\* "(" condition ")" and the statement behind it, of pwease and of wepeat.
Guarded(ts, at, kind) ==
    LET open == [ConsumeAt(ts, at, "(") EXCEPT !.node = Node(kind)]
    IN ParseBody(ts, Consume(ts, ParseOperand(ts, open), ")"))

Otherwise(ts, r) ==
    IF Check(ts, r, "nowu") THEN ParseBody(ts, advance(r)) ELSE r
If(ts, at) == Otherwise(ts, Guarded(ts, at, "IF"))

\* An omitted clause leaves no child behind: those after it move up.
Clause(ts, r, end) == IF Check(ts, r, end) THEN advance(r)
                      ELSE Consume(ts, ParseOperand(ts, r), end)
\* Only the first one may be a declaration.
FirstClause(ts, r) == IF r.at # 0 /\ IsDeclaration(ts, r.at)
    THEN Consume(ts, Adopt(r.node, VarDecl(ts, r.at)), ";")
    ELSE Clause(ts, r, ";")
For(ts, at) ==
    LET open == [ConsumeAt(ts, at, "(") EXCEPT !.node = Node("FOR")]
        init == FirstClause(ts, open)
    IN ParseBody(ts, Clause(ts, Clause(ts, init, ";"), ")"))

Return(ts, at) == Clause(ts, Parsed(at, Node("RETURN")), ";")

Statement(ts, at) ==
    CASE ts[at].kind = "pwease" -> If(ts, at + 1)
      [] ts[at].kind = "wepeat" -> Guarded(ts, at + 1, "WHILE")
      [] ts[at].kind = "fow"    -> For(ts, at + 1)
      [] ts[at].kind = "gimme"  -> Return(ts, at + 1)
      [] ts[at].kind = "bweak"  ->
             Consume(ts, Parsed(at + 1, Node("BREAK")), ";")
      [] ts[at].kind = "continyue" ->
             Consume(ts, Parsed(at + 1, Node("CONTINUE")), ";")
      [] ts[at].kind = "{"      -> Block(ts, at + 1)
      [] IsDeclaration(ts, at)  -> Consume(ts, VarDecl(ts, at), ";")
      [] OTHER                  -> Consume(ts, Expression(ts, at), ";")

(***************************************************************************)
(* Functions and the program.                                              *)
(***************************************************************************)
Parameters(ts, r) ==
    LET more == Adopt(r.node, Parameter(ts, r.at))
    IN IF Len(r.node.kids) >= MAX_CALL - 1 THEN Exited
       ELSE IF Check(ts, more, ",")
            THEN Parameters(ts, [more EXCEPT !.at = @ + 1]) ELSE more

Function(ts, at) ==
    LET open == [Consume(ts, ConsumeAt(ts, at, "IDENT"), "(")
                     EXCEPT !.node = Node("BLOCK")]
        params == Consume(ts, IF open.at = 0 \/ Check(ts, open, ")")
                              THEN open ELSE Parameters(ts, open), ")")
        result == IF Check(ts, params, "->") THEN Type(ts, params.at + 1)
                  ELSE [params EXCEPT !.node = Named("TYPE", "void", <<>>)]
        brace == Consume(ts, result, "{")
    IN IF brace.at = 0 THEN Exited
       ELSE Adopt(Named("FUNCTION", ts[at].lexeme,
                        <<result.node, params.node>>), Block(ts, brace.at))

Declaration(ts, at) ==
    CASE ts[at].kind = "nuzzle" -> Function(ts, at + 1)
      [] IsDeclaration(ts, at)  -> Consume(ts, VarDecl(ts, at), ";")
      [] OTHER                  -> Exited

ProgramRest(ts, r) ==
    CASE r.at = 0 -> Exited
      [] ts[r.at].kind = "EOF" -> r
      [] OTHER -> ProgramRest(ts, Adopt(r.node, Declaration(ts, r.at)))
parse(ts) == ProgramRest(ts, Parsed(1, Node("PROGRAM")))
=============================================================================
