------------------------------ MODULE Semantic ------------------------------
(***************************************************************************)
(* Name resolution in the UwU-C compiler (semantic.c): every variable gets *)
(* a stack offset and every identifier the offset of the symbol it is      *)
(* found to mean.  A symbol table and the tables around it are one         *)
(* sequence, oldest symbol first, that lookups search from its end.        *)
(* Types only ever annotate nodes that nothing reads; they are left out.   *)
(***************************************************************************)
EXTENDS Parser, FiniteSets

\* table: the symbols in sight.  next: current_stack_offset.  ok: FALSE when
\* error_at has ended the compiler.  node: the tree being annotated.
Scope == [table |-> <<>>, next |-> 0, ok |-> TRUE, node |-> Node("NONE")]

Declared(table) == {table[i].name : i \in DOMAIN table}
symtab_lookup(table, name) ==
    table[CHOOSE i \in DOMAIN table :
              /\ table[i].name = name
              /\ \A j \in DOMAIN table : table[j].name = name => j <= i]
symtab_add(s, name, is_function) ==
    [s EXCEPT !.table = Append(@, [name |-> name,
                  offset |-> IF is_function THEN 0 ELSE s.next]),
              !.next = IF is_function THEN @ ELSE @ + 1]

\* The children of an expression that check_expression visits: not the
\* callee of a call, and nothing below a node it only gives a type.
VISITED == {"BINARY", "UNARY", "ASSIGN", "CALL"}
Visits(e, i) == e.kind \in VISITED /\ (e.kind = "CALL" => i > 1)

RECURSIVE Uses(_), check_expression(_, _), check_statement(_, _),
          UsesOfStatement(_), check_block_for_declarations(_), Declare(_, _)

Uses(e) == IF e.kind = "IDENT" THEN {e.name}
           ELSE UNION {Uses(e.kids[i]) : i \in {j \in DOMAIN e.kids :
                                                Visits(e, j)}}
check_expression(table, e) ==
    IF e.kind = "IDENT"
    THEN [e EXCEPT !.offset = symtab_lookup(table, e.name).offset]
    ELSE [e EXCEPT !.kids = [i \in DOMAIN @ |->
             IF Visits(e, i) THEN check_expression(table, @[i]) ELSE @[i]]]

\* The children of a statement that are expressions, and the type in front
\* of a declaration that the check passes over.
IsExpression(n, i) ==
    CASE n.kind = "RETURN" -> TRUE
      [] n.kind \in {"IF", "WHILE"} -> i = 1
      [] n.kind = "FOR" -> i \in {2, 3}
      [] n.kind = "VAR_DECL" -> i = 2
      [] OTHER -> FALSE
STATEMENTS == {"RETURN", "IF", "WHILE", "FOR", "BLOCK", "VAR_DECL"}
UsesOfStatement(n) ==
    IF n.kind \notin STATEMENTS THEN Uses(n)
    ELSE UNION {IF IsExpression(n, i) THEN Uses(n.kids[i])
                ELSE UsesOfStatement(n.kids[i]) : i \in DOMAIN n.kids}
check_statement(table, n) ==
    IF n.kind \notin STATEMENTS THEN check_expression(table, n)
    ELSE [n EXCEPT !.kids = [i \in DOMAIN @ |->
             IF IsExpression(n, i) THEN check_expression(table, @[i])
             ELSE check_statement(table, @[i])]]

\* A declaration enters the scope, then its initialiser is checked.
Declare(s, n) ==
    LET added == symtab_add(s, n.name, FALSE)
        offset == symtab_lookup(added.table, n.name).offset
    IN [added EXCEPT
           !.node = [n EXCEPT !.offset = offset],
           !.ok = /\ @
                  /\ Len(n.kids) > 1 =>
                         Uses(n.kids[2]) \subseteq Declared(added.table)]

\* Which children the search for declarations enters: the statements of a
\* block, both arms of an if, and of both loops only the second child.
Searches(n, i) == CASE n.kind = "BLOCK" -> TRUE
                    [] n.kind = "IF" -> i \in {2, 3}
                    [] n.kind \in {"WHILE", "FOR"} -> i = 2
                    [] OTHER -> FALSE
RECURSIVE SearchFrom(_, _)
SearchFrom(s, i) ==
    LET kid == s.node.kids[i]
        sub == IF kid.kind = "VAR_DECL" /\ s.node.kind = "BLOCK"
               THEN Declare(s, kid)
               ELSE check_block_for_declarations([s EXCEPT !.node = kid])
    IN CASE i > Len(s.node.kids) -> s
         [] ~Searches(s.node, i) -> SearchFrom(s, i + 1)
         [] OTHER -> SearchFrom([sub EXCEPT
                                    !.node = [s.node EXCEPT !.kids[i] = sub.node]],
                                i + 1)
check_block_for_declarations(s) == SearchFrom(s, 1)

RECURSIVE AddParameters(_, _)
AddParameters(s, i) ==
    IF i > Len(s.node.kids) THEN s
    ELSE AddParameters([symtab_add(s, s.node.kids[i].name, FALSE)
                            EXCEPT !.node.kids[i].offset = s.next], i + 1)

\* One function: its own scope inside s, offsets counted from zero.
check_function(s, fn) ==
    LET own == symtab_add([s EXCEPT !.next = 0], fn.name, TRUE)
        params == AddParameters([own EXCEPT !.node = fn.kids[2]], 1)
        found == check_block_for_declarations(
                     [params EXCEPT !.node = fn.kids[3]])
        ok == /\ found.ok
              /\ UsesOfStatement(found.node) \subseteq Declared(found.table)
    IN [s EXCEPT !.ok = ok, !.next = found.next,
                 !.node = [fn EXCEPT
                    !.offset = found.next,
                    !.kids = <<fn.kids[1], params.node,
                               IF ok THEN check_statement(found.table, found.node)
                               ELSE found.node>>]]

RECURSIVE CheckFrom(_, _, _)
CheckFrom(s, root, i) ==
    LET d == root.kids[i]
        sub == IF d.kind = "FUNCTION" THEN check_function(s, d)
               ELSE LET g == Declare(s, d)
                    IN IF g.ok /\ Len(d.kids) > 1
                       THEN [g EXCEPT !.node.kids[2] =
                                check_expression(g.table, @)]
                       ELSE g
    IN IF i > Len(root.kids) \/ ~s.ok THEN [s EXCEPT !.node = root]
       ELSE CheckFrom(sub, [root EXCEPT !.kids[i] = sub.node], i + 1)
semantic_analyze(root) == CheckFrom(Scope, root, 1)
=============================================================================
