--------------------------------- MODULE IR ---------------------------------
(***************************************************************************)
(* The three-address code of the UwU-C compiler and its generator (ir.c).  *)
(* An operand is a temporary t0, t1, ..., a variable v0, v1, ... at a      *)
(* stack offset, a number, a string's label or a jump label.               *)
(* A definition in front of another one whose name starts alike            *)
(* (new_tempReused, new_temp) is a mutation of it that the runs must       *)
(* refute.                                                                 *)
(***************************************************************************)
EXTENDS Semantic

Operand(kind, n) == [k |-> kind, n |-> n]
Temp(n) == Operand("t", n)
Var(n) == Operand("v", n)
Imm(n) == Operand("imm", n)
Label(n) == Operand("L", n)
Str(n) == Operand("str", n)
None == Operand("none", 0)

Inst(op, operands) == [op |-> op, f |-> "", args |-> operands]
OnFunction(op, f, operands) == [op |-> op, f |-> f, args |-> operands]

\* code: the list built so far.  temp, label, string: the counters.  res:
\* the operand gen_expr_ir has returned.  frame: frame_size in words.
Empty == [code |-> <<>>, temp |-> 0, label |-> 0, string |-> 0, res |-> None,
          frame |-> 0]
Put(s, inst) == [s EXCEPT !.code = Append(@, inst)]
new_tempReused(s) == [s EXCEPT !.res = Temp(s.temp)]
new_temp(s) == [s EXCEPT !.res = Temp(s.temp), !.temp = @ + 1]
new_labels(s, n) == [s EXCEPT !.label = @ + n]

OPCODES == [op \in UNION {LEVELS[k] : k \in DOMAIN LEVELS} |->
    CASE op = "+" -> "add"  [] op = "-" -> "sub"  [] op = "*" -> "mul"
      [] op = "/" -> "div"  [] op = "%" -> "mod"  [] op = "==" -> "eq"
      [] op = "!=" -> "ne"  [] op = "<" -> "lt"   [] op = ">" -> "gt"
      [] op = "<=" -> "le"  [] op = ">=" -> "ge"  [] op = "&&" -> "and"
      [] op = "||" -> "or"  [] op = "&" -> "and"  [] op = "|" -> "or"
      [] op = "^" -> "xor"  [] op = "<<" -> "shl" [] op = ">>" -> "shr"]
UNARY_OPCODES == [op \in PREFIXES |->
    CASE op = "-" -> "neg" [] op \in {"!", "~"} -> "not" [] OTHER -> "mov"]

\* An instruction that puts its value into a temporary of its own.
Compute(s, op, operands) ==
    LET t == new_temp(s) IN Put(t, Inst(op, <<t.res>> \o operands))

RECURSIVE gen_expr_ir(_, _), gen_args(_, _, _, _), gen_stmt_ir(_, _),
          gen_stmts(_, _, _)

\* The operands of a call from child i on; those already known are in ops.
\* ir_inst_add_operand drops what does not fit into operands[16].
MAX_OPERANDS == 16
gen_args(s, n, i, ops) ==
    IF i > Len(n.kids)
    THEN Put(s, OnFunction("call", n.kids[1].name,
                   SubSeq(ops, 1, IF Len(ops) < MAX_OPERANDS THEN Len(ops)
                                  ELSE MAX_OPERANDS - 1)))
    ELSE LET a == gen_expr_ir(s, n.kids[i])
         IN gen_args(a, n, i + 1, Append(ops, a.res))

gen_binary(s, n) == LET l == gen_expr_ir(s, n.kids[1])
                        r == gen_expr_ir(l, n.kids[2])
                    IN Compute(r, OPCODES[n.op], <<l.res, r.res>>)
gen_unary(s, n) == LET e == gen_expr_ir(s, n.kids[1])
                   IN Compute(e, UNARY_OPCODES[n.op], <<e.res>>)
gen_string(s, n) ==
    LET put == Put(s, Inst("string", <<Str(s.string), Imm(n.value)>>))
    IN Compute([put EXCEPT !.string = @ + 1], "mov", <<Str(s.string)>>)
\* The temporary for the result is taken before those of the arguments.
gen_call(s, n) == LET t == new_temp(s)
                      c == gen_args(t, n, 2, <<>>)
                  IN [Put(c, Inst("getret", <<t.res>>)) EXCEPT !.res = t.res]

gen_expr_ir(s, n) ==
    CASE n.kind = "NUMBER" -> Compute(s, "mov", <<Imm(n.value)>>)
      [] n.kind = "STRING" -> gen_string(s, n)
      [] n.kind = "IDENT"  -> Compute(s, "mov", <<Var(n.offset)>>)
      [] n.kind = "BINARY" -> gen_binary(s, n)
      [] n.kind = "UNARY"  -> gen_unary(s, n)
      [] n.kind = "CALL"   -> gen_call(s, n)
      [] OTHER             -> new_temp(s)

gen_stmts(s, n, i) == IF i > Len(n.kids) THEN s
    ELSE gen_stmts(gen_stmt_ir(s, n.kids[i]), n, i + 1)

gen_store(s, value, offset) == LET e == gen_expr_ir(s, value)
                               IN Put(e, Inst("mov", <<Var(offset), e.res>>))

gen_return(s, n) == IF n.kids = <<>> THEN Put(s, Inst("ret", <<>>))
    ELSE LET e == gen_expr_ir(s, n.kids[1])
         IN Put(e, Inst("ret", <<e.res>>))

gen_branch(s, cond, label) == LET e == gen_expr_ir(s, cond)
                              IN Put(e, Inst("brz", <<e.res, label>>))
gen_label(s, label) == Put(s, Inst("label", <<label>>))
gen_jump(s, label) == Put(s, Inst("jmp", <<label>>))

\* The labels of a statement are numbered where the code draws them.
gen_if(s, n) ==
    LET cond == gen_expr_ir(s, n.kids[1])
        else == Label(cond.label)
        br == Put(new_labels(cond, 1), Inst("brz", <<cond.res, else>>))
        then == gen_stmt_ir(br, n.kids[2])
        end == Label(then.label)
        over == gen_label(gen_jump(new_labels(then, 1), end), else)
    IN IF Len(n.kids) > 2
       THEN gen_label(gen_stmt_ir(over, n.kids[3]), end)
       ELSE gen_label(then, else)

gen_while(s, n) ==
    LET start == Label(s.label)
        end == Label(s.label + 1)
        head == gen_branch(gen_label(new_labels(s, 2), start), n.kids[1], end)
        body == gen_stmt_ir(head, n.kids[2])
    IN gen_label(gen_jump(body, start), end)

\* The clauses are read by position, whatever the parser has left out.
gen_for(s, n) ==
    LET count == Len(n.kids)
        init == IF count >= 1 THEN gen_stmt_ir(s, n.kids[1]) ELSE s
        start == Label(init.label)
        end == Label(init.label + 1)
        continue == Label(init.label + 2)
        top == gen_label(new_labels(init, 3), start)
        head == IF count >= 2 THEN gen_branch(top, n.kids[2], end) ELSE top
        body == IF count >= 4 THEN gen_stmt_ir(head, n.kids[4]) ELSE head
        next == gen_label(body, continue)
        inc == IF count >= 3 THEN gen_expr_ir(next, n.kids[3]) ELSE next
    IN gen_label(gen_jump(inc, start), end)

gen_stmt_ir(s, n) ==
    CASE n.kind = "RETURN"   -> gen_return(s, n)
      [] n.kind = "VAR_DECL" -> IF Len(n.kids) > 1
                                THEN gen_store(s, n.kids[2], n.offset) ELSE s
      [] n.kind = "ASSIGN"   -> gen_store(s, n.kids[2], n.kids[1].offset)
      [] n.kind = "IF"       -> gen_if(s, n)
      [] n.kind = "WHILE"    -> gen_while(s, n)
      [] n.kind = "FOR"      -> gen_for(s, n)
      [] n.kind = "BLOCK"    -> gen_stmts(s, n, 1)
      [] n.kind \in {"BINARY", "UNARY", "CALL"} -> gen_expr_ir(s, n)
      [] OTHER               -> s    \* bweak and continyue among them

\* Two words make 16 bytes.
AlignWords(n) == n + (n % 2)
frame_size(variables, temps) == AlignWords(variables + temps)
gen_function_ir(s, fn) ==
    LET body == gen_stmt_ir(Put([s EXCEPT !.temp = 0],
                                OnFunction("func", fn.name, <<>>)),
                            fn.kids[3])
    IN [Put(body, Inst("endfunc", <<>>))
            EXCEPT !.frame = frame_size(fn.offset, body.temp)]

RECURSIVE GenerateFrom(_, _, _)
GenerateFrom(s, root, i) ==
    CASE i > Len(root.kids) -> s
      [] root.kids[i].kind = "FUNCTION" ->
             GenerateFrom(gen_function_ir(s, root.kids[i]), root, i + 1)
      [] OTHER -> GenerateFrom(s, root, i + 1)
ir_generate(root) == GenerateFrom(Empty, root, 1)
=============================================================================
