------------------------------ MODULE Language ------------------------------
(***************************************************************************)
(* What a UwU-C program means, read off its tree: the meaning docs/        *)
(* syntax.md gives its statements, with C's for the operators.  No         *)
(* compiler is involved.  A run either has a meaning here or goes wrong    *)
(* (ok = FALSE): it reads a variable that has no value or is out of its    *)
(* block, divides by zero, shifts or computes beyond the numbers that C    *)
(* and the machine treat alike, or does not end.                           *)
(***************************************************************************)
EXTENDS Integers, Sequences, Bitwise

\* A run in progress.  env: the variables in sight, each with its value or
\* none yet.  idle: the program's functions that do nothing.  flow: how the
\* last statement ended.  fuel: the loop rounds still allowed.
Start(idle, input, fuel) ==
    [env |-> <<>>, idle |-> idle, input |-> input, out |-> <<>>, v |-> 0,
     flow |-> "next", ok |-> TRUE, fuel |-> fuel]
Wrong(s) == [s EXCEPT !.ok = FALSE]
Give(s, v) == [s EXCEPT !.v = v]
Enter(s, name, entry) == [s EXCEPT !.env =
    [x \in DOMAIN s.env \cup {name} |-> IF x = name THEN entry ELSE s.env[x]]]
Bind(s, name) == Enter(s, name, [set |-> TRUE, v |-> s.v])
Unset == [set |-> FALSE, v |-> 0]

Truth(b) == IF b THEN 1 ELSE 0
Abs(n) == IF n < 0 THEN -n ELSE n
\* Division that truncates towards zero, and its remainder.
Quotient(a, b) == IF (a < 0) = (b < 0) THEN Abs(a) \div Abs(b)
                  ELSE -(Abs(a) \div Abs(b))
Remainder(a, b) == a - b * Quotient(a, b)

\* Bit patterns are taken of numbers that fit WIDTH bits.
WIDTH == 16
Pattern(n) == n % 2^WIDTH
Signed(p) == IF p >= 2^(WIDTH - 1) THEN p - 2^WIDTH ELSE p
BitAnd(a, b) == Signed(Pattern(a) & Pattern(b))
BitOr(a, b) == Signed(Pattern(a) | Pattern(b))
BitXor(a, b) == Signed(Pattern(a) ^^ Pattern(b))

OnNumbers(op, a, b) ==
    CASE op = "+" -> a + b  [] op = "-" -> a - b  [] op = "*" -> a * b
      [] op = "/" -> Quotient(a, b)  [] op = "%" -> Remainder(a, b)
      [] op = "==" -> Truth(a = b)   [] op = "!=" -> Truth(a # b)
      [] op = "<" -> Truth(a < b)    [] op = ">" -> Truth(a > b)
      [] op = "<=" -> Truth(a <= b)  [] op = ">=" -> Truth(a >= b)
      [] op = "&" -> BitAnd(a, b)    [] op = "|" -> BitOr(a, b)
      [] op = "^" -> BitXor(a, b)
      [] op = "<<" -> a * 2^b        [] op = ">>" -> a \div 2^b
\* Where both C and the machine have the result above.
Defined(op, a, b) ==
    /\ op \in {"/", "%"} => b # 0
    /\ op \in {"<<", ">>"} => a >= 0 /\ b \in 0..7
    /\ {Abs(a), Abs(b)} \subseteq 0..2^(WIDTH - 2)

RECURSIVE Eval(_, _), EvalArgs(_, _, _, _), Exec(_, _), ExecFrom(_, _, _),
          Loop(_, _, _, _)

\* && and || look at their right side only if the left leaves it open.
Settles(op, v) == (op = "&&" /\ v = 0) \/ (op = "||" /\ v # 0)
Logic(a, e) ==
    IF Settles(e.op, a.v) THEN Give(a, Truth(a.v # 0))
    ELSE LET b == Eval(a, e.kids[2]) IN Give(b, Truth(b.v # 0))
Binary(s, e) ==
    LET a == Eval(s, e.kids[1])
        b == Eval(a, e.kids[2])
    IN CASE ~a.ok -> a
         [] e.op \in {"&&", "||"} -> Logic(a, e)
         [] b.ok /\ Defined(e.op, a.v, b.v) -> Give(b, OnNumbers(e.op, a.v, b.v))
         [] OTHER -> Wrong(s)
OfOne(s, e) ==
    LET a == Eval(s, e.kids[1])
    IN CASE ~a.ok -> a
         [] e.op = "-" -> Give(a, -a.v)
         [] e.op = "~" -> Give(a, -a.v - 1)
         [] e.op = "!" -> Give(a, Truth(a.v = 0))
         [] OTHER -> Wrong(a)

\* read_int takes the next number of the input, and is 0 at its end; the
\* functions that print append what they are given to the output; one of
\* the program's own that has an empty body returns 0.
CallOf(s, f, args) ==
    CASE f = "read_int" ->
             IF s.input = <<>> THEN Give(s, 0)
             ELSE [Give(s, Head(s.input)) EXCEPT !.input = Tail(@)]
      [] f \in s.idle -> Give(s, 0)
      [] OTHER -> [s EXCEPT !.out = @ \o args]
EvalArgs(s, e, i, args) ==
    IF i > Len(e.kids) THEN CallOf(s, e.kids[1].name, args)
    ELSE LET a == Eval(s, e.kids[i])
         IN IF a.ok THEN EvalArgs(a, e, i + 1, Append(args, a.v)) ELSE a

Eval(s, e) ==
    CASE e.kind \in {"NUMBER", "STRING"} -> Give(s, e.value)
      [] e.kind = "IDENT"  -> IF e.name \in DOMAIN s.env
                              THEN [Give(s, s.env[e.name].v) EXCEPT
                                       !.ok = s.env[e.name].set]
                              ELSE Wrong(s)
      [] e.kind = "BINARY" -> Binary(s, e)
      [] e.kind = "UNARY"  -> OfOne(s, e)
      [] e.kind = "CALL"   -> EvalArgs(s, e, 2, <<>>)
      [] OTHER             -> Wrong(s)

Assign(s, n) == LET name == n.kids[1].name
                IN IF n.op = "=" /\ name \in DOMAIN s.env
                   THEN Bind(Eval(s, n.kids[2]), name) ELSE Wrong(s)

\* A loop's condition, body and increment; continyue goes to the increment,
\* bweak behind the loop.
Loop(s, cond, body, inc) ==
    LET c == Eval(s, cond)
        b == Exec(c, body)
        on == [b EXCEPT !.flow = "next"]
        next == IF inc.kind = "NONE" THEN on ELSE Exec(on, inc)
    IN CASE ~c.ok \/ s.fuel = 0 -> Wrong(s)
         [] c.v = 0 -> c
         [] ~b.ok \/ b.flow = "return" -> b
         [] b.flow = "break" -> on
         [] ~next.ok -> next
         [] OTHER -> Loop([next EXCEPT !.fuel = @ - 1], cond, body, inc)

\* Statements run in order until one of them leaves the block, and what
\* they have declared ends with it.
ExecFrom(s, n, i) ==
    IF i > Len(n.kids) \/ ~s.ok \/ s.flow # "next" THEN s
    ELSE ExecFrom(Exec(s, n.kids[i]), n, i + 1)
Scoped(s, after) == [after EXCEPT !.env =
                        [x \in DOMAIN s.env |-> after.env[x]]]

NoStatement == [kind |-> "NONE"]
Exec(s, n) ==
    LET e == Eval(s, n.kids[1]) IN
    CASE n.kind = "RETURN" ->
             [IF n.kids = <<>> THEN s ELSE e EXCEPT !.flow = "return"]
      [] n.kind = "VAR_DECL" ->
             IF Len(n.kids) = 2 THEN Bind(Eval(s, n.kids[2]), n.name)
             ELSE Enter(s, n.name, Unset)
      [] n.kind = "ASSIGN" -> Assign(s, n)
      [] n.kind = "IF" ->
             CASE ~e.ok -> e
               [] e.v # 0 -> Exec(e, n.kids[2])
               [] Len(n.kids) = 3 -> Exec(e, n.kids[3])
               [] OTHER -> e
      [] n.kind = "WHILE" -> Loop(s, n.kids[1], n.kids[2], NoStatement)
      [] n.kind = "FOR" -> Loop(Exec(s, n.kids[1]), n.kids[2], n.kids[4],
                                n.kids[3])
      [] n.kind = "BLOCK" -> Scoped(s, ExecFrom(s, n, 1))
      [] n.kind = "BREAK" -> [s EXCEPT !.flow = "break"]
      [] n.kind = "CONTINUE" -> [s EXCEPT !.flow = "continue"]
      [] OTHER -> Eval(s, n)

\* The run of a program: its main, on an input.  Without a gimme it is 0.
Functions(root) == {root.kids[i] : i \in DOMAIN root.kids}
Main(root) == CHOOSE f \in Functions(root) : f.name = "main"
Idle(root) == {f.name : f \in {g \in Functions(root) : g.kids[3].kids = <<>>}}
Meaning(root, input, fuel) ==
    LET end == Exec(Start(Idle(root), input, fuel), Main(root).kids[3])
    IN IF end.flow = "return" THEN end ELSE Give(end, 0)
=============================================================================
