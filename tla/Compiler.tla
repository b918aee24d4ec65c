------------------------------ MODULE Compiler ------------------------------
(***************************************************************************)
(* The UwU-C compiler from text to process: main.c runs lexer, parser, name *)
(* resolution, IR generator and code generator one after the other, and    *)
(* the machine then executes what they emitted, one instruction a step,    *)
(* with the library (uwu_stdlib.c) behind its calls.                       *)
(* The stack is addressed in words of eight bytes, 0 being where the C     *)
(* runtime left the stack pointer (and, on x86-64, main's return address). *)
(***************************************************************************)
EXTENDS Lexer, Codegen, Language

CONSTANTS Programs,   \* the source files, each with the tree it writes
                      \* down, the input its process will read, and the
                      \* machine the compiler was built for
          Fuel        \* how many loop rounds a run may take

ASSUME ProgramsAssumption ==
    \A p \in Programs : /\ DOMAIN p = {"source", "tree", "input", "target"}
                        /\ p.target \in {"x86_64", "arm64"}

VARIABLES program,    \* the one that is compiled
          stage,      \* what main.c does next
          tree,       \* the tree between parser and IR generator
          ir,         \* between IR and code generator
          asm,        \* the program that has been emitted
          m,          \* the machine that runs it
          input, out  \* what is still to be read; what has been printed

vars == <<program, stage, tree, ir, asm, m, input, out>>

\* saved: what an ABI-conforming function leaves in place.  base: where
\* slots are counted from.  odd: the parity of the stack pointer, in words,
\* at a call.
X86_64 == [regs |-> {"rax", "rbx", "rcx", "rdx", "rsi", "rdi", "r8", "r9", "r12", "rbp", "rsp"},
           saved |-> {"rbx", "r12", "rbp", "rsp"}, args |-> ARG_REGS,
           result |-> "rax", base |-> "rbp", sp |-> "rsp", odd |-> 1]
ARM64 == [regs |-> Range(ARM_ARG_REGS) \cup {"x29", "x30", "sp"},
          saved |-> {"x29", "sp"}, args |-> ARM_ARG_REGS,
          result |-> "x0", base |-> "sp", sp |-> "sp", odd |-> 0]
Cpu == IF program.target = "arm64" THEN ARM64 ELSE X86_64
GARBAGE == 7777       \* in a register or a word nobody has written
RODATA == 5000        \* where the string table lies
TO_RUNTIME == 9000    \* the return address of main

NoTree == Node("NONE")
NoAsm == [text |-> <<>>, rodata |-> <<>>]
Off == [pc |-> 0,
        regs |-> [r \in Cpu.regs |-> IF r = Cpu.sp THEN 0
                                     ELSE IF r = "x30" THEN TO_RUNTIME ELSE GARBAGE],
        mem |-> [a \in {0} |-> IF Cpu = X86_64 THEN TO_RUNTIME ELSE GARBAGE]]

(***************************************************************************)
(* The compiler.                                                           *)
(***************************************************************************)
Init == /\ program \in Programs
        /\ stage = "parse"
        /\ tree = NoTree
        /\ ir = Empty
        /\ asm = NoAsm
        /\ m = Off
        /\ input = program.input
        /\ out = <<>>

Parse == /\ stage = "parse"
         /\ LET r == parse(Tokens(program.source))
            IN IF r.at = 0 THEN stage' = "rejected" /\ UNCHANGED tree
               ELSE stage' = "analyze" /\ tree' = r.node
         /\ UNCHANGED <<program, ir, asm, m, input, out>>

Analyze == /\ stage = "analyze"
           /\ LET s == semantic_analyze(tree)
              IN IF s.ok THEN stage' = "generate" /\ tree' = s.node
                 ELSE stage' = "rejected" /\ UNCHANGED tree
           /\ UNCHANGED <<program, ir, asm, m, input, out>>

Generate == /\ stage = "generate"
            /\ stage' = "emit"
            /\ ir' = ir_generate(tree)
            /\ tree' = NoTree
            /\ UNCHANGED <<program, asm, m, input, out>>

\* The assembly is written, linked with the library and started at main.
EntryOf(text, f) == CHOOSE i \in DOMAIN text : text[i].op = "func" /\ text[i].f = f
EmitAsm == /\ stage = "emit"
           /\ stage' = "run"
           /\ asm' = codegen_emit_asm(ir, program.target)
           /\ ir' = Empty
           /\ m' = [Off EXCEPT !.pc = EntryOf(asm'.text, "main")]
           /\ UNCHANGED <<program, tree, input, out>>

(***************************************************************************)
(* The machine.                                                            *)
(***************************************************************************)
Current == asm.text[m.pc]
Reg(r) == m.regs[r]
Word(a) == IF a \in DOMAIN m.mem THEN m.mem[a] ELSE GARBAGE
Stored(a, v) == [x \in DOMAIN m.mem \cup {a} |-> IF x = a THEN v ELSE m.mem[x]]
Slot(i) == Reg(Cpu.base) + i.n
\* The target of a jump.
At(label) == CHOOSE i \in DOMAIN asm.text :
                 asm.text[i].op = "label" /\ asm.text[i].n = label

Result(i) ==
    LET a == Reg(i.r)
        b == Reg(i.q)
    IN CASE i.op = "add" -> a + b
         [] i.op = "sub" -> b - a
         [] i.op = "sub3" -> a - b
         [] i.op = "msub" -> Reg("x1") - a * b
         [] i.op = "mul" -> a * b
         [] i.op = "and" -> BitAnd(a, b)
         [] i.op = "or"  -> BitOr(a, b)
         [] i.op = "xor" -> BitXor(a, b)
         [] i.op = "shl" -> b * 2^a
         [] i.op = "shr" -> b \div 2^a
         [] i.op = "lsl" -> a * 2^b
         [] i.op = "lsr" -> a \div 2^b
         [] i.op = "lt"  -> Truth(a < b)
         [] i.op = "le"  -> Truth(a <= b)
         [] i.op = "gt"  -> Truth(a > b)
         [] i.op = "ge"  -> Truth(a >= b)
         [] i.op = "eq"  -> Truth(a = b)
         [] i.op = "ne"  -> Truth(a # b)
Advance(next) == m' = [next EXCEPT !.pc = @ + 1]

\* Moves between registers, the stack and constants; arithmetic.
RegsAfter(i) ==
    CASE i.op = "movi" -> [m.regs EXCEPT ![i.r] = i.n]
      [] i.op = "lea"  -> [m.regs EXCEPT ![i.r] = RODATA + i.n]
      [] i.op = "load" -> [m.regs EXCEPT ![i.r] = Word(Slot(i))]
      [] i.op = "mov"  -> [m.regs EXCEPT ![i.q] = Reg(i.r)]
      [] i.op = "neg"  -> [m.regs EXCEPT ![i.r] = -@]
      [] i.op = "not"  -> [m.regs EXCEPT ![i.r] = -@ - 1]
      [] i.op = "idiv" -> [m.regs EXCEPT !.rax = Quotient(@, Word(Slot(i))),
                                         !.rdx = Remainder(Reg("rax"), Word(Slot(i)))]
      [] i.op = "sdiv" -> [m.regs EXCEPT ![i.f] = IF Reg(i.q) = 0 THEN 0
                                                   ELSE Quotient(Reg(i.r), Reg(i.q))]
      [] i.op = "sub" /\ i.r = Cpu.sp -> [m.regs EXCEPT ![Cpu.sp] = @ - i.n]
      [] i.op = "add" /\ i.r = Cpu.sp -> [m.regs EXCEPT ![Cpu.sp] = @ + i.n]
      [] OTHER -> [m.regs EXCEPT ![i.q] = Result(i)]

Arithmetic ==
    /\ stage = "run"
    /\ Current.op \notin {"store", "push", "pop", "stp", "ldp", "label", "func",
                          "jmp", "jz", "call", "bl", "retq", "ret"}
    /\ Advance([m EXCEPT !.regs = RegsAfter(Current)])
    /\ UNCHANGED <<program, stage, tree, ir, asm, input, out>>

Store == /\ stage = "run" /\ Current.op = "store"
         /\ Advance([m EXCEPT !.mem = Stored(Slot(Current), Reg(Current.r))])
         /\ UNCHANGED <<program, stage, tree, ir, asm, input, out>>

Push == /\ stage = "run" /\ Current.op = "push"
        /\ Advance([m EXCEPT !.regs[Cpu.sp] = @ - 1,
                             !.mem = Stored(Reg(Cpu.sp) - 1, Reg(Current.r))])
        /\ UNCHANGED <<program, stage, tree, ir, asm, input, out>>

Pop == /\ stage = "run" /\ Current.op = "pop"
       /\ Advance([m EXCEPT !.regs = [@ EXCEPT ![Current.r] = Word(Reg("rsp")),
                                               !.rsp = @ + 1]])
       /\ UNCHANGED <<program, stage, tree, ir, asm, input, out>>

\* A pair of registers on top of the stack, and back from there.
StorePair ==
    /\ stage = "run" /\ Current.op = "stp"
    /\ LET top == Reg("sp") - 2
       IN Advance([m EXCEPT !.regs.sp = top,
                            !.mem = (top :> Reg(Current.r)) @@ (top + 1 :> Reg(Current.q)) @@ @])
    /\ UNCHANGED <<program, stage, tree, ir, asm, input, out>>
LoadPair ==
    /\ stage = "run" /\ Current.op = "ldp"
    /\ Advance([m EXCEPT !.regs = [@ EXCEPT ![Current.r] = Word(Reg("sp")),
                                            ![Current.q] = Word(Reg("sp") + 1),
                                            !.sp = @ + 2]])
    /\ UNCHANGED <<program, stage, tree, ir, asm, input, out>>

Jump == /\ stage = "run" /\ Current.op \in {"label", "func", "jmp", "jz"}
        /\ IF \/ Current.op = "jmp"
              \/ Current.op = "jz" /\ Reg(Current.r) = 0
           THEN m' = [m EXCEPT !.pc = At(Current.n)]
           ELSE Advance(m)
        /\ UNCHANGED <<program, stage, tree, ir, asm, input, out>>

IsOwn(f) == \E i \in DOMAIN asm.text : asm.text[i].op = "func" /\ asm.text[i].f = f
\* A call of a function of the program.
CallOwn == /\ stage = "run" /\ Current.op = "call" /\ IsOwn(Current.f)
           /\ m' = [pc |-> EntryOf(asm.text, Current.f),
                    regs |-> [m.regs EXCEPT !.rsp = @ - 1],
                    mem |-> Stored(Reg("rsp") - 1, m.pc + 1)]
           /\ UNCHANGED <<program, stage, tree, ir, asm, input, out>>

BranchLink ==
    /\ stage = "run" /\ Current.op = "bl" /\ IsOwn(Current.f)
    /\ m' = [m EXCEPT !.pc = EntryOf(asm.text, Current.f), !.regs.x30 = m.pc + 1]
    /\ UNCHANGED <<program, stage, tree, ir, asm, input, out>>

\* A function of the library uses the stack below sp, where it may leave
\* anything, and the registers that are not callee-saved.
AfterLibrary(result) ==
    [pc |-> m.pc + 1,
     regs |-> [r \in Cpu.regs |-> IF r = Cpu.result THEN result
                                  ELSE IF r \in Cpu.saved THEN Reg(r) ELSE GARBAGE],
     mem |-> [a \in {x \in DOMAIN m.mem : x >= Reg(Cpu.sp)} |-> m.mem[a]]]
\* The ABIs want the stack pointer on a multiple of 16 bytes there.  On
\* x86-64 words are counted from main's return address, so it is an odd one.
Aligned == Reg(Cpu.sp) % 2 = Cpu.odd

\* read_int: 0 where there is no number to read.
CallRead == /\ stage = "run" /\ Current.op \in {"call", "bl"} /\ Current.f = "read_int"
            /\ ~IsOwn(Current.f) /\ Aligned
            /\ IF input = <<>> THEN m' = AfterLibrary(0) /\ UNCHANGED input
               ELSE m' = AfterLibrary(Head(input)) /\ input' = Tail(input)
            /\ UNCHANGED <<program, stage, tree, ir, asm, out>>

\* The functions that print: each argument, a string by what it points to.
Argument(j) == IF j <= Len(Cpu.args) THEN Reg(Cpu.args[j])
               ELSE Word(Reg(Cpu.sp) + j - Len(Cpu.args) - 1)
Shown(v) == IF v - RODATA \in 0..(Len(asm.rodata) - 1)
            THEN asm.rodata[v - RODATA + 1] ELSE v
\* A format is known by how many conversions it has (Lexer).
Printed == IF Current.f = "uwu_printf" THEN 1 + Shown(Argument(1)) - FORMAT
           ELSE 1
CallPrint == /\ stage = "run" /\ Current.op \in {"call", "bl"}
             /\ Current.f \in {"print_int", "puts", "uwu_print", "uwu_printf"}
             /\ ~IsOwn(Current.f) /\ Aligned
             /\ out' = out \o [j \in 1..Printed |-> Shown(Argument(j))]
             /\ m' = AfterLibrary(GARBAGE)
             /\ UNCHANGED <<program, stage, tree, ir, asm, input>>

ReturnTo(to, regs) ==
    /\ to = TO_RUNTIME \/ to \in DOMAIN asm.text
    /\ IF to = TO_RUNTIME THEN stage' = "done" ELSE UNCHANGED stage
    /\ m' = [m EXCEPT !.pc = to, !.regs = regs]
    /\ UNCHANGED <<program, tree, ir, asm, input, out>>
Ret == /\ stage = "run" /\ Current.op = "retq"
       /\ ReturnTo(Word(Reg("rsp")), [m.regs EXCEPT !.rsp = @ + 1])
RetLink == /\ stage = "run" /\ Current.op = "ret"
           /\ ReturnTo(Reg("x30"), m.regs)

Execute == \/ Arithmetic \/ Store \/ Push \/ Pop \/ StorePair \/ LoadPair \/ Jump
           \/ CallOwn \/ BranchLink \/ CallRead \/ CallPrint \/ Ret \/ RetLink
Next == Parse \/ Analyze \/ Generate \/ EmitAsm \/ Execute

Spec == Init /\ [][Next]_vars
\* The processor goes on to the next instruction.
FairSpec == Spec /\ WF_vars(Execute)

(***************************************************************************)
(* The fragment of the language the compiler gets right.  Outside it:      *)
(* bweak, continyue, an assignment as the increment of a fow and a fow     *)
(* that leaves a clause out (ir.c generates nothing for them, or takes one *)
(* clause for another), declarations inside a fow (semantic.c never looks  *)
(* there), a name declared twice (the later symbol wins everywhere), a     *)
(* declaration without a value (its slot is still a temporary's), "!"      *)
(* (compiled as "~"), && and || of anything but comparisons (compiled as & *)
(* and |, ir.c:129, both sides always evaluated: the same only where both  *)
(* are 0 or 1 and the right one does nothing and cannot fail), "+=" and    *)
(* its like (compiled as "="), functions that                              *)
(* do anything or take anything besides main (they return to a caller whose*)
(* rbp they have overwritten), and functions behind main (all are emitted  *)
(* with the frame of the last one, ir.c:412).  On ARM64, too, calls with   *)
(* more than one argument (the first is lost, codegen.c:486) and programs  *)
(* that compute nothing (their last variable lies on the saved x29 or x30: *)
(* slots start a word above sp and no temporary pads the frame).           *)
(***************************************************************************)
RECURSIVE Nodes(_)
Nodes(n) == <<n>> \o FlattenSeq([i \in DOMAIN n.kids |-> Nodes(n.kids[i])])
OfKind(n, kinds) == SelectSeq(Nodes(n), LAMBDA x : x.kind \in kinds)
COMPARING == {"==", "!=", "<", ">", "<=", ">="}
IsTruth(e) == e.kind = "BINARY" /\ e.op \in COMPARING \cup {"&&", "||"}
IsPlain(e) == \A n \in Range(Nodes(e)) :
    \/ n.kind \in {"NUMBER", "IDENT"}
    \/ n.kind = "BINARY" /\ n.op \notin {"/", "%", "<<", ">>"}
Supported(root) ==
    LET decls == OfKind(root, {"VAR_DECL"})
    IN /\ OfKind(root, {"BREAK", "CONTINUE"}) = <<>>
       /\ \A f \in Range(OfKind(root, {"FOR"})) :
              /\ Len(f.kids) = 4 /\ f.kids[3].kind = "CALL"
              /\ OfKind(f, {"VAR_DECL"}) = <<>>
       /\ \A i \in DOMAIN decls :
              /\ Len(decls[i].kids) = 2
              /\ \A j \in 1..(i - 1) : decls[j].name # decls[i].name
       /\ \A u \in Range(OfKind(root, {"UNARY"})) : u.op # "!"
       /\ \A e \in Range(OfKind(root, {"BINARY"})) : e.op \in {"&&", "||"} =>
              IsTruth(e.kids[1]) /\ IsTruth(e.kids[2]) /\ IsPlain(e.kids[2])
       /\ \A e \in Range(OfKind(root, {"ASSIGN"})) : e.op = "="
       /\ \A i \in DOMAIN root.kids :
              LET f == root.kids[i]
              IN IF i = Len(root.kids) THEN f.name = "main"
                 ELSE f.kids[2].kids = <<>> /\ f.kids[3].kids = <<>>
SupportedOnArm(root) ==
    LET calls == OfKind(root, {"CALL"})
    IN /\ \A i \in DOMAIN calls : Len(calls[i].kids) <= 2
       /\ calls \o OfKind(root, {"BINARY", "UNARY"}) # <<>>

(***************************************************************************)
(* Properties.                                                             *)
(***************************************************************************)
\* The tree the parser builds is the tree the source writes down: the lexer
\* finds every token, however close they stand and whatever comments are
\* between them, the ten nested loops of parser_new.c give every operator its
\* level and group to the left, an else belongs to the nearest if,
\* parentheses leave no trace.  The parser rejects the sources with a syntax
\* error, whose tree is NoTree, and no others.
ParsedAsWritten ==
    /\ stage = "analyze" => tree = program.tree
    /\ stage = "rejected" /\ tree = NoTree => program.tree = NoTree

Expected == Meaning(program.tree, program.input, Fuel)
IsLegal == program.tree # NoTree /\ Expected.ok

\* The process prints and returns what its source means, although
\* temporaries and variables share their stack slots, slots 0 and 1 lie on
\* saved registers, calls may destroy what is below sp, and one frame size
\* serves all functions.  What has no meaning is rejected.
ComputesMeaning ==
    /\ stage = "rejected" => ~IsLegal
    /\ stage \in {"run", "done"} =>
           IsLegal /\ IsPrefix(out, Expected.out)
    /\ stage = "done" => out = Expected.out /\ Reg(Cpu.result) = Expected.v

\* Every process the compiler produces comes to an end: no loop that the
\* source does not have, no lost return address, no call of the library with
\* a stack the ABI does not allow.
Finishes == stage = "run" ~> stage = "done"
=============================================================================
