------------------------------ MODULE Codegen -------------------------------
(***************************************************************************)
(* The x86-64 and ARM64 back ends of the UwU-C compiler (codegen.c): every *)
(* IR instruction becomes a few machine instructions.  Stack offsets are   *)
(* counted in words of eight bytes.  Compare-and-set and test-and-jump     *)
(* pairs are one instruction each.                                         *)
(* A definition in front of another one whose name starts alike            *)
(* (PaddingNone, Padding) is a mutation of it that the runs must refute.   *)
(***************************************************************************)
EXTENDS IR, Integers, SequencesExt

\* r, q: registers; n: a number, an offset or a label; f: a function, or the
\* register a division leaves its quotient in.
Asm(op, r, q, n) == [op |-> op, r |-> r, q |-> q, n |-> n, f |-> ""]
OnReg(op, r) == Asm(op, r, "", 0)
Move(r, q) == Asm("mov", r, q, 0)      \* from r into q
OnRsp(op, n) == Asm(op, "rsp", "", n)
OnSp(op, n) == Asm(op, "sp", "", n)
Symbol(op, f) == [Asm(op, "", "", 0) EXCEPT !.f = f]

get_stack_offset(o) == IF o.n > 0 THEN -(o.n + 1) ELSE 0

emit_x86_64_load(o) ==
    CASE o.k = "imm" -> Asm("movi", "rax", "", o.n)
      [] o.k \in {"v", "t"} -> Asm("load", "rax", "", get_stack_offset(o))
      [] OTHER -> Asm("lea", "rax", "", o.n)
emit_x86_64_store(o) == Asm("store", "rax", "", get_stack_offset(o))

\* The probe of the stack checks loads a word and changes nothing but rax.
emit_x86_64_prologue(f, frame) ==
    <<Symbol("func", f), OnReg("push", "rbp"), Move("rsp", "rbp"),
      OnReg("push", "rbx"), OnReg("push", "r12")>>
    \o (IF frame > 0 THEN <<OnRsp("sub", frame)>> ELSE <<>>)
emit_x86_64_epilogue ==
    <<OnReg("pop", "r12"), OnReg("pop", "rbx"), Move("rbp", "rsp"),
      OnReg("pop", "rbp"), OnReg("retq", "rsp")>>

ARG_REGS == <<"rdi", "rsi", "rdx", "rcx", "r8", "r9">>

\* Arguments beyond the sixth are pushed, the last one first, on a stack
\* kept a multiple of sixteen bytes.
PaddingNone(on_stack) == 0
Padding(on_stack) == on_stack % 2
actual_func(f) == IF f = "print_str" THEN "puts" ELSE f
emit_x86_64_call(inst) ==
    LET num_args == Len(inst.args)
        in_regs == IF num_args < 6 THEN num_args ELSE 6
        on_stack == num_args - in_regs
        pad == Padding(on_stack)
        pushed(j) == inst.args[num_args + 1 - j]
        pushes == [i \in 1..(2 * on_stack) |->
                      IF i % 2 = 1 THEN emit_x86_64_load(pushed((i + 1) \div 2))
                      ELSE OnReg("push", "rax")]
        moves == [i \in 1..(2 * in_regs) |->
                     IF i % 2 = 1
                     THEN emit_x86_64_load(inst.args[(i + 1) \div 2])
                     ELSE Move("rax", ARG_REGS[i \div 2])]
    IN (IF pad = 1 THEN <<OnRsp("sub", 1)>> ELSE <<>>)
       \o pushes \o moves \o <<Symbol("call", actual_func(inst.f))>>
       \o (IF on_stack > 0 THEN <<OnRsp("add", on_stack + pad)>> ELSE <<>>)

COMPARISONS == {"lt", "le", "gt", "ge", "eq", "ne"}

\* From the left operand in rbx and the right one in rax to the result in
\* rax; division takes its divisor from the slot of the right operand.
emit_operation(op, right) ==
    LET divide == <<Move("rbx", "rax"),
                    Asm("idiv", "rax", "", get_stack_offset(right))>>
        shift == <<Move("rax", "rcx"), Move("rbx", "rax"), Asm(op, "rcx", "rax", 0)>>
    IN CASE op \in {"add", "mul", "and", "or", "xor"} ->
                <<Asm(op, "rbx", "rax", 0)>>
         [] op = "sub" -> <<Asm("sub", "rax", "rbx", 0), Move("rbx", "rax")>>
         [] op = "div" -> divide
         [] op = "mod" -> divide \o <<Move("rdx", "rax")>>
         [] op \in COMPARISONS -> <<Asm(op, "rbx", "rax", 0)>>
         [] op \in {"shl", "shr"} -> shift
BINARY_OPS == {"add", "sub", "mul", "div", "mod", "and", "or", "xor", "shl",
               "shr"} \cup COMPARISONS

emit_x86_64_instruction(inst, frame) ==
    LET a(i) == inst.args[i]
        load(i) == emit_x86_64_load(a(i))
        binary == <<load(2), Move("rax", "rbx"), load(3)>>
                  \o emit_operation(inst.op, a(3))
    IN CASE inst.op = "mov" -> <<load(2), emit_x86_64_store(a(1))>>
         [] inst.op \in BINARY_OPS -> binary \o <<emit_x86_64_store(a(1))>>
         [] inst.op \in {"neg", "not"} ->
                <<load(2), OnReg(inst.op, "rax"), emit_x86_64_store(a(1))>>
         [] inst.op = "label" -> <<Asm("label", "", "", a(1).n)>>
         [] inst.op = "jmp" -> <<Asm("jmp", "", "", a(1).n)>>
         [] inst.op = "brz" -> <<load(1), Asm("jz", "rax", "", a(2).n)>>
         [] inst.op = "call" -> emit_x86_64_call(inst)
         [] inst.op = "getret" -> <<emit_x86_64_store(a(1))>>
         [] inst.op = "ret" ->
                (IF inst.args = <<>> THEN <<>> ELSE <<load(1)>>)
                \o emit_x86_64_epilogue
         [] inst.op = "endfunc" ->
                <<Asm("movi", "rax", "", 0)>> \o emit_x86_64_epilogue
         [] inst.op = "func" -> emit_x86_64_prologue(inst.f, frame)

(***************************************************************************)
(* ARM64.  Slots are counted up from sp, below the saved x29 and x30.      *)
(***************************************************************************)
emit_arm64_load(o) ==
    CASE o.k = "imm" -> Asm("movi", "x0", "", o.n)
      [] o.k \in {"v", "t"} -> Asm("load", "x0", "", -get_stack_offset(o))
      [] OTHER -> Asm("lea", "x0", "", o.n)
emit_arm64_store(o) == Asm("store", "x0", "", -get_stack_offset(o))

emit_arm64_prologue(f, frame) ==
    <<Symbol("func", f), Asm("stp", "x29", "x30", 0), Move("sp", "x29")>>
    \o (IF frame > 0 THEN <<OnSp("sub", AlignWords(frame))>> ELSE <<>>)
emit_arm64_epilogue(frame) ==
    (IF frame > 0 THEN <<OnSp("add", AlignWords(frame))>> ELSE <<>>)
    \o <<Asm("ldp", "x29", "x30", 0), OnReg("ret", "x30")>>

ARM_ARG_REGS == <<"x0", "x1", "x2", "x3", "x4", "x5", "x6", "x7">>

\* Every argument goes through x0, the first one's own register, and the
\* eighth stays there.
emit_arm64_call(inst) ==
    LET num_args == Len(inst.args)
        in_regs == IF num_args < 8 THEN num_args ELSE 8
        stack_args == num_args - in_regs
        pad == stack_args % 2
        pushes(k) == <<emit_arm64_load(inst.args[num_args + 1 - k]), OnReg("push", "x0")>>
        moves(i) == <<emit_arm64_load(inst.args[i])>>
                    \o (IF i < 8 THEN <<Move("x0", ARM_ARG_REGS[i])>> ELSE <<>>)
    IN (IF pad = 1 THEN <<OnSp("sub", 1)>> ELSE <<>>)
       \o FlattenSeq([k \in 1..stack_args |-> pushes(k)])
       \o FlattenSeq([i \in 1..in_regs |-> moves(i)])
       \o <<Symbol("bl", actual_func(inst.f))>>
       \o (IF stack_args > 0 THEN <<OnSp("add", stack_args + pad)>> ELSE <<>>)

\* From the left operand in x1 and the right one in x0 to the result in x0.
SHIFTS == [shl |-> "lsl", shr |-> "lsr"]
sdiv(quotient) == [Asm("sdiv", "x1", "x0", 0) EXCEPT !.f = quotient]
emit_arm64_operation(op) ==
    CASE op = "sub" -> <<Asm("sub3", "x1", "x0", 0)>>
      [] op = "div" -> <<sdiv("x0")>>
      [] op = "mod" -> <<sdiv("x2"), Asm("msub", "x2", "x0", 0)>>
      [] op \in DOMAIN SHIFTS -> <<Asm(SHIFTS[op], "x1", "x0", 0)>>
      [] OTHER -> <<Asm(op, "x1", "x0", 0)>>

emit_arm64_instruction(inst, frame) ==
    LET a(i) == inst.args[i]
        load(i) == emit_arm64_load(a(i))
        store == emit_arm64_store(a(1))
    IN CASE inst.op = "mov" -> <<load(2), store>>
         [] inst.op \in BINARY_OPS -> <<load(2), Move("x0", "x1"), load(3)>>
                \o emit_arm64_operation(inst.op) \o <<store>>
         [] inst.op \in {"neg", "not"} -> <<load(2), OnReg(inst.op, "x0"), store>>
         [] inst.op = "label" -> <<Asm("label", "", "", a(1).n)>>
         [] inst.op = "jmp" -> <<Asm("jmp", "", "", a(1).n)>>
         [] inst.op = "brz" -> <<load(1), Asm("jz", "x0", "", a(2).n)>>
         [] inst.op = "call" -> emit_arm64_call(inst)
         [] inst.op = "getret" -> <<store>>
         [] inst.op = "ret" -> (IF inst.args = <<>> THEN <<>> ELSE <<load(1)>>)
                \o emit_arm64_epilogue(frame)
         [] inst.op = "endfunc" ->
                <<Asm("movi", "x0", "", 0)>> \o emit_arm64_epilogue(frame)
         [] inst.op = "func" -> emit_arm64_prologue(inst.f, frame)

(***************************************************************************)
(* The output file.                                                        *)
(***************************************************************************)
\* What each string label stands for; labels are numbered from 0.
emit_string_table(ir) ==
    LET strings == SelectSeq(ir.code, LAMBDA inst : inst.op = "string")
    IN [i \in DOMAIN strings |-> strings[i].args[2].n]

\* Every function is emitted with the frame size of the program.
emit_instruction(inst, frame, target) ==
    IF target = "arm64" THEN emit_arm64_instruction(inst, frame)
    ELSE emit_x86_64_instruction(inst, frame)
codegen_emit_asm(ir, target) ==
    LET code == SelectSeq(ir.code, LAMBDA inst : inst.op # "string")
    IN [text |-> FlattenSeq([i \in DOMAIN code |->
                     emit_instruction(code[i], ir.frame, target)]),
        rodata |-> emit_string_table(ir)]
=============================================================================
