----------------------------- MODULE ConstProp ------------------------------
(* Constant propagation over a chunk (src/bytecode/constprop.rs): a forward  *)
(* dataflow over basic blocks, named by their first position, and the        *)
(* rewriting of what it finds constant.  Floating point and the limit of the *)
(* constant pool are left out; "MovI" stands for MovConst too.               *)
EXTENDS Bytecode

Top == -1        \* nothing known: the register is absent from the map
Bottom == -2     \* not one constant
Lattice == Values \cup {Top, Bottom}

\* Mutant: paths with different values do not cancel out.
MeetKeepsOne(values) ==
  IF values \cap Values # {} THEN CHOOSE v \in values \cap Values : TRUE
  ELSE IF Bottom \in values THEN Bottom ELSE Top

(* What holds on every path, from what holds on each: an absent register     *)
(* does not count against the paths that have a value for it.                *)
Meet(values) ==
  LET known == values \ {Top}
  IN CASE known = {} -> Top
       [] \E v \in known : known = {v} -> CHOOSE v \in known : TRUE
       [] OTHER -> Bottom

(* A register absent from the map is read as Bottom.                         *)
Known(state, r) == IF state[r] \in Values THEN {state[r]} ELSE {}

(* compute_result: the value of ops[0] after the instruction, if it is one   *)
(* of those the pass can compute.                                            *)
Computable == Moves \cup Binary \cup {"MovI"}

ComputeResult(i, state) ==
  LET x == Known(state, i.x)
      y == Known(state, i.y)
      results ==
        CASE i.op = "MovI" -> {i.imm}
          [] i.op = "Mov" -> x
          [] i.op = "Inc" -> {Sum(a, 1) : a \in Known(state, i.d)}
          [] i.op = "Add" -> {Sum(p[1], p[2]) : p \in x \X y}
          [] i.op = "Div" -> {p[1] \div p[2] : p \in x \X (y \ {0})}
  IN IF results = {} THEN Bottom ELSE CHOOSE v \in results : TRUE

HasDest == Computable \cup {"Cmp", "Lea", "Call"}

Transfer(i, state) ==
  IF i.op \in Computable THEN [state EXCEPT ![i.d] = ComputeResult(i, state)]
  ELSE IF i.op \in HasDest THEN [state EXCEPT ![i.d] = Bottom]
  ELSE state

-----------------------------------------------------------------------------
Leaders(code) ==
  LET branches == {i \in DOMAIN code : code[i].op \in Jumps}
  IN ({1} \cup {code[i].imm : i \in branches} \cup {i + 1 : i \in branches}) \cap DOMAIN code

BlockEnd(code, b) ==
  CHOOSE e \in b .. Len(code) :
    /\ e = Len(code) \/ e + 1 \in Leaders(code)
    /\ \A i \in b + 1 .. e : i \notin Leaders(code)

(* Where control goes from the end e of a block: to the target of a branch,  *)
(* and to the block behind it.                                               *)
Target(code, e) == IF code[e].op \in Jumps THEN {code[e].imm} \cap DOMAIN code ELSE {}
Behind(code, e) == IF code[e].op \in {"Jmp", "Ret"} THEN {} ELSE {e + 1} \cap DOMAIN code

Graph(code) ==
  LET blocks == Leaders(code)
      ends == [b \in blocks |-> BlockEnd(code, b)]
      follow(p) == Target(code, ends[p]) \cup Behind(code, ends[p])
  IN [blocks |-> blocks, ends |-> ends, preds |-> [b \in blocks |-> {p \in blocks : b \in follow(p)}]]

(* The state after the instructions from..to, given the one before them.     *)
After(code, state, from, to) ==
  LET at[i \in from - 1 .. to] == IF i < from THEN state ELSE Transfer(code[i], at[i - 1])
  IN at[to]

MeetStates(states, regs) == [r \in regs |-> Meet({s[r] : s \in states})]

(* The state at the start of a block, from those its predecessors end in.    *)
In(graph, regs, out, b) == MeetStates({out[p] : p \in graph.preds[b]}, regs)

(* The worklist begins with every block in order; a block whose state after  *)
(* it changes puts back its successors that are not waiting already.         *)
InOrder(blocks) ==
  [k \in 1 .. Cardinality(blocks) |->
     CHOOSE b \in blocks : Cardinality({c \in blocks : c <= b}) = k]

PutBack(work, block) ==
  IF block \subseteq {work[k] : k \in DOMAIN work} THEN work
  ELSE Append(work, CHOOSE b \in block : TRUE)

Take(code, graph, regs, s) ==
  LET b == Head(s.work)
      e == graph.ends[b]
      new == After(code, In(graph, regs, s.out, b), b, e)
  IN IF new = s.out[b] THEN [s EXCEPT !.work = Tail(@)]
     ELSE [out |-> [s.out EXCEPT ![b] = new],
           work |-> PutBack(PutBack(Tail(s.work), Target(code, e)), Behind(code, e))]

Rounds == 64      \* blocks taken from the worklist before it is given up

RunDataflow(code, regs) ==
  LET graph == Graph(code)
      flow[k \in 0 .. Rounds] ==
        IF k = 0
        THEN [out |-> [b \in graph.blocks |-> [r \in regs |-> Top]], work |-> InOrder(graph.blocks)]
        ELSE LET s == flow[k - 1] IN IF s.work = <<>> THEN s ELSE Take(code, graph, regs, s)
      final == flow[Rounds]
  IN [settled |-> final.work = <<>>,
      at |-> [b \in graph.blocks |-> In(graph, regs, final.out, b)]]

BlockOf(code, i) ==
  CHOOSE b \in 1 .. i : b \in Leaders(code) /\ \A c \in b + 1 .. i : c \notin Leaders(code)

(* What the pass holds constant before each instruction.                     *)
Analysis(code) ==
  LET flow == RunDataflow(code, RegistersOf(code) \cup {0})
  IN [settled |-> flow.settled,
      before |-> [i \in DOMAIN code |-> LET b == BlockOf(code, i) IN After(code, flow.at[b], b, i - 1)]]

(* What an instruction reads, as an operand or to decide a jump.             *)
ReadBy(i) == InstrUses(i) \cup (IF i.op \in ZeroJumps THEN {i.d} ELSE {})

-----------------------------------------------------------------------------
(* eval_branch: the four conditions that read ops[0] as a value.             *)
EvalBranch(op, v) ==
  CASE op \in {"Jz", "Je"} -> {v = 0}
    [] op \in {"Jnz", "Jne"} -> {v # 0}
    [] OTHER -> {}

FoldBranch(i, state) ==
  LET taken == UNION {EvalBranch(i.op, v) : v \in Known(state, i.d)}
  IN IF TRUE \in taken THEN Ri16("Jmp", 0, i.imm)
     ELSE IF FALSE \in taken THEN Nop
     ELSE i

FoldInstr(i, state) ==
  IF i.op \in Branches THEN FoldBranch(i, state)
  ELSE IF i.op \in Computable /\ ComputeResult(i, state) \in Values
  THEN Ri16("MovI", i.d, ComputeResult(i, state))
  ELSE i

ConstPropFold(chunk) ==
  LET facts == Analysis(chunk.code)
  IN [chunk EXCEPT !.code = [i \in DOMAIN chunk.code |->
                               FoldInstr(chunk.code[i], facts.before[i])]]
=============================================================================
