------------------------------ MODULE RegAlloc ------------------------------
(* Dead registers, compaction and linear scan over a chunk                   *)
(* (src/bytecode/regalloc.rs).  Addresses of blocks always carry the length  *)
(* of the block, as every address the code generator emits does.             *)
EXTENDS Bytecode

MinOf(S) == CHOOSE m \in S : \A k \in S : m <= k
MaxOf(S) == CHOOSE m \in S : \A k \in S : k <= m

(* The first number from n on that is not taken.                             *)
NextFree(n, taken) == MinOf({k \in n .. n + Cardinality(taken) : k \notin taken})

-----------------------------------------------------------------------------
UseSet(code) == UNION {InstrUses(code[i]) \cup Block(code[i]) : i \in DOMAIN code}

DeadDefs(code) ==
  {i \in DOMAIN code : /\ code[i].op \in SideEffectFree
                       /\ InstrDef(code[i]) # {}
                       /\ InstrDef(code[i]) \cap UseSet(code) = {}}

ElimRound(code) ==
  LET dead == DeadDefs(code)
  IN [i \in DOMAIN code |-> IF i \in dead THEN Nop ELSE code[i]]

(* Rounds until nothing is dead: each one takes away a definition.           *)
ElimDefs(code) ==
  LET after[k \in 0 .. Len(code)] == IF k = 0 THEN code ELSE ElimRound(after[k - 1])
  IN after[Len(code)]

Staying(code) == {i \in DOMAIN code : code[i].op # "Nop"}

(* Where position t goes: behind the instructions before it that stay.  A    *)
(* jump to a Nop goes to the next instruction that stays.                    *)
MovedTo(code, t) == 1 + Cardinality({i \in Staying(code) : i < t})

StripNops(code) ==
  LET fix(i) == IF i.op \in Jumps THEN [i EXCEPT !.imm = MovedTo(code, @)] ELSE i
  IN [k \in 1 .. Cardinality(Staying(code)) |->
        fix(code[CHOOSE i \in Staying(code) : MovedTo(code, i) = k])]

(* Registers that keep their numbers: parameters and the slots of blocks.    *)
Pinned(chunk) ==
  (0 .. chunk.params - 1) \cup UNION {Block(chunk.code[i]) : i \in DOMAIN chunk.code}

Renamed(code, slot) ==
  LET to == [r \in RegistersOf(code) \cup {0} |-> IF r \in DOMAIN slot THEN slot[r] ELSE r]
  IN [i \in DOMAIN code |-> RemapInstr(code[i], to)]

\* Mutant: the highest register is taken for their number.
FrameSizeShort(slot) == IF DOMAIN slot = {} THEN 0 ELSE MaxOf({slot[r] : r \in DOMAIN slot})

FrameSize(slot) == IF DOMAIN slot = {} THEN 0 ELSE 1 + MaxOf({slot[r] : r \in DOMAIN slot})

SlotGiven(slot, r, v) == [q \in DOMAIN slot \cup {r} |-> IF q = r THEN v ELSE slot[q]]

(* The other registers take the smallest numbers left, in order.             *)
CompactOne(s, pinned) ==
  LET r == MinOf(s.left)
      v == NextFree(s.fresh, pinned)
  IN [slot |-> SlotGiven(s.slot, r, v), fresh |-> v + 1, left |-> s.left \ {r}]

CompactSlots(others, pinned) ==
  LET filled[k \in 0 .. Cardinality(others)] ==
        IF k = 0 THEN [slot |-> [r \in pinned |-> r], fresh |-> 0, left |-> others]
        ELSE CompactOne(filled[k - 1], pinned)
  IN filled[Cardinality(others)].slot

CompactRegs(chunk) ==
  LET pinned == Pinned(chunk)
      slot == CompactSlots(RegistersOf(chunk.code) \ pinned, pinned)
  IN [chunk EXCEPT !.code = Renamed(chunk.code, slot), !.regs = FrameSize(slot)]

ElimDeadRegs(chunk) ==
  CompactRegs([chunk EXCEPT !.code = StripNops(ElimDefs(@))])

-----------------------------------------------------------------------------
(* First and last position at which a register is mentioned; parameters are  *)
(* there from the first instruction on.                                      *)
Mentions(chunk, r) ==
  {i \in DOMAIN chunk.code : r \in InstructionRegisters(chunk.code[i])}
    \cup (IF r < chunk.params THEN {1} ELSE {})

\* Mutant: jumps back are not looked at.
ExtendNothing(intervals, code, j) == intervals

(* A jump back from j to t keeps what was live before the loop, and is       *)
(* mentioned in it, alive up to j.                                           *)
ExtendOver(intervals, code, j) ==
  LET t == code[j].imm
  IN IF code[j].op \notin Jumps \/ t >= j THEN intervals
     ELSE [r \in DOMAIN intervals |->
             IF intervals[r].start < t /\ intervals[r].end \in t .. j - 1
             THEN [intervals[r] EXCEPT !.end = j]
             ELSE intervals[r]]

Intervals(chunk) ==
  LET regs == RegistersOf(chunk.code) \cup 0 .. chunk.params - 1
      upTo[j \in 0 .. Len(chunk.code)] ==
        IF j = 0
        THEN [r \in regs |-> [start |-> MinOf(Mentions(chunk, r)),
                              end |-> MaxOf(Mentions(chunk, r))]]
        ELSE ExtendOver(upTo[j - 1], chunk.code, j)
  IN upTo[Len(chunk.code)]

(* Intervals in order of their start, then their end, then the register.     *)
Precedes(intervals, q, r) ==
  LET a == intervals[q]
      b == intervals[r]
  IN \/ a.start < b.start
     \/ a.start = b.start /\ a.end < b.end
     \/ a.start = b.start /\ a.end = b.end /\ q < r

NextInterval(intervals, left) ==
  CHOOSE r \in left : \A q \in left \ {r} : Precedes(intervals, r, q)

(* One interval: those that ended before it starts give their slots back;    *)
(* it takes the smallest free slot, or the next one never used.              *)
Assign(s, intervals, pinned) ==
  LET r == NextInterval(intervals, s.left)
      expired == {q \in s.active : intervals[q].end < intervals[r].start}
      free == s.free \cup {s.slot[q] : q \in expired}
      usable == free \ pinned
      fresh == NextFree(s.fresh, pinned)
      active == s.active \ expired
      left == s.left \ {r}
  IN IF r \in pinned
     THEN [slot |-> SlotGiven(s.slot, r, r), active |-> active, free |-> free,
           fresh |-> s.fresh, left |-> left]
     ELSE IF usable # {}
     THEN [slot |-> SlotGiven(s.slot, r, MinOf(usable)), active |-> active \cup {r},
           free |-> free \ {MinOf(usable)}, fresh |-> s.fresh, left |-> left]
     ELSE [slot |-> SlotGiven(s.slot, r, fresh), active |-> active \cup {r}, free |-> free,
           fresh |-> fresh + 1, left |-> left]

(* The slot of each register that has an interval.                           *)
LinearScan(intervals, pinned) ==
  LET regs == DOMAIN intervals
      scan[k \in 0 .. Cardinality(regs)] ==
        IF k = 0 THEN [slot |-> <<>>, active |-> {}, free |-> {}, fresh |-> 0, left |-> regs]
        ELSE Assign(scan[k - 1], intervals, pinned)
  IN scan[Cardinality(regs)].slot

LinearScanAlloc(chunk) ==
  LET intervals == Intervals(chunk)
      slot == LinearScan(intervals, Pinned(chunk))
  IN IF DOMAIN intervals = {} THEN chunk
     ELSE [chunk EXCEPT !.code = Renamed(chunk.code, slot), !.regs = FrameSize(slot)]
=============================================================================
