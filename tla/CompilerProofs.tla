---------------------------- MODULE CompilerProofs ----------------------------
(***************************************************************************)
(* Proofs about the compiler for every set of tokens, every bound on the   *)
(* length of a source and every byte width.                                *)
(*                                                                         *)
(* The first part proves that the frames, the chunk and the objects fit    *)
(* each other (CompilerInv), which gives the safety of the code that is    *)
(* emitted.  The second part proves that the compiler recognises the       *)
(* language of module CompilerGrammar (LanguageInv): what it accepts, what *)
(* it calls unfinished, which error it reports and what it loads.  The     *)
(* third part proves that the code it emits evaluates the program in the   *)
(* order that the module states (EvaluationInv), with every operand where  *)
(* its operator finds it (OperandsInv).                                    *)
(***************************************************************************)
EXTENDS CompilerGrammar, SequenceTheorems, FiniteSetTheorems,
        WellFoundedInduction, TLAPS

(* Emitting an instruction keeps the ones before it and records the height *)
(* at which it runs (Emit of module Bytecode).                             *)
LEMMA EmitFacts ==
  ASSUME NEW code \in Seq(Instructions), NEW op \in Opcodes,
         NEW arg \in Nat, NEW pos \in Nat
  PROVE  /\ Emit(code, op, arg, pos) \in Seq(Instructions)
         /\ Len(Emit(code, op, arg, pos)) = Len(code) + 1
         /\ \A i \in 1..Len(code) : Emit(code, op, arg, pos)[i] = code[i]
         /\ Emit(code, op, arg, pos)[Len(code) + 1]
              = [op |-> op, arg |-> arg, pos |-> pos, height |-> HeightAfter(code)]
         /\ HeightAfter(Emit(code, op, arg, pos))
              = HeightAfter(code) - Pops(op) + Pushes(op)
         /\ HeightAfter(code) \in Int
         /\ Emit(code, op, arg, pos) # <<>>
<1> DEFINE ins == [op |-> op, arg |-> arg, pos |-> pos, height |-> HeightAfter(code)]
<1>1. \A o : Pops(o) \in Int /\ Pushes(o) \in Int
  BY DEF Pops, Pushes
<1>2. HeightAfter(code) \in Int
  <2>1. CASE code = <<>>
    BY <2>1 DEF HeightAfter
  <2>2. CASE code # <<>>
    <3>1. code[Len(code)] \in Instructions
      BY <2>2
    <3>2. code[Len(code)].height \in Int
      BY <3>1 DEF Instructions
    <3> QED BY <1>1, <2>2, <3>2 DEF HeightAfter
  <2> QED BY <2>1, <2>2
<1>3. ins \in Instructions
  BY <1>2 DEF Instructions
<1>4. Emit(code, op, arg, pos) = Append(code, ins)
  BY DEF Emit
<1> HIDE DEF ins
<1>5. /\ Append(code, ins) \in Seq(Instructions)
      /\ Len(Append(code, ins)) = Len(code) + 1
      /\ \A i \in 1..Len(code) : Append(code, ins)[i] = code[i]
      /\ Append(code, ins)[Len(code) + 1] = ins
      /\ Append(code, ins) # <<>>
  BY <1>3
<1>6. ins.height = HeightAfter(code) /\ ins.op = op
  BY DEF ins
<1>7. HeightAfter(Append(code, ins)) = ins.height - Pops(ins.op) + Pushes(ins.op)
  BY <1>5 DEF HeightAfter
<1> QED
  BY <1>2, <1>4, <1>5, <1>6, <1>7 DEF ins

(* Reporting an error moves no position and forgets no earlier error       *)
(* (compiler_error_at).                                                    *)
LEMMA ErrorAtFacts ==
  ASSUME NEW n \in Nat, NEW p \in ParserSet(n),
         NEW kind \in {"LEXICAL", "SYNTAX"}, NEW pos \in Nat, NEW type
  PROVE  LET q == CompilerErrorAt(p, kind, pos, type)
         IN  /\ q \in ParserSet(n)
             /\ q.previous = p.previous /\ q.current = p.current
             /\ p.hadError => q.hadError
             /\ (p.hadError <=> p.state # "OK") => (q.hadError <=> q.state # "OK")
             /\ (p.hadError <=> p.state # "OK") => q.hadError
<1>1. CASE p.state # "OK"
  BY <1>1 DEF CompilerErrorAt, ParserSet
<1>2. CASE p.state = "OK"
  BY <1>2 DEF CompilerErrorAt, ParserSet
<1> QED BY <1>1, <1>2

(* A scan appends tokens; it is empty exactly when EOF was reached before  *)
(* (lexer_scan as compiler_advance calls it).                              *)
LEMMA ScanFacts ==
  /\ \A n \in 0..MaxErrors, t \in Tokens \cup {EofToken} :
       Scan(n, t) \in Seq(AllTokens) /\ Len(Scan(n, t)) = n + 1
  /\ \A scan \in Scans :
       /\ scan \in Seq(AllTokens)
       /\ AtEof => scan = <<>>
       /\ ~AtEof => Len(scan) > 0
<1>1. ASSUME NEW n \in 0..MaxErrors, NEW t \in Tokens \cup {EofToken}
      PROVE  Scan(n, t) \in Seq(AllTokens) /\ Len(Scan(n, t)) = n + 1
  <2>1. n \in Nat
    BY BoundsAssumption
  <2>2. [i \in 1..n |-> ErrorToken] \in Seq(AllTokens) /\ Len([i \in 1..n |-> ErrorToken]) = n
    BY <2>1 DEF AllTokens
  <2>3. <<t>> \in Seq(AllTokens) /\ Len(<<t>>) = 1
    BY DEF AllTokens
  <2> QED BY <2>1, <2>2, <2>3 DEF Scan
<1>2. ASSUME NEW scan \in Scans
      PROVE  /\ scan \in Seq(AllTokens)
             /\ AtEof => scan = <<>>
             /\ ~AtEof => Len(scan) > 0
  <2>1. CASE AtEof
    BY <2>1 DEF Scans
  <2>2. CASE ~AtEof
    <3>1. PICK n \in 0..MaxErrors, t \in Tokens \cup {EofToken} : scan = Scan(n, t)
      BY <2>2 DEF Scans
    <3> QED BY <1>1, <2>2, <3>1, BoundsAssumption
  <2> QED BY <2>1, <2>2
<1> QED BY <1>1, <1>2

(* compiler_advance: previous takes current, current is the last token     *)
(* scanned.                                                                *)
LEMMA AdvanceFacts ==
  ASSUME TypeOK, NEW p \in ParserSet(Len(source)), NEW scan \in Scans,
         parser.current = Len(source), parser.current > 0,
         p.current = parser.current, p.hadError <=> p.state # "OK"
  PROVE  LET q == CompilerAdvance(p, scan)
         IN  /\ source \o scan \in Seq(AllTokens)
             /\ Len(source \o scan) > 0
             /\ q \in ParserSet(Len(source \o scan))
             /\ q.previous = parser.current
             /\ q.current = Len(source \o scan)
             /\ q.previous <= q.current
             /\ q.hadError <=> q.state # "OK"
             /\ p.hadError => q.hadError
<1> DEFINE r == IF Len(scan) > 1
                THEN CompilerErrorAt(p, "LEXICAL", Len(source) + 1, "ERROR")
                ELSE p
           q == CompilerAdvance(p, scan)
<1>1. source \in Seq(AllTokens) /\ scan \in Seq(AllTokens)
  BY ScanFacts DEF TypeOK
<1>2. /\ source \o scan \in Seq(AllTokens)
      /\ Len(source \o scan) = Len(source) + Len(scan)
      /\ Len(source) \in Nat /\ Len(scan) \in Nat
  BY <1>1
<1>3. /\ r \in ParserSet(Len(source))
      /\ r.hadError <=> r.state # "OK"
      /\ p.hadError => r.hadError
  <2>1. CASE Len(scan) > 1
    <3>1. Len(source) \in Nat /\ Len(source) + 1 \in Nat
      BY <1>2
    <3> DEFINE e == CompilerErrorAt(p, "LEXICAL", Len(source) + 1, "ERROR")
    <3>2. /\ e \in ParserSet(Len(source))
          /\ e.hadError <=> e.state # "OK"
          /\ p.hadError => e.hadError
      BY <3>1, ErrorAtFacts
    <3> QED BY <2>1, <3>2
  <2>2. CASE ~(Len(scan) > 1)
    BY <2>2
  <2> QED BY <2>1, <2>2
<1> HIDE DEF r
<1>4. q = [r EXCEPT !.previous = p.current, !.current = Len(source) + Len(scan)]
  BY DEF CompilerAdvance, r
<1>5. q \in ParserSet(Len(source) + Len(scan))
  <2>1. 0..Len(source) \subseteq 0..(Len(source) + Len(scan))
    BY <1>2
  <2>2. p.current \in 0..(Len(source) + Len(scan))
    BY <1>2, <2>1
  <2>3. Len(source) + Len(scan) \in 0..(Len(source) + Len(scan))
    BY <1>2
  <2> QED BY <1>3, <1>4, <2>2, <2>3 DEF ParserSet
<1>6. /\ q.previous = p.current /\ q.current = Len(source) + Len(scan)
      /\ q.hadError = r.hadError /\ q.state = r.state
  BY <1>3, <1>4 DEF ParserSet
<1> HIDE DEF q
<1> QED BY <1>2, <1>3, <1>5, <1>6 DEF q

-----------------------------------------------------------------------------
(* What holds of the emitted code, given the size of the constant pool, the*)
(* position compiled last and whether no error was met.                    *)
CodeOK(code, poolSize, pos, clean) ==
  /\ clean => NeverUnderflows(code)
  /\ \A i \in 1..Len(code) : OperandFits(code[i].op, code[i].arg, poolSize)
  /\ AscendTo(code, pos)
  /\ HeightsFollow(code)

(* Code that is kept stays well-formed as the pool grows, the parser       *)
(* advances and errors accumulate.                                         *)
LEMMA CodeKept ==
  ASSUME NEW code \in Seq(Instructions),
         NEW n \in Nat, NEW m \in Nat, n <= m,
         NEW pos \in Nat, NEW pos2 \in Nat, pos <= pos2,
         NEW clean, NEW clean2, clean2 => clean,
         CodeOK(code, n, pos, clean)
  PROVE  CodeOK(code, m, pos2, clean2)
<1>1. \A i \in 1..Len(code) : code[i].arg \in Nat /\ code[i].pos \in Nat
  <2>1. \A i \in 1..Len(code) : code[i] \in Instructions
    OBVIOUS
  <2> QED BY <2>1 DEF Instructions
<1>2. \A i \in 1..Len(code) : OperandFits(code[i].op, code[i].arg, m)
  BY <1>1 DEF CodeOK, OperandFits
<1>3. AscendTo(code, pos2)
  BY <1>1 DEF CodeOK, AscendTo
<1>4. (clean2 => NeverUnderflows(code)) /\ HeightsFollow(code)
  BY DEF CodeOK
<1> QED BY <1>2, <1>3, <1>4 DEF CodeOK

(* An emitted instruction keeps the code well-formed if the operand stack  *)
(* is high enough for it and its operand fits.                             *)
LEMMA CodeEmitted ==
  ASSUME NEW code \in Seq(Instructions), NEW op \in Opcodes, NEW arg \in Nat,
         NEW n \in Nat, NEW m \in Nat, n <= m,
         NEW pos \in Nat, NEW pos2 \in Nat, pos <= pos2,
         NEW clean, NEW clean2, clean2 => clean,
         clean2 => HeightAfter(code) >= Pops(op),
         OperandFits(op, arg, m),
         CodeOK(code, n, pos, clean)
  PROVE  CodeOK(Emit(code, op, arg, pos2), m, pos2, clean2)
<1> DEFINE new == Emit(code, op, arg, pos2)
<1>1. CodeOK(code, m, pos2, clean2)
  BY CodeKept
<1>2. /\ new \in Seq(Instructions) /\ Len(new) = Len(code) + 1
      /\ \A i \in 1..Len(code) : new[i] = code[i]
      /\ new[Len(code) + 1].op = op /\ new[Len(code) + 1].arg = arg
      /\ new[Len(code) + 1].pos = pos2
      /\ new[Len(code) + 1].height = HeightAfter(code)
      /\ Len(code) \in Nat /\ HeightAfter(code) \in Int
  <2> DEFINE ins == [op |-> op, arg |-> arg, pos |-> pos2, height |-> HeightAfter(code)]
  <2>1. /\ new \in Seq(Instructions) /\ Len(new) = Len(code) + 1
        /\ \A i \in 1..Len(code) : new[i] = code[i]
        /\ new[Len(code) + 1] = ins /\ HeightAfter(code) \in Int
    BY EmitFacts
  <2> HIDE DEF new
  <2> QED BY <2>1
<1> HIDE DEF new
<1>3. clean2 => NeverUnderflows(new)
  BY <1>1, <1>2 DEF CodeOK, NeverUnderflows
<1>4. \A i \in 1..Len(new) : OperandFits(new[i].op, new[i].arg, m)
  BY <1>1, <1>2 DEF CodeOK
<1>5. AscendTo(new, pos2)
  <2>1. \A i \in 1..Len(code) :
          /\ code[i].pos <= pos2
          /\ i > 1 => code[i - 1].pos <= code[i].pos
    BY <1>1 DEF CodeOK, AscendTo
  <2>2. ASSUME NEW i \in 1..Len(new)
        PROVE  new[i].pos <= pos2 /\ (i > 1 => new[i - 1].pos <= new[i].pos)
    <3>1. CASE i \in 1..Len(code)
      <4>1. i > 1 => i - 1 \in 1..Len(code)
        BY <1>2, <3>1
      <4> QED BY <1>2, <2>1, <3>1, <4>1
    <3>2. CASE i = Len(code) + 1
      <4>1. i > 1 => i - 1 \in 1..Len(code)
        BY <1>2, <3>2
      <4> QED BY <1>2, <2>1, <3>2, <4>1
    <3> QED BY <1>2, <3>1, <3>2
  <2> QED BY <2>2 DEF AscendTo
<1>6. HeightsFollow(new)
  <2>1. \A i \in 1..Len(code) :
          code[i].height = IF i = 1 THEN 0
                           ELSE code[i - 1].height - Pops(code[i - 1].op)
                                                   + Pushes(code[i - 1].op)
    BY <1>1 DEF CodeOK, HeightsFollow
  <2>2. ASSUME NEW i \in 1..Len(new)
        PROVE  new[i].height = IF i = 1 THEN 0
                               ELSE new[i - 1].height - Pops(new[i - 1].op)
                                                      + Pushes(new[i - 1].op)
    <3>1. CASE i \in 1..Len(code)
      <4>1. i # 1 => i - 1 \in 1..Len(code)
        BY <1>2, <3>1
      <4> QED BY <1>2, <2>1, <3>1, <4>1
    <3>2. CASE i = Len(code) + 1
      <4>1. CASE i = 1
        <5>1. code = <<>>
          BY <1>2, <3>2, <4>1
        <5> QED BY <1>2, <3>2, <4>1, <5>1 DEF HeightAfter
      <4>2. CASE i # 1
        <5>1. i - 1 = Len(code) /\ i - 1 \in 1..Len(code) /\ code # <<>>
          BY <1>2, <3>2, <4>2
        <5>2. HeightAfter(code) = code[i - 1].height - Pops(code[i - 1].op)
                                                     + Pushes(code[i - 1].op)
          BY <5>1 DEF HeightAfter
        <5> QED BY <1>2, <3>2, <4>2, <5>1, <5>2
      <4> QED BY <4>1, <4>2
    <3> QED BY <1>2, <3>1, <3>2
  <2> QED BY <2>2 DEF HeightsFollow
<1> QED BY <1>3, <1>4, <1>5, <1>6 DEF CodeOK, new

-----------------------------------------------------------------------------
(* Pushing a frame that the top frame may call, and returning from a frame,*)
(* keep the call chain.                                                    *)
LEMMA ChainPush ==
  ASSUME NEW fs \in Seq(FrameSet), CallChain(fs), NEW f \in FrameSet,
         IF fs = <<>> THEN f = CompileFrame ELSE Calls(fs[Len(fs)], f)
  PROVE  LET new == Append(fs, f)
         IN  /\ CallChain(new) /\ new \in Seq(FrameSet) /\ new # <<>>
             /\ Len(new) = Len(fs) + 1 /\ new[Len(new)] = f
<1> DEFINE new == Append(fs, f)
<1>1. /\ new \in Seq(FrameSet) /\ new # <<>>
      /\ Len(new) = Len(fs) + 1 /\ new[Len(new)] = f
      /\ \A i \in 1..Len(fs) : new[i] = fs[i]
      /\ Len(fs) \in Nat /\ (fs # <<>> => Len(fs) > 0) /\ (fs = <<>> => Len(fs) = 0)
  OBVIOUS
<1> HIDE DEF new
<1>2. new[1] = CompileFrame
  <2>1. CASE fs = <<>>
    BY <1>1, <2>1
  <2>2. CASE fs # <<>>
    BY <1>1, <2>2 DEF CallChain
  <2> QED BY <2>1, <2>2
<1>3. ASSUME NEW i \in 1..Len(new) - 1
      PROVE  Calls(new[i], new[i + 1])
  <2>1. i \in 1..Len(fs)
    BY <1>1
  <2>2. CASE i = Len(fs)
    <3>1. fs # <<>> /\ new[i] = fs[Len(fs)] /\ new[i + 1] = f
      BY <1>1, <2>1, <2>2
    <3> QED BY <3>1
  <2>3. CASE i # Len(fs)
    <3>1. i \in 1..Len(fs) - 1 /\ i + 1 \in 1..Len(fs)
      BY <1>1, <2>1, <2>3
    <3>2. new[i] = fs[i] /\ new[i + 1] = fs[i + 1]
      BY <1>1, <2>1, <3>1
    <3> QED BY <3>1, <3>2 DEF CallChain
  <2> QED BY <2>2, <2>3
<1>4. CallChain(new)
  BY <1>2, <1>3 DEF CallChain
<1> QED BY <1>1, <1>4 DEF new

LEMMA ChainPop ==
  ASSUME NEW fs \in Seq(FrameSet), CallChain(fs), fs # <<>>
  PROVE  LET rest == SubSeq(fs, 1, Len(fs) - 1)
         IN  /\ CallChain(rest) /\ rest \in Seq(FrameSet)
             /\ Len(rest) = Len(fs) - 1
             /\ fs[Len(fs)] \in FrameSet
             /\ IF rest = <<>> THEN fs[Len(fs)] = CompileFrame
                ELSE Calls(rest[Len(rest)], fs[Len(fs)])
             /\ rest # <<>> => rest[Len(rest)] \in FrameSet
<1> DEFINE rest == SubSeq(fs, 1, Len(fs) - 1)
<1>1. /\ rest \in Seq(FrameSet) /\ Len(rest) = Len(fs) - 1
      /\ \A i \in 1..Len(rest) : rest[i] = fs[i]
      /\ Len(fs) \in Nat /\ Len(fs) > 0
      /\ (rest = <<>> => Len(fs) = 1) /\ (rest # <<>> => Len(rest) > 0)
      /\ fs[Len(fs)] \in FrameSet
  <2>1. Len(fs) \in Nat /\ Len(fs) > 0 /\ fs[Len(fs)] \in FrameSet
    OBVIOUS
  <2>2. PICK n \in Int : n = Len(fs) - 1
    BY <2>1
  <2>3. rest = SubSeq(fs, 1, n)
    BY <2>2
  <2>4. /\ rest \in Seq(FrameSet) /\ Len(rest) = n
        /\ \A i \in 1..n : rest[i] = fs[i]
    BY <2>2
  <2> HIDE DEF rest
  <2>5. (rest = <<>> => Len(fs) = 1) /\ (rest # <<>> => Len(rest) > 0)
    BY <2>1, <2>2, <2>4
  <2> QED BY <2>1, <2>2, <2>4, <2>5
<1> HIDE DEF rest
<1>2. CallChain(rest)
  <2>1. rest # <<>> => rest[1] = CompileFrame
    BY <1>1 DEF CallChain
  <2>2. ASSUME NEW i \in 1..Len(rest) - 1
        PROVE  Calls(rest[i], rest[i + 1])
    <3>1. i \in 1..Len(fs) - 1 /\ i \in 1..Len(rest) /\ i + 1 \in 1..Len(rest)
      BY <1>1
    <3> QED BY <1>1, <3>1 DEF CallChain
  <2> QED BY <2>1, <2>2 DEF CallChain
<1>3. IF rest = <<>> THEN fs[Len(fs)] = CompileFrame
      ELSE Calls(rest[Len(rest)], fs[Len(fs)])
  <2>1. CASE rest = <<>>
    BY <1>1, <2>1 DEF CallChain
  <2>2. CASE rest # <<>>
    <3>1. Len(rest) \in 1..Len(fs) - 1 /\ Len(rest) + 1 = Len(fs) /\ Len(rest) \in 1..Len(rest)
      BY <1>1, <2>2
    <3>2. Calls(fs[Len(rest)], fs[Len(rest) + 1]) /\ rest[Len(rest)] = fs[Len(rest)]
      BY <1>1, <3>1 DEF CallChain
    <3> QED BY <2>2, <3>1, <3>2
  <2> QED BY <2>1, <2>2
<1> QED BY <1>1, <1>2, <1>3 DEF rest

(* Where the operand stack must be for the caller of a frame that returns. *)
LEMMA ReturnHeight ==
  ASSUME NEW g \in FrameSet, NEW f \in FrameSet, Calls(g, f)
  PROVE  /\ HeightOnResume(g) = IF f.fn = "stmt" THEN f.height ELSE f.height + 1
         /\ f.fn # "compile"
<1>1. /\ f.height \in Nat /\ g.height \in Nat
      /\ g.fn \in {"compile", "stmt", "head", "tail", "unary", "binary", "grouping"}
  BY DEF FrameSet
<1>2. CASE g.fn = "compile"
  BY <1>1, <1>2 DEF Calls, HeightOnResume
<1>3. CASE g.fn = "head"
  BY <1>1, <1>3 DEF Calls, HeightOnResume
<1>4. CASE g.fn = "tail"
  BY <1>1, <1>4 DEF Calls, HeightOnResume
<1>5. CASE g.fn = "binary"
  BY <1>1, <1>5 DEF Calls, HeightOnResume
<1>6. CASE g.fn \in {"stmt", "unary", "grouping"}
  BY <1>1, <1>6 DEF Calls, HeightOnResume
<1> QED BY <1>1, <1>2, <1>3, <1>4, <1>5, <1>6

-----------------------------------------------------------------------------
(* The parts of the inductive invariant, as the steps use them.            *)
CodeInv ==
  /\ CodeOK(chunk.code, Len(chunk.constants), parser.previous, ~parser.hadError)
  /\ ConstantsOfSource
SuccessInv == status = "success" =>
  /\ chunk.code # <<>>
  /\ chunk.code[Len(chunk.code)].op = "RETURN"
  /\ HeightAfter(chunk.code) = 0
  /\ \A i \in 1..Len(chunk.code) - 1 : chunk.code[i].op # "RETURN"

LEMMA InvParts ==
  CompilerInv <=> /\ TypeOK /\ FramesOK /\ ScanOK /\ HeightsOK /\ ReturnOK
                  /\ CodeInv /\ SuccessInv
BY DEF CompilerInv, CodeInv, CodeOK, SuccessInv, StackDiscipline, OperandsFit, PositionsAscend

(* The types of what a running function reads.                             *)
LEMMA RunningTypes ==
  ASSUME CompilerInv, status = "running"
  PROVE  /\ source \in Seq(AllTokens) /\ Len(source) \in Nat
         /\ parser \in ParserSet(Len(source))
         /\ parser.current = Len(source) /\ parser.current > 0
         /\ parser.previous <= parser.current
         /\ parser.hadError <=> parser.state # "OK"
         /\ source[parser.current] \in AllTokens
         /\ frames \in Seq(FrameSet) /\ frames # <<>> /\ CallChain(frames)
         /\ Top \in FrameSet
         /\ chunk \in ChunkSet(Len(gcObjects)) /\ chunk.code \in Seq(Instructions)
         /\ Len(chunk.constants) \in Nat
<1>1. /\ source \in Seq(AllTokens) /\ parser \in ParserSet(Len(source))
      /\ frames \in Seq(FrameSet) /\ chunk \in ChunkSet(Len(gcObjects))
  BY DEF CompilerInv, TypeOK
<1>2. /\ parser.current = Len(source) /\ parser.current > 0
      /\ parser.previous <= parser.current
      /\ parser.hadError <=> parser.state # "OK"
      /\ frames # <<>> /\ CallChain(frames)
  BY DEF CompilerInv, ScanOK, FramesOK
<1>3. source[parser.current] \in AllTokens /\ Len(source) \in Nat
  BY <1>1, <1>2
<1>4. Top \in FrameSet
  BY <1>1, <1>2 DEF Top
<1>5. chunk.code \in Seq(Instructions) /\ Len(chunk.constants) \in Nat
  BY <1>1 DEF ChunkSet
<1> QED BY <1>1, <1>2, <1>3, <1>4, <1>5

(* What a compiler_advance, of a parser that may just have reported a      *)
(* syntax error, leaves.                                                   *)
Advanced ==
  /\ source' \in Seq(AllTokens)
  /\ Len(source') > 0
  /\ parser' \in ParserSet(Len(source'))
  /\ parser'.previous = parser.current
  /\ parser'.current = Len(source')
  /\ parser'.previous <= parser'.current
  /\ parser'.hadError <=> parser'.state # "OK"
  /\ parser.hadError => parser'.hadError

LEMMA AdvanceStep ==
  ASSUME CompilerInv, status = "running", NEW scan \in Scans,
         source' = source \o scan, parser' = CompilerAdvance(parser, scan)
  PROVE  Advanced
<1>1. TypeOK
  BY DEF CompilerInv
<1>2. /\ parser \in ParserSet(Len(source)) /\ parser.current = Len(source)
      /\ parser.current > 0 /\ (parser.hadError <=> parser.state # "OK")
  BY RunningTypes
<1> QED BY <1>1, <1>2, AdvanceFacts DEF Advanced

LEMMA ConsumeStep ==
  ASSUME CompilerInv, status = "running", NEW scan \in Scans, NEW type,
         source' = source \o scan, parser' = CompilerConsume(parser, type, scan)
  PROVE  Advanced /\ (~parser'.hadError => CurrentType = type)
<1> DEFINE p == IF CurrentType # type
                THEN CompilerErrorAt(parser, "SYNTAX", parser.current, CurrentType)
                ELSE parser
<1>1. TypeOK
  BY DEF CompilerInv
<1>2. /\ parser \in ParserSet(Len(source)) /\ parser.current = Len(source)
      /\ parser.current > 0 /\ (parser.hadError <=> parser.state # "OK")
      /\ Len(source) \in Nat
  BY RunningTypes
<1>3. /\ p \in ParserSet(Len(source)) /\ p.current = parser.current
      /\ (p.hadError <=> p.state # "OK") /\ (parser.hadError => p.hadError)
      /\ (CurrentType # type => p.hadError)
  <2>1. CASE CurrentType # type
    <3> DEFINE q == CompilerErrorAt(parser, "SYNTAX", parser.current, CurrentType)
    <3>1. /\ q \in ParserSet(Len(source)) /\ q.current = parser.current
          /\ (q.hadError <=> q.state # "OK") /\ q.hadError
      <4>1. parser.current \in Nat
        BY <1>2
      <4> QED BY <1>2, <4>1, ErrorAtFacts
    <3> QED BY <2>1, <3>1
  <2>2. CASE CurrentType = type
    BY <1>2, <2>2
  <2> QED BY <2>1, <2>2
<1>4. parser' = CompilerAdvance(p, scan)
  BY DEF CompilerConsume
<1> HIDE DEF p
<1>5. Advanced /\ (p.hadError => parser'.hadError)
  BY <1>1, <1>2, <1>3, <1>4, AdvanceFacts DEF Advanced
<1> QED BY <1>3, <1>5

(* A running step keeps the invariant when its parser, frames and code do. *)
LEMMA Assemble ==
  ASSUME CompilerInv, status = "running",
         status' \in {"running", "exit"}, sourceId' = sourceId,
         gcObjects' \in Seq(ObjectSet),
         Advanced \/ UNCHANGED <<source, parser>>,
         frames' \in Seq(FrameSet), CallChain(frames'), frames' # <<>>,
         chunk' \in ChunkSet(Len(gcObjects')), CodeInv',
         \A i \in 1..Len(chunk'.code) : chunk'.code[i].op # "RETURN",
         ~parser'.hadError /\ status' = "running" =>
            HeightAfter(chunk'.code) = HeightOnResume(frames'[Len(frames')])
  PROVE  CompilerInv'
<1>1. /\ source' \in Seq(AllTokens) /\ parser' \in ParserSet(Len(source'))
      /\ parser'.current = Len(source') /\ parser'.current > 0
      /\ parser'.previous <= parser'.current
      /\ (parser'.hadError <=> parser'.state # "OK")
  <2>1. CASE Advanced
    BY <2>1 DEF Advanced
  <2>2. CASE UNCHANGED <<source, parser>>
    BY <2>2, RunningTypes
  <2> QED BY <2>1, <2>2
<1>2. TypeOK'
  <2>1. sourceId' \in Nat
    BY DEF CompilerInv, TypeOK
  <2> QED BY <1>1, <2>1 DEF TypeOK
<1>3. FramesOK' /\ ScanOK'
  BY <1>1 DEF FramesOK, ScanOK
<1>4. HeightsOK' /\ ReturnOK' /\ SuccessInv'
  BY DEF HeightsOK, ReturnOK, SuccessInv, Top
<1>5. CompilerInv' <=> (/\ TypeOK /\ FramesOK /\ ScanOK /\ HeightsOK /\ ReturnOK
                        /\ CodeInv /\ SuccessInv)'
  BY InvParts, PTL
<1> QED BY <1>2, <1>3, <1>4, <1>5

-----------------------------------------------------------------------------
(* Steps that leave the code alone only have to keep frames and parser.    *)
LEMMA CodeUnchanged ==
  ASSUME CompilerInv, status = "running", UNCHANGED <<chunk, gcObjects, sourceId>>,
         Advanced \/ UNCHANGED <<source, parser>>
  PROVE  /\ chunk' \in ChunkSet(Len(gcObjects')) /\ CodeInv'
         /\ \A i \in 1..Len(chunk'.code) : chunk'.code[i].op # "RETURN"
<1>1. /\ parser \in ParserSet(Len(source)) /\ Len(source) \in Nat
      /\ parser.previous <= parser.current /\ parser.current > 0
      /\ chunk \in ChunkSet(Len(gcObjects)) /\ chunk.code \in Seq(Instructions)
      /\ Len(chunk.constants) \in Nat
  BY RunningTypes
<1>2. parser.previous \in Nat /\ parser.current \in Nat /\ parser.hadError \in BOOLEAN
  BY <1>1 DEF ParserSet
<1>3. /\ parser'.previous \in Nat /\ parser.previous <= parser'.previous
      /\ parser'.hadError \in BOOLEAN /\ (parser.hadError => parser'.hadError)
  <2>1. CASE Advanced
    BY <1>1, <1>2, <2>1 DEF Advanced, ParserSet
  <2>2. CASE UNCHANGED <<source, parser>>
    BY <1>2, <2>2
  <2> QED BY <2>1, <2>2
<1>4. CodeOK(chunk.code, Len(chunk.constants), parser.previous, ~parser.hadError)
  BY InvParts DEF CodeInv
<1>5. CodeOK(chunk.code, Len(chunk.constants), parser'.previous, ~parser'.hadError)
  BY <1>1, <1>2, <1>3, <1>4, CodeKept
<1>6. \A i \in 1..Len(chunk.code) : chunk.code[i].op # "RETURN"
  BY DEF CompilerInv, ReturnOK
<1>7. ConstantsOfSource'
  BY DEF CompilerInv, ConstantsOfSource
<1> QED BY <1>1, <1>5, <1>6, <1>7 DEF CodeInv

LEMMA HeightNow ==
  ASSUME CompilerInv, status = "running", ~parser.hadError
  PROVE  HeightAfter(chunk.code) = HeightOnResume(Top)
BY DEF CompilerInv, HeightsOK

LEMMA KeptObjects ==
  ASSUME CompilerInv, UNCHANGED gcObjects
  PROVE  gcObjects' \in Seq(ObjectSet)
BY DEF CompilerInv, TypeOK

(* Pushing two frames, the second called by the first.                     *)
LEMMA PushTwo ==
  ASSUME NEW fs \in Seq(FrameSet), CallChain(fs),
         NEW f \in FrameSet, NEW g \in FrameSet, Calls(f, g),
         IF fs = <<>> THEN f = CompileFrame ELSE Calls(fs[Len(fs)], f)
  PROVE  LET new == fs \o <<f, g>>
         IN  /\ new \in Seq(FrameSet) /\ CallChain(new) /\ new # <<>>
             /\ new[Len(new)] = g
<1> DEFINE one == Append(fs, f)
           two == Append(one, g)
<1>1. /\ CallChain(one) /\ one \in Seq(FrameSet) /\ one # <<>>
      /\ Len(one) = Len(fs) + 1 /\ one[Len(one)] = f
  BY ChainPush
<1>2. fs \o <<f, g>> = two
  <2>1. Len(fs) \in Nat /\ Len(fs \o <<f, g>>) = Len(fs) + 2 /\ Len(two) = Len(fs) + 2
    OBVIOUS
  <2>2. fs \o <<f, g>> \in Seq(FrameSet) /\ two \in Seq(FrameSet)
    OBVIOUS
  <2>3. ASSUME NEW i \in 1..Len(fs) + 2
        PROVE  (fs \o <<f, g>>)[i] = two[i]
    <3>1. CASE i \in 1..Len(fs)
      BY <3>1
    <3>2. CASE i = Len(fs) + 1
      BY <3>2
    <3>3. CASE i = Len(fs) + 2
      BY <3>3
    <3> QED BY <2>1, <3>1, <3>2, <3>3
  <2>4. /\ Len(fs \o <<f, g>>) = Len(two)
        /\ \A i \in 1..Len(fs \o <<f, g>>) : (fs \o <<f, g>>)[i] = two[i]
    BY <2>1, <2>3
  <2> HIDE DEF two
  <2> QED BY <2>2, <2>4, SeqEqual
<1> HIDE DEF one
<1>3. /\ CallChain(two) /\ two \in Seq(FrameSet) /\ two # <<>> /\ two[Len(two)] = g
  BY <1>1, ChainPush
<1> QED BY <1>2, <1>3

(* The frame of compiler_compile is the first one; it starts at height 0.  *)
LEMMA ProgramHeight ==
  ASSUME CompilerInv, status = "running", Top.fn = "compile"
  PROVE  Top.height = 0
<1>1. /\ frames \in Seq(FrameSet) /\ frames # <<>> /\ CallChain(frames) /\ Top \in FrameSet
  BY RunningTypes
<1>2. PICK n \in Nat : n = Len(frames) /\ n > 0
  BY <1>1
<1>3. CASE n = 1
  BY <1>1, <1>2, <1>3 DEF CallChain, Top, CompileFrame, Frame
<1>4. CASE n > 1
  <2>1. Calls(frames[n - 1], frames[n - 1 + 1]) /\ frames[n - 1] \in FrameSet
    BY <1>1, <1>2, <1>4 DEF CallChain
  <2>2. Calls(frames[n - 1], Top)
    BY <1>2, <2>1 DEF Top
  <2> QED BY <1>1, <2>1, <2>2, ReturnHeight
<1> QED BY <1>2, <1>3, <1>4

LEMMA StatementStep ==
  ASSUME CompilerInv, CompileStatement, UNCHANGED sourceId
  PROVE  CompilerInv'
<1>0. status = "running" /\ Top.fn = "compile"
  BY DEF CompileStatement, Running
<1>1. /\ frames \in Seq(FrameSet) /\ frames # <<>> /\ CallChain(frames) /\ Top \in FrameSet
  BY <1>0, RunningTypes
<1>2. Top.height = 0
  BY <1>0, ProgramHeight
<1>3. PICK type \in {"PRINT", "SEMICOLON"} :
        frames' = frames \o <<StatementFrame(type), HeadFrame(PRECEDENCE_ASSIGNMENT, 0)>>
  BY DEF CompileStatement
<1>4. Advanced \/ UNCHANGED <<source, parser>>
  <2>1. CASE CurrentType = "PRINT"
    BY <1>0, <2>1, AdvanceStep DEF CompileStatement
  <2>2. CASE CurrentType # "PRINT"
    BY <2>2 DEF CompileStatement
  <2> QED BY <2>1, <2>2
<1> DEFINE f == StatementFrame(type)
           g == HeadFrame(PRECEDENCE_ASSIGNMENT, 0)
<1>5. f \in FrameSet /\ g \in FrameSet
  BY DEF FrameSet, StatementFrame, HeadFrame, Frame, PRECEDENCE_ASSIGNMENT, Precedences,
         TokenTypes, Keywords
<1>6. Calls(Top, f) /\ Calls(f, g)
  BY <1>0, <1>2 DEF Calls, StatementFrame, HeadFrame, Frame
<1>7. HeightOnResume(g) = HeightOnResume(Top)
  BY <1>0, <1>2 DEF HeightOnResume, HeadFrame, Frame
<1> HIDE DEF f, g
<1>8. /\ frames' \in Seq(FrameSet) /\ CallChain(frames') /\ frames' # <<>>
      /\ frames'[Len(frames')] = g
  BY <1>1, <1>3, <1>5, <1>6, PushTwo DEF Top, f, g
<1>9. UNCHANGED <<status, chunk, gcObjects>>
  BY DEF CompileStatement
<1>10. parser.hadError => parser'.hadError
  BY <1>4 DEF Advanced
<1>11. ~parser'.hadError => HeightAfter(chunk'.code) = HeightOnResume(frames'[Len(frames')])
  BY <1>0, <1>7, <1>8, <1>9, <1>10, HeightNow
<1> QED BY <1>0, <1>4, <1>8, <1>9, <1>11, CodeUnchanged, KeptObjects, Assemble

-----------------------------------------------------------------------------
(* A step that emits one instruction at the position just advanced to.     *)
LEMMA EmitStep ==
  ASSUME CompilerInv, status = "running",
         NEW op \in Opcodes, NEW arg \in Nat,
         NEW pool \in Seq(NumberValues \cup ObjectValues(Len(gcObjects'))),
         ConstantsOfSource',
         Len(chunk.constants) <= Len(pool), OperandFits(op, arg, Len(pool)),
         chunk' = [code |-> Emit(chunk.code, op, arg, parser'.previous), constants |-> pool],
         Advanced \/ UNCHANGED <<source, parser>>,
         ~parser.hadError => HeightOnResume(Top) >= Pops(op)
  PROVE  /\ chunk' \in ChunkSet(Len(gcObjects')) /\ CodeInv'
         /\ op # "RETURN" =>
              \A i \in 1..Len(chunk'.code) : chunk'.code[i].op # "RETURN"
         /\ ~parser'.hadError =>
              HeightAfter(chunk'.code) = HeightOnResume(Top) - Pops(op) + Pushes(op)
         /\ chunk'.code # <<>> /\ chunk'.code[Len(chunk'.code)].op = op
         /\ \A i \in 1..Len(chunk'.code) - 1 : chunk'.code[i].op # "RETURN"
<1> DEFINE pos == parser'.previous
           code == chunk.code
           new == Emit(code, op, arg, pos)
<1>1. /\ code \in Seq(Instructions) /\ Len(chunk.constants) \in Nat
      /\ parser \in ParserSet(Len(source)) /\ Len(source) \in Nat
      /\ parser.previous <= parser.current
  BY RunningTypes
<1>2. /\ pos \in Nat /\ parser.previous \in Nat /\ parser.previous <= pos
      /\ (parser.hadError => parser'.hadError)
  <2>1. parser.previous \in Nat /\ parser.current \in Nat
    BY <1>1 DEF ParserSet
  <2>2. CASE Advanced
    BY <1>1, <2>1, <2>2 DEF Advanced
  <2>3. CASE UNCHANGED <<source, parser>>
    BY <2>1, <2>3
  <2> QED BY <2>2, <2>3
<1>3. /\ new \in Seq(Instructions) /\ Len(new) = Len(code) + 1 /\ new # <<>>
      /\ \A i \in 1..Len(code) : new[i] = code[i]
      /\ new[Len(code) + 1]
           = [op |-> op, arg |-> arg, pos |-> pos, height |-> HeightAfter(code)]
      /\ HeightAfter(new) = HeightAfter(code) - Pops(op) + Pushes(op)
  BY <1>1, <1>2, EmitFacts
<1>4. chunk'.code = new /\ chunk'.constants = pool /\ chunk' \in ChunkSet(Len(gcObjects'))
  <2> HIDE DEF new
  <2> QED BY <1>3 DEF ChunkSet, new
<1>5. ~parser'.hadError => HeightAfter(code) = HeightOnResume(Top)
  BY <1>2, HeightNow
<1>6. CodeOK(code, Len(chunk.constants), parser.previous, ~parser.hadError)
  BY InvParts DEF CodeInv
<1>7. CodeOK(new, Len(pool), pos, ~parser'.hadError)
  <2>1. Len(pool) \in Nat
    OBVIOUS
  <2>2. ~parser'.hadError => HeightAfter(code) >= Pops(op)
    BY <1>2, <1>5
  <2> HIDE DEF new, pos
  <2>3. CodeOK(Emit(code, op, arg, pos), Len(pool), pos, ~parser'.hadError)
    BY <1>1, <1>2, <1>6, <2>1, <2>2, CodeEmitted
  <2> QED BY <2>3 DEF new
<1>8. \A i \in 1..Len(code) : code[i].op # "RETURN"
  BY DEF CompilerInv, ReturnOK
<1>9. new[Len(code) + 1].op = op /\ Len(code) \in Nat
  BY <1>1, <1>3
<1> HIDE DEF new
<1>10. \A i \in 1..Len(new) - 1 : new[i].op # "RETURN"
  BY <1>3, <1>8, <1>9
<1>11. op # "RETURN" => \A i \in 1..Len(new) : new[i].op # "RETURN"
  <2>1. \A i \in 1..Len(new) : i \in 1..Len(code) \/ i = Len(code) + 1
    BY <1>3, <1>9
  <2> QED BY <1>3, <1>8, <1>9, <2>1
<1>12. new[Len(new)].op = op
  BY <1>3, <1>9
<1>13. CodeInv'
  BY <1>4, <1>7 DEF CodeInv
<1> QED BY <1>3, <1>4, <1>5, <1>10, <1>11, <1>12, <1>13

(* The simple opcodes: the pool is kept.                                   *)
LEMMA SimpleEmit ==
  ASSUME CompilerInv, status = "running", NEW op \in Opcodes \ ConstantOps, NEW pos,
         pos = parser'.previous,
         chunk' = [chunk EXCEPT !.code = Emit(@, op, 0, pos)],
         UNCHANGED <<gcObjects, sourceId>>,
         Advanced \/ UNCHANGED <<source, parser>>,
         ~parser.hadError => HeightOnResume(Top) >= Pops(op)
  PROVE  /\ chunk' \in ChunkSet(Len(gcObjects')) /\ CodeInv'
         /\ op # "RETURN" =>
              \A i \in 1..Len(chunk'.code) : chunk'.code[i].op # "RETURN"
         /\ ~parser'.hadError =>
              HeightAfter(chunk'.code) = HeightOnResume(Top) - Pops(op) + Pushes(op)
         /\ chunk'.code # <<>> /\ chunk'.code[Len(chunk'.code)].op = op
         /\ \A i \in 1..Len(chunk'.code) - 1 : chunk'.code[i].op # "RETURN"
<1>1. chunk \in ChunkSet(Len(gcObjects))
  BY RunningTypes
<1>2. chunk' = [code |-> Emit(chunk.code, op, 0, parser'.previous),
                constants |-> chunk.constants]
  BY <1>1 DEF ChunkSet
<1>3. /\ chunk.constants \in Seq(NumberValues \cup ObjectValues(Len(gcObjects')))
      /\ Len(chunk.constants) <= Len(chunk.constants)
  BY <1>1 DEF ChunkSet
<1>5. ConstantsOfSource'
  BY <1>2 DEF CompilerInv, ConstantsOfSource
<1>4. OperandFits(op, 0, Len(chunk.constants)) /\ op \in Opcodes /\ 0 \in Nat
  BY DEF OperandFits
<1> QED BY <1>2, <1>3, <1>4, <1>5, EmitStep

LEMMA PoolLimitType == PoolLimit \in Nat /\ ByteStates \in Nat
<1>1. ByteStates \in Nat
  BY ByteAssumption
<1>2. \A n \in Nat : n * n \in Nat
  OBVIOUS
<1> QED BY <1>1, <1>2 DEF PoolLimit

(* The list of objects only grows during a compilation.                    *)
ObjectsGrow ==
  /\ gcObjects' \in Seq(ObjectSet)
  /\ Len(gcObjects) <= Len(gcObjects')
  /\ \A o \in 1..Len(gcObjects) : gcObjects'[o] = gcObjects[o]

(* Loading a constant, when the pool is not full.                          *)
LEMMA ConstantEmit ==
  ASSUME CompilerInv, status = "running", NEW pos, pos = parser'.previous,
         ObjectsGrow, UNCHANGED sourceId,
         NEW value \in NumberValues \cup ObjectValues(Len(gcObjects')),
         value.kind = "object" => gcObjects'[value.object].origin = sourceId,
         chunk' = AppendConstant(value, pos), Advanced,
         Top.fn = "head"
  PROVE  /\ chunk' \in ChunkSet(Len(gcObjects')) /\ CodeInv'
         /\ \A i \in 1..Len(chunk'.code) : chunk'.code[i].op # "RETURN"
         /\ ~parser'.hadError /\ Len(chunk.constants) < PoolLimit =>
              HeightAfter(chunk'.code) = HeightOnResume(Top) + 1
<1> DEFINE index == Len(chunk.constants)
           Constants == NumberValues \cup ObjectValues(Len(gcObjects'))
           pool == Append(chunk.constants, value)
           op == ConstantOp(index)
<1>0. gcObjects \in Seq(ObjectSet) /\ Len(gcObjects) \in Nat /\ Len(gcObjects') \in Nat
  BY DEF CompilerInv, TypeOK, ObjectsGrow
<1>1. /\ chunk \in ChunkSet(Len(gcObjects)) /\ index \in Nat /\ Top \in FrameSet
      /\ chunk.code \in Seq(Instructions)
      /\ parser \in ParserSet(Len(source)) /\ Len(source) \in Nat
      /\ parser.previous <= parser.current
  BY RunningTypes
<1>2. chunk.constants \in Seq(Constants)
  <2>1. chunk.constants \in Seq(NumberValues \cup ObjectValues(Len(gcObjects)))
    BY <1>1 DEF ChunkSet
  <2>2. NumberValues \cup ObjectValues(Len(gcObjects)) \subseteq Constants
    BY <1>0 DEF ObjectsGrow, ObjectValues
  <2> HIDE DEF Constants
  <2> QED BY <2>1, <2>2
<1>3. /\ pool \in Seq(Constants) /\ Len(pool) = index + 1 /\ index <= Len(pool)
      /\ \A i \in 1..index : pool[i] = chunk.constants[i]
      /\ pool[index + 1] = value
  <2> HIDE DEF Constants
  <2> QED BY <1>1, <1>2 DEF Constants
<1>9. \A i \in 1..Len(pool) :
        pool[i].kind = "object" => gcObjects'[pool[i].object].origin = sourceId
  <2>1. ASSUME NEW i \in 1..Len(pool), pool[i].kind = "object"
        PROVE  gcObjects'[pool[i].object].origin = sourceId
    <3>1. CASE i \in 1..index
      <4>1. chunk.constants[i] \in NumberValues \cup ObjectValues(Len(gcObjects))
        BY <1>1, <3>1 DEF ChunkSet
      <4>2. pool[i] = chunk.constants[i]
        BY <1>3, <3>1
      <4>3. chunk.constants[i].object \in 1..Len(gcObjects)
        BY <2>1, <4>1, <4>2 DEF NumberValues, ObjectValues
      <4>4. gcObjects[chunk.constants[i].object].origin = sourceId
        BY <2>1, <3>1, <4>2 DEF CompilerInv, ConstantsOfSource
      <4> HIDE DEF pool, index
      <4> QED BY <4>2, <4>3, <4>4 DEF ObjectsGrow
    <3>2. CASE i = index + 1
      BY <1>3, <2>1, <3>2
    <3> QED BY <1>1, <1>3, <3>1, <3>2
  <2> QED BY <2>1
<1>10. chunk'.constants = pool => ConstantsOfSource'
  BY <1>9 DEF ConstantsOfSource
<1>4. HeightOnResume(Top) \in Nat
  BY <1>1 DEF HeightOnResume, FrameSet
<1>5. CASE index < PoolLimit
  <2>1. op \in Opcodes /\ op \in ConstantOps /\ Pops(op) = 0 /\ Pushes(op) = 1 /\ op # "RETURN"
    BY DEF ConstantOp, Opcodes, ConstantOps, Pops, Pushes, BinaryOps, UnaryOps, DiscardOps
  <2>2. PoolLimit \in Nat /\ ByteStates \in Nat
    BY PoolLimitType
  <2>3. OperandFits(op, index, Len(pool))
    <3>1. index < Len(pool)
      BY <1>1, <1>3
    <3>2. index < IF op = "CONSTANT" THEN ByteStates ELSE PoolLimit
      BY <1>1, <1>5, <2>2 DEF ConstantOp
    <3> HIDE DEF op, index, pool
    <3> QED BY <3>1, <3>2 DEF OperandFits
  <2>4. chunk' = [code |-> Emit(chunk.code, op, index, parser'.previous), constants |-> pool]
    <3>1. ~(Len(chunk.constants) >= PoolLimit)
      BY <1>1, <1>5, <2>2
    <3> QED BY <3>1, Zenon DEF AppendConstant
  <2>5. HeightOnResume(Top) >= Pops(op)
    BY <1>4, <2>1
  <2>7. index \in Nat /\ index <= Len(pool) /\ Advanced
    BY <1>1, <1>3
  <2> HIDE DEF op, pool, index
  <2>6. /\ chunk' \in ChunkSet(Len(gcObjects')) /\ CodeInv'
        /\ \A i \in 1..Len(chunk'.code) : chunk'.code[i].op # "RETURN"
        /\ ~parser'.hadError =>
             HeightAfter(chunk'.code) = HeightOnResume(Top) - Pops(op) + Pushes(op)
    <3>1. Len(chunk.constants) <= Len(pool)
      BY <2>7 DEF index
    <3>2. ConstantsOfSource'
      BY <1>10, <2>4
    <3> QED BY <1>3, <2>1, <2>3, <2>4, <2>5, <2>7, <3>1, <3>2, EmitStep
  <2> QED BY <1>4, <2>1, <2>6
<1>6. CASE ~(index < PoolLimit)
  <2>1. PoolLimit \in Nat
    BY PoolLimitType
  <2>2. chunk' = [code |-> chunk.code, constants |-> pool]
    <3>1. Len(chunk.constants) >= PoolLimit
      BY <1>1, <1>6, <2>1
    <3> QED BY <3>1, Zenon DEF AppendConstant
  <2>3. chunk' \in ChunkSet(Len(gcObjects')) /\ chunk'.code = chunk.code /\ chunk'.constants = pool
    BY <1>1, <1>3, <2>2 DEF ChunkSet
  <2>4. CodeOK(chunk.code, index, parser.previous, ~parser.hadError)
    BY InvParts DEF CodeInv
  <2>5. /\ parser'.previous \in Nat /\ parser.previous \in Nat
        /\ parser.previous <= parser'.previous /\ (parser.hadError => parser'.hadError)
    <3>1. parser.previous \in Nat /\ parser.current \in Nat
      BY <1>1 DEF ParserSet
    <3> QED BY <1>1, <3>1 DEF Advanced
  <2>6. CodeOK(chunk.code, Len(pool), parser'.previous, ~parser'.hadError)
    <3>1. Len(pool) \in Nat
      BY <1>1, <1>3
    <3> HIDE DEF pool, index
    <3> QED BY <1>1, <1>3, <2>4, <2>5, <3>1, CodeKept
  <2>7. CodeInv'
    BY <1>10, <2>3, <2>6 DEF CodeInv
  <2>8. \A i \in 1..Len(chunk.code) : chunk.code[i].op # "RETURN"
    BY DEF CompilerInv, ReturnOK
  <2> QED BY <1>6, <2>3, <2>7, <2>8
<1> QED BY <1>5, <1>6

-----------------------------------------------------------------------------
(* The operand-stack heights at which the kinds of frames resume.          *)
LEMMA OperandHeights ==
  ASSUME NEW f \in FrameSet
  PROVE  /\ f.height \in Nat
         /\ f.fn \in {"compile", "head"} => HeightOnResume(f) = f.height
         /\ f.fn = "binary" => HeightOnResume(f) = f.height + 2
         /\ f.fn \in {"stmt", "tail", "unary", "grouping"} =>
              HeightOnResume(f) = f.height + 1
BY DEF HeightOnResume, FrameSet

(* Returning from a frame other than compiler_compile's.                   *)
LEMMA FrameReturns ==
  ASSUME CompilerInv, status = "running", frames' = Callers, Top.fn # "compile"
  PROVE  /\ frames' \in Seq(FrameSet) /\ CallChain(frames') /\ frames' # <<>>
         /\ HeightOnResume(frames'[Len(frames')])
              = IF Top.fn = "stmt" THEN Top.height ELSE Top.height + 1
<1>1. /\ frames \in Seq(FrameSet) /\ CallChain(frames) /\ frames # <<>> /\ Top \in FrameSet
  BY RunningTypes
<1>2. /\ CallChain(Callers) /\ Callers \in Seq(FrameSet)
      /\ IF Callers = <<>> THEN Top = CompileFrame ELSE Calls(Callers[Len(Callers)], Top)
      /\ Callers # <<>> => Callers[Len(Callers)] \in FrameSet
  BY <1>1, ChainPop DEF Callers, Top
<1>3. Callers # <<>>
  BY <1>2 DEF CompileFrame, Frame
<1> QED BY <1>1, <1>2, <1>3, ReturnHeight

(* The frame of a head token becomes that of its tail, which may call on.  *)
LEMMA HeadToTail ==
  ASSUME CompilerInv, status = "running", Top.fn = "head"
  PROVE  LET tail == TailFrame(Top.precedence, Top.height)
         IN  /\ tail \in FrameSet
             /\ Append(Callers, tail) \in Seq(FrameSet)
             /\ CallChain(Append(Callers, tail))
             /\ Append(Callers, tail) # <<>>
             /\ Append(Callers, tail)[Len(Append(Callers, tail))] = tail
             /\ ReplaceTop(<<tail>>) = Append(Callers, tail)
             /\ Callers \in Seq(FrameSet)
<1> DEFINE tail == TailFrame(Top.precedence, Top.height)
<1>1. /\ frames \in Seq(FrameSet) /\ CallChain(frames) /\ frames # <<>> /\ Top \in FrameSet
  BY RunningTypes
<1>2. /\ CallChain(Callers) /\ Callers \in Seq(FrameSet)
      /\ IF Callers = <<>> THEN Top = CompileFrame ELSE Calls(Callers[Len(Callers)], Top)
      /\ Callers # <<>> => Callers[Len(Callers)] \in FrameSet
  BY <1>1, ChainPop DEF Callers, Top
<1>3. Callers # <<>>
  BY <1>2 DEF CompileFrame, Frame
<1>4. tail \in FrameSet /\ tail.fn = "tail" /\ tail.height = Top.height
  BY <1>1 DEF TailFrame, Frame, FrameSet
<1>5. Calls(Callers[Len(Callers)], tail)
  <2>1. Calls(Callers[Len(Callers)], Top)
    BY <1>2, <1>3
  <2>2. Callers[Len(Callers)].fn \in
          {"compile", "stmt", "head", "tail", "unary", "binary", "grouping"}
    BY <1>2, <1>3 DEF FrameSet
  <2> HIDE DEF tail
  <2> QED BY <1>4, <2>1, <2>2 DEF Calls
<1> HIDE DEF tail
<1>6. /\ CallChain(Append(Callers, tail)) /\ Append(Callers, tail) \in Seq(FrameSet)
      /\ Append(Callers, tail) # <<>>
      /\ Append(Callers, tail)[Len(Append(Callers, tail))] = tail
  BY <1>2, <1>3, <1>4, <1>5, ChainPush
<1>7. ReplaceTop(<<tail>>) = Append(Callers, tail)
  <2>1. Callers \o <<tail>> = Append(Callers, tail)
    BY <1>2, <1>4, AppendIsConcat
  <2> QED BY <2>1 DEF ReplaceTop
<1> QED BY <1>2, <1>4, <1>6, <1>7 DEF tail

(* A prefix operator or a grouping: the tail waits for the handler, which  *)
(* waits for its operand.                                                  *)
LEMMA HeadToOperand ==
  ASSUME CompilerInv, status = "running", Top.fn = "head",
         NEW f \in FrameSet, NEW precedence \in Precedences,
         f.fn \in {"unary", "grouping"}, f.height = Top.height,
         frames' = ReplaceTop(<<TailFrame(Top.precedence, Top.height), f,
                                HeadFrame(precedence, Top.height)>>)
  PROVE  /\ frames' \in Seq(FrameSet) /\ CallChain(frames') /\ frames' # <<>>
         /\ HeightOnResume(frames'[Len(frames')]) = HeightOnResume(Top)
<1> DEFINE tail == TailFrame(Top.precedence, Top.height)
           g == HeadFrame(precedence, Top.height)
           base == Append(Callers, tail)
<1>1. /\ tail \in FrameSet /\ base \in Seq(FrameSet) /\ CallChain(base) /\ base # <<>>
      /\ base[Len(base)] = tail /\ Callers \in Seq(FrameSet)
  BY HeadToTail
<1>2. Top \in FrameSet
  BY RunningTypes
<1>3. g \in FrameSet /\ g.fn = "head" /\ g.height = Top.height
  BY <1>2 DEF FrameSet, HeadFrame, Frame
<1>4. tail.fn = "tail" /\ tail.height = Top.height
  BY DEF TailFrame, Frame
<1>5. Calls(tail, f) /\ Calls(f, g)
  <2> HIDE DEF tail, g
  <2> QED BY <1>3, <1>4 DEF Calls
<1>6. frames' = base \o <<f, g>>
  <2> HIDE DEF tail, g
  <2>1. Callers \o <<tail, f, g>> = Append(Callers, tail) \o <<f, g>>
    <3>1. /\ Callers \o <<tail, f, g>> \in Seq(FrameSet)
          /\ Append(Callers, tail) \o <<f, g>> \in Seq(FrameSet)
          /\ Len(Callers \o <<tail, f, g>>) = Len(Callers) + 3
          /\ Len(Append(Callers, tail) \o <<f, g>>) = Len(Callers) + 3
          /\ Len(Callers) \in Nat
      BY <1>1, <1>3
    <3>2. ASSUME NEW i \in 1..Len(Callers) + 3
          PROVE  (Callers \o <<tail, f, g>>)[i] = (Append(Callers, tail) \o <<f, g>>)[i]
      <4>1. CASE i \in 1..Len(Callers)
        BY <1>1, <1>3, <4>1
      <4>2. CASE i = Len(Callers) + 1
        BY <1>1, <1>3, <4>2
      <4>3. CASE i = Len(Callers) + 2
        BY <1>1, <1>3, <4>3
      <4>4. CASE i = Len(Callers) + 3
        BY <1>1, <1>3, <4>4
      <4> QED BY <3>1, <4>1, <4>2, <4>3, <4>4
    <3> QED BY <3>1, <3>2, SeqEqual
  <2>2. frames' = Callers \o <<tail, f, g>>
    BY DEF ReplaceTop, tail, g
  <2> QED BY <2>1, <2>2
<1> HIDE DEF base, g, tail
<1>7. /\ frames' \in Seq(FrameSet) /\ CallChain(frames') /\ frames' # <<>>
      /\ frames'[Len(frames')] = g
  <2>1. IF base = <<>> THEN f = CompileFrame ELSE Calls(base[Len(base)], f)
    BY <1>1, <1>5
  <2>2. LET new == base \o <<f, g>>
        IN  /\ new \in Seq(FrameSet) /\ CallChain(new) /\ new # <<>>
            /\ new[Len(new)] = g
    BY <1>1, <1>3, <1>5, <2>1, PushTwo
  <2> QED BY <1>6, <2>2
<1>8. HeightOnResume(g) = HeightOnResume(Top)
  BY <1>2, <1>3, OperandHeights
<1> QED BY <1>7, <1>8

-----------------------------------------------------------------------------
(* One lemma per action.                                                   *)

LEMMA TailStep ==
  ASSUME CompilerInv, CompileTail, UNCHANGED sourceId
  PROVE  CompilerInv'
<1> DEFINE f == BinaryFrame(CurrentType, Top.height, parser.current)
           g == HeadFrame(RightOperandPrecedence(CurrentType), Top.height + 1)
<1>1. /\ status = "running" /\ Top.fn = "tail"
      /\ PrecedenceOf(CurrentType) >= Top.precedence
      /\ frames' = frames \o <<f, g>>
      /\ UNCHANGED <<status, chunk, gcObjects>>
  BY DEF CompileTail, Running
<1>2. Advanced
  BY <1>1, AdvanceStep DEF CompileTail
<1>3. /\ frames \in Seq(FrameSet) /\ CallChain(frames) /\ frames # <<>>
      /\ Top \in FrameSet /\ CurrentType \in TokenTypes \cup {"EOF", "ERROR"}
  <2>1. source[parser.current] \in AllTokens
    BY <1>1, RunningTypes
  <2>2. source[parser.current].type \in TokenTypes \cup {"EOF", "ERROR"}
    BY <2>1, TokensAssumption DEF AllTokens, EofToken, ErrorToken
  <2> QED BY <1>1, <2>2, RunningTypes DEF CurrentType
<1>4. RightOperandPrecedence(CurrentType) \in Precedences
  BY DEF RightOperandPrecedence, PrecedenceOf, Precedences, PRECEDENCE_NONE,
         PRECEDENCE_EQUALITY, PRECEDENCE_COMPARISON, PRECEDENCE_CONCATENATION,
         PRECEDENCE_TERM, PRECEDENCE_FACTOR
<1>5. Top.height \in Nat
  BY <1>3, OperandHeights
<1>6. /\ g \in FrameSet /\ g.fn = "head" /\ g.height = Top.height + 1
      /\ f \in FrameSet /\ f.fn = "binary" /\ f.height = Top.height
  <2>1. parser.current \in Nat
    BY <1>1, RunningTypes
  <2> QED BY <1>3, <1>4, <1>5, <2>1 DEF FrameSet, HeadFrame, BinaryFrame, Frame, Precedences
<1> HIDE DEF f, g
<1>7. Calls(Top, f) /\ Calls(f, g)
  BY <1>1, <1>6 DEF Calls
<1>8. /\ frames' \in Seq(FrameSet) /\ CallChain(frames') /\ frames' # <<>>
      /\ frames'[Len(frames')] = g
  BY <1>1, <1>3, <1>6, <1>7, PushTwo DEF Top
<1>9. HeightOnResume(g) = HeightOnResume(Top)
  BY <1>1, <1>3, <1>6, OperandHeights
<1>10. ~parser'.hadError => HeightAfter(chunk'.code) = HeightOnResume(frames'[Len(frames')])
  BY <1>1, <1>2, <1>8, <1>9, HeightNow DEF Advanced
<1> QED BY <1>1, <1>2, <1>8, <1>10, CodeUnchanged, KeptObjects, Assemble

LEMMA TailEndStep ==
  ASSUME CompilerInv, CompileTailEnd, UNCHANGED sourceId
  PROVE  CompilerInv'
<1>1. /\ status = "running" /\ Top.fn = "tail" /\ frames' = Callers
      /\ UNCHANGED <<source, parser, status, chunk, gcObjects>>
  BY DEF CompileTailEnd, Running
<1>2. /\ frames' \in Seq(FrameSet) /\ CallChain(frames') /\ frames' # <<>>
      /\ HeightOnResume(frames'[Len(frames')]) = Top.height + 1
  BY <1>1, FrameReturns
<1>3. Top \in FrameSet
  BY <1>1, RunningTypes
<1>4. ~parser'.hadError => HeightAfter(chunk'.code) = HeightOnResume(frames'[Len(frames')])
  BY <1>1, <1>2, <1>3, OperandHeights, HeightNow
<1> QED BY <1>1, <1>2, <1>4, CodeUnchanged, KeptObjects, Assemble

LEMMA OperatorStep ==
  ASSUME CompilerInv, CompileOperator, UNCHANGED sourceId
  PROVE  CompilerInv'
<1> DEFINE op == IF Top.fn = "unary" THEN UnaryOpOf(Top.operator)
                                     ELSE BinaryOpOf(Top.operator)
<1>1. /\ status = "running" /\ Top.fn \in {"unary", "binary"} /\ frames' = Callers
      /\ UNCHANGED <<source, parser, status, gcObjects>>
      /\ chunk' = [chunk EXCEPT !.code = Emit(@, op, 0, parser.previous)]
  BY DEF CompileOperator, Running
<1>2. /\ op \in Opcodes \ ConstantOps /\ op # "RETURN" /\ Pushes(op) = 1
      /\ Pops(op) = IF Top.fn = "unary" THEN 1 ELSE 2
  BY DEF UnaryOpOf, BinaryOpOf, Opcodes, BinaryOps, UnaryOps, DiscardOps, ConstantOps,
         Pops, Pushes
<1> HIDE DEF op
<1>3. /\ frames' \in Seq(FrameSet) /\ CallChain(frames') /\ frames' # <<>>
      /\ HeightOnResume(frames'[Len(frames')]) = Top.height + 1
  BY <1>1, FrameReturns
<1>4. Top \in FrameSet
  BY <1>1, RunningTypes
<1>5. /\ HeightOnResume(Top) >= Pops(op)
      /\ HeightOnResume(Top) - Pops(op) + Pushes(op) = Top.height + 1
  BY <1>1, <1>2, <1>4, OperandHeights
<1>6. parser.previous = parser'.previous
  BY <1>1
<1>7. /\ chunk' \in ChunkSet(Len(gcObjects')) /\ CodeInv'
      /\ \A i \in 1..Len(chunk'.code) : chunk'.code[i].op # "RETURN"
      /\ ~parser'.hadError =>
           HeightAfter(chunk'.code) = HeightOnResume(Top) - Pops(op) + Pushes(op)
  BY <1>1, <1>2, <1>5, <1>6, SimpleEmit
<1> QED BY <1>1, <1>3, <1>5, <1>7, KeptObjects, Assemble

LEMMA GroupingEndStep ==
  ASSUME CompilerInv, CompileGroupingEnd, UNCHANGED sourceId
  PROVE  CompilerInv'
<1>1. /\ status = "running" /\ Top.fn = "grouping" /\ frames' = Callers
      /\ UNCHANGED <<status, chunk, gcObjects>>
  BY DEF CompileGroupingEnd, Running
<1>2. Advanced
  BY <1>1, ConsumeStep DEF CompileGroupingEnd
<1>3. /\ frames' \in Seq(FrameSet) /\ CallChain(frames') /\ frames' # <<>>
      /\ HeightOnResume(frames'[Len(frames')]) = Top.height + 1
  BY <1>1, FrameReturns
<1>4. Top \in FrameSet
  BY <1>1, RunningTypes
<1>5. ~parser'.hadError => HeightAfter(chunk'.code) = HeightOnResume(frames'[Len(frames')])
  BY <1>1, <1>2, <1>3, <1>4, OperandHeights, HeightNow DEF Advanced
<1> QED BY <1>1, <1>2, <1>3, <1>5, CodeUnchanged, KeptObjects, Assemble

LEMMA StatementEndStep ==
  ASSUME CompilerInv, CompileStatementEnd, UNCHANGED sourceId
  PROVE  CompilerInv'
<1> DEFINE op == IF Top.operator = "PRINT" THEN "PRINT" ELSE "POP"
<1>1. /\ status = "running" /\ Top.fn = "stmt" /\ frames' = Callers
      /\ UNCHANGED <<status, gcObjects>>
      /\ chunk' = [chunk EXCEPT !.code = Emit(@, op, 0, parser.current)]
  BY DEF CompileStatementEnd, Running
<1>2. Advanced
  BY <1>1, ConsumeStep DEF CompileStatementEnd
<1>3. op \in Opcodes \ ConstantOps /\ op # "RETURN" /\ Pushes(op) = 0 /\ Pops(op) = 1
  BY DEF Opcodes, BinaryOps, UnaryOps, DiscardOps, ConstantOps, Pops, Pushes
<1> HIDE DEF op
<1>4. /\ frames' \in Seq(FrameSet) /\ CallChain(frames') /\ frames' # <<>>
      /\ HeightOnResume(frames'[Len(frames')]) = Top.height
  BY <1>1, FrameReturns
<1>5. Top \in FrameSet
  BY <1>1, RunningTypes
<1>6. /\ HeightOnResume(Top) >= Pops(op)
      /\ HeightOnResume(Top) - Pops(op) + Pushes(op) = Top.height
  BY <1>1, <1>3, <1>5, OperandHeights
<1>7. parser.current = parser'.previous
  BY <1>2 DEF Advanced
<1>8. /\ chunk' \in ChunkSet(Len(gcObjects')) /\ CodeInv'
      /\ \A i \in 1..Len(chunk'.code) : chunk'.code[i].op # "RETURN"
      /\ ~parser'.hadError =>
           HeightAfter(chunk'.code) = HeightOnResume(Top) - Pops(op) + Pushes(op)
  BY <1>1, <1>2, <1>3, <1>6, <1>7, SimpleEmit
<1> QED BY <1>1, <1>2, <1>4, <1>6, <1>8, KeptObjects, Assemble

LEMMA EndStep ==
  ASSUME CompilerInv, CompileEnd, UNCHANGED sourceId
  PROVE  CompilerInv'
<1>1. /\ status = "running" /\ Top.fn = "compile" /\ CurrentType = "EOF"
      /\ parser' = CompilerAdvance(parser, <<>>) /\ frames' = Callers
      /\ UNCHANGED <<source, gcObjects>> /\ status' = CompilerStatus(parser')
      /\ chunk' = [chunk EXCEPT !.code = Emit(@, "RETURN", 0, parser'.previous)]
  BY DEF CompileEnd, Running
<1>2. /\ frames \in Seq(FrameSet) /\ CallChain(frames) /\ frames # <<>> /\ Top \in FrameSet
      /\ source \in Seq(AllTokens) /\ parser.current > 0
  BY <1>1, RunningTypes
<1>3. Advanced
  <2>1. <<>> \in Scans
    BY <1>1, <1>2 DEF Scans, AtEof
  <2>2. source' = source \o <<>>
    BY <1>1, <1>2
  <2> QED BY <1>1, <2>1, <2>2, AdvanceStep
<1>4. frames' \in Seq(FrameSet) /\ CallChain(frames')
  BY <1>1, <1>2, ChainPop DEF Callers
<1>5. "RETURN" \in Opcodes \ ConstantOps /\ Pops("RETURN") = 0 /\ Pushes("RETURN") = 0
  BY DEF Opcodes, ConstantOps, Pops, Pushes, BinaryOps, UnaryOps, DiscardOps
<1>6. HeightOnResume(Top) = Top.height /\ Top.height \in Nat
  BY <1>1, <1>2, OperandHeights
<1>7. /\ chunk' \in ChunkSet(Len(gcObjects')) /\ CodeInv'
      /\ ~parser'.hadError =>
           HeightAfter(chunk'.code) = HeightOnResume(Top) - Pops("RETURN") + Pushes("RETURN")
      /\ chunk'.code # <<>> /\ chunk'.code[Len(chunk'.code)].op = "RETURN"
      /\ \A i \in 1..Len(chunk'.code) - 1 : chunk'.code[i].op # "RETURN"
  BY <1>1, <1>3, <1>5, <1>6, SimpleEmit
<1>8. Top.height = 0
  BY <1>1, <1>2, ProgramHeight
<1>9. /\ status' \in {"success", "failure", "unexpected_eof"}
      /\ status' = "success" => ~parser'.hadError
  BY <1>1 DEF CompilerStatus
<1>10. SuccessInv'
  BY <1>5, <1>6, <1>7, <1>8, <1>9 DEF SuccessInv
<1>11. TypeOK'
  <2>1. sourceId' \in Nat /\ gcObjects' \in Seq(ObjectSet)
    BY <1>1 DEF CompilerInv, TypeOK
  <2> QED BY <1>3, <1>4, <1>7, <1>9, <2>1 DEF Advanced, TypeOK
<1>12. /\ FramesOK' /\ ScanOK' /\ HeightsOK' /\ ReturnOK'
  BY <1>3, <1>4, <1>9 DEF FramesOK, ScanOK, HeightsOK, ReturnOK, Advanced
<1>13. CompilerInv' <=> (/\ TypeOK /\ FramesOK /\ ScanOK /\ HeightsOK /\ ReturnOK
                         /\ CodeInv /\ SuccessInv)'
  BY InvParts, PTL
<1> QED BY <1>7, <1>10, <1>11, <1>12, <1>13

LEMMA ConstantStep ==
  ASSUME CompilerInv, UNCHANGED sourceId, Advanced,
         status = "running", Top.fn = "head",
         NEW value \in NumberValues \cup ObjectValues(Len(gcObjects')),
         value.kind = "object" => gcObjects'[value.object].origin = sourceId,
         chunk' = AppendConstant(value, parser.current),
         status' = ConstantStatus,
         ObjectsGrow,
         frames' \in Seq(FrameSet), CallChain(frames'), frames' # <<>>,
         HeightOnResume(frames'[Len(frames')]) = HeightOnResume(Top) + 1
  PROVE  CompilerInv'
<1>1. parser.current = parser'.previous
  BY DEF Advanced
<1>2. /\ chunk' \in ChunkSet(Len(gcObjects')) /\ CodeInv'
      /\ \A i \in 1..Len(chunk'.code) : chunk'.code[i].op # "RETURN"
      /\ ~parser'.hadError /\ Len(chunk.constants) < PoolLimit =>
           HeightAfter(chunk'.code) = HeightOnResume(Top) + 1
  BY <1>1, ConstantEmit
<1>3. /\ status' \in {"running", "exit"}
      /\ status' = "running" => Len(chunk.constants) < PoolLimit
  <2>1. Len(chunk.constants) \in Nat
    BY RunningTypes
  <2> QED BY <2>1, PoolLimitType DEF ConstantStatus
<1>4. gcObjects' \in Seq(ObjectSet)
  BY DEF ObjectsGrow
<1> QED BY <1>2, <1>3, <1>4, Assemble

(* A literal's handler: what it emits, and the object a string makes.      *)
LEMMA LiteralStep ==
  ASSUME CompilerInv, UNCHANGED sourceId, Advanced,
         status = "running", Top.fn = "head",
         NEW token \in AllTokens,
         Nud(token.type) \in {"compile_invariable_literal", "compile_numeric_literal",
                              "compile_string_literal"},
         CompileLiteral(token, parser.current)
  PROVE  CompilerInv'
<1> DEFINE tail == TailFrame(Top.precedence, Top.height)
<1>1. frames' = ReplaceTop(<<tail>>)
  BY DEF CompileLiteral
<1>2. /\ frames' \in Seq(FrameSet) /\ CallChain(frames') /\ frames' # <<>>
      /\ frames'[Len(frames')] = tail
  BY <1>1, HeadToTail
<1>3. /\ HeightOnResume(tail) = Top.height + 1 /\ HeightOnResume(Top) = Top.height
      /\ Top.height \in Nat /\ Top \in FrameSet
  <2>1. Top \in FrameSet
    BY RunningTypes
  <2>2. tail \in FrameSet /\ tail.fn = "tail" /\ tail.height = Top.height
    BY HeadToTail DEF TailFrame, Frame
  <2> HIDE DEF tail
  <2> QED BY <2>1, <2>2, OperandHeights
<1>4. parser.current = parser'.previous
  BY DEF Advanced
<1> HIDE DEF tail
<1>5. token.type \notin {"EOF", "ERROR"}
  BY DEF Nud
<1>6. token \in Tokens
  BY <1>5 DEF AllTokens, EofToken, ErrorToken
<1>7. CASE Nud(token.type) = "compile_invariable_literal"
  <2>1. /\ chunk' = [chunk EXCEPT !.code = Emit(@, token.type, 0, parser.current)]
        /\ UNCHANGED <<gcObjects, status>>
    BY <1>7 DEF CompileLiteral
  <2>2. token.type \in InvariableOps
    BY <1>7 DEF Nud, InvariableOps
  <2>3. /\ token.type \in Opcodes \ ConstantOps /\ token.type # "RETURN"
        /\ Pops(token.type) = 0 /\ Pushes(token.type) = 1
    BY <2>2 DEF Opcodes, InvariableOps, BinaryOps, UnaryOps, DiscardOps, ConstantOps,
                Pops, Pushes
  <2>4. /\ chunk' \in ChunkSet(Len(gcObjects')) /\ CodeInv'
        /\ \A i \in 1..Len(chunk'.code) : chunk'.code[i].op # "RETURN"
        /\ ~parser'.hadError =>
             HeightAfter(chunk'.code)
               = HeightOnResume(Top) - Pops(token.type) + Pushes(token.type)
    BY <1>3, <1>4, <2>1, <2>3, SimpleEmit
  <2> QED BY <1>2, <1>3, <2>1, <2>3, <2>4, KeptObjects, Assemble
<1>8. CASE Nud(token.type) = "compile_numeric_literal"
  <2>1. UNCHANGED gcObjects
    BY <1>8 DEF CompileLiteral
  <2>2. CASE token.literal = OutOfRange
    <3>1. status' = "exit" /\ UNCHANGED chunk
      BY <1>8, <2>2 DEF CompileLiteral
    <3> QED BY <1>2, <2>1, <3>1, CodeUnchanged, KeptObjects, Assemble
  <2>3. CASE token.literal # OutOfRange
    <3>1. chunk' = AppendConstant(token.literal, parser.current) /\ status' = ConstantStatus
      BY <1>8, <2>3 DEF CompileLiteral
    <3>2. token.literal \in NumberValues
      <4>1. token.type = "NUMBER"
        BY <1>8 DEF Nud
      <4> QED BY <1>6, <2>3, <4>1, TokensAssumption
    <3>3. ObjectsGrow /\ token.literal.kind # "object"
      BY <2>1, <3>2 DEF CompilerInv, TypeOK, ObjectsGrow, NumberValues
    <3> QED BY <1>2, <1>3, <1>4, <2>1, <3>1, <3>2, <3>3, ConstantStep
  <2> QED BY <2>2, <2>3
<1>9. CASE Nud(token.type) = "compile_string_literal"
  <2>1. /\ gcObjects' = Append(gcObjects, [text |-> token.literal.text, owner |-> FALSE,
                                           origin |-> sourceId])
        /\ chunk' = AppendConstant(ObjectValue(Len(gcObjects')), parser.current)
        /\ status' = ConstantStatus
    BY <1>9 DEF CompileLiteral, NonOwningString
  <2>2. token.literal.text \in Texts
    <3>1. token.type = "STRING"
      BY <1>9 DEF Nud
    <3> QED BY <1>6, <3>1, TokensAssumption
  <2>3. gcObjects \in Seq(ObjectSet) /\ sourceId \in Nat
    BY DEF CompilerInv, TypeOK
  <2> DEFINE made == [text |-> token.literal.text, owner |-> FALSE, origin |-> sourceId]
             value == ObjectValue(Len(gcObjects'))
  <2>4. made \in ObjectSet /\ made.origin = sourceId
    BY <2>2, <2>3 DEF ObjectSet
  <2>5. /\ gcObjects' = Append(gcObjects, made)
        /\ chunk' = AppendConstant(value, parser.current)
    BY <2>1
  <2>6. value = [kind |-> "object", object |-> Len(gcObjects')]
    BY DEF ObjectValue
  <2> HIDE DEF made, value
  <2>7. /\ ObjectsGrow
        /\ Len(gcObjects') = Len(gcObjects) + 1 /\ Len(gcObjects) \in Nat
        /\ gcObjects'[Len(gcObjects')] = made
    BY <2>3, <2>4, <2>5 DEF ObjectsGrow
  <2>8. value \in ObjectValues(Len(gcObjects')) /\ value.object = Len(gcObjects')
    BY <2>6, <2>7 DEF ObjectValues
  <2> QED BY <1>2, <1>3, <1>4, <2>1, <2>4, <2>5, <2>7, <2>8, ConstantStep
<1> QED BY <1>7, <1>8, <1>9

LEMMA HeadStep ==
  ASSUME CompilerInv, CompileHead, UNCHANGED sourceId
  PROVE  CompilerInv'
<1>1. status = "running" /\ Top.fn = "head"
  BY DEF CompileHead, Running
<1> DEFINE token == source[parser.current]
           advanced(scan) == CompilerAdvance(parser, scan)
<1>2. PICK scan \in Scans :
        /\ source' = source \o scan
        /\ CASE Nud(token.type) = "NULL" ->
                  /\ parser' = CompilerErrorAt(advanced(scan), "SYNTAX",
                                               parser.current, token.type)
                  /\ frames' = Callers
                  /\ UNCHANGED <<status, chunk, gcObjects>>
             [] Nud(token.type) = "compile_unary_expr" ->
                  /\ parser' = advanced(scan)
                  /\ frames' = ReplaceTop(<<TailFrame(Top.precedence, Top.height),
                                            UnaryFrame(token.type, Top.height, parser.current),
                                            HeadFrame(PRECEDENCE_UNARY, Top.height)>>)
                  /\ UNCHANGED <<status, chunk, gcObjects>>
             [] Nud(token.type) = "compile_grouping_expr" ->
                  /\ parser' = advanced(scan)
                  /\ frames' = ReplaceTop(<<TailFrame(Top.precedence, Top.height),
                                            GroupingFrame(Top.height),
                                            HeadFrame(PRECEDENCE_ASSIGNMENT, Top.height)>>)
                  /\ UNCHANGED <<status, chunk, gcObjects>>
             [] OTHER ->
                  /\ parser' = advanced(scan)
                  /\ CompileLiteral(token, parser.current)
  BY DEF CompileHead
<1>3. /\ Top \in FrameSet /\ token \in AllTokens /\ TypeOK
      /\ parser \in ParserSet(Len(source)) /\ Len(source) \in Nat
      /\ parser.current = Len(source) /\ parser.current > 0
      /\ (parser.hadError <=> parser.state # "OK")
  BY <1>1, RunningTypes DEF CompilerInv
<1>4. Top.height \in Nat /\ HeightOnResume(Top) = Top.height
  BY <1>1, <1>3, OperandHeights
<1>5. token.type \in TokenTypes \cup {"EOF", "ERROR"}
  BY <1>3, TokensAssumption DEF AllTokens, EofToken, ErrorToken
<1>6. CASE Nud(token.type) = "NULL"
  <2>1. /\ parser' = CompilerErrorAt(advanced(scan), "SYNTAX", parser.current, token.type)
        /\ frames' = Callers /\ UNCHANGED <<status, chunk, gcObjects>>
    BY <1>2, <1>6, Zenon
  <2>2. Advanced /\ parser'.hadError
    <3> DEFINE q == advanced(scan)
    <3>1. /\ source \o scan \in Seq(AllTokens) /\ Len(source \o scan) > 0
          /\ q \in ParserSet(Len(source \o scan))
          /\ q.previous = parser.current /\ q.current = Len(source \o scan)
          /\ q.previous <= q.current
          /\ (q.hadError <=> q.state # "OK")
      BY <1>3, AdvanceFacts
    <3>2. parser' = CompilerErrorAt(q, "SYNTAX", parser.current, token.type)
      BY <2>1
    <3> HIDE DEF q, token
    <3>3. /\ parser' \in ParserSet(Len(source \o scan))
          /\ parser'.previous = q.previous /\ parser'.current = q.current
          /\ (parser'.hadError <=> parser'.state # "OK") /\ parser'.hadError
      BY <1>3, <3>1, <3>2, ErrorAtFacts
    <3>4. source' = source \o scan
      BY <1>2
    <3> QED BY <3>1, <3>3, <3>4 DEF Advanced
  <2>3. frames' \in Seq(FrameSet) /\ CallChain(frames') /\ frames' # <<>>
    BY <1>1, <2>1, FrameReturns
  <2> QED BY <1>1, <2>1, <2>2, <2>3, CodeUnchanged, KeptObjects, Assemble
<1>7. CASE Nud(token.type) # "NULL"
  <2>1. parser' = CompilerAdvance(parser, scan) /\ source' = source \o scan
    BY <1>2, <1>7, Zenon
  <2>2. Advanced
    BY <1>1, <2>1, AdvanceStep
  <2>3. ASSUME NEW f \in FrameSet, NEW precedence \in Precedences,
               f.fn \in {"unary", "grouping"}, f.height = Top.height,
               frames' = ReplaceTop(<<TailFrame(Top.precedence, Top.height), f,
                                      HeadFrame(precedence, Top.height)>>),
               UNCHANGED <<status, chunk, gcObjects>>
        PROVE  CompilerInv'
    <3>1. /\ frames' \in Seq(FrameSet) /\ CallChain(frames') /\ frames' # <<>>
          /\ HeightOnResume(frames'[Len(frames')]) = HeightOnResume(Top)
      BY <1>1, <2>3, HeadToOperand
    <3>2. ~parser'.hadError =>
            HeightAfter(chunk'.code) = HeightOnResume(frames'[Len(frames')])
      BY <1>1, <2>2, <2>3, <3>1, HeightNow DEF Advanced
    <3> QED BY <1>1, <2>2, <2>3, <3>1, <3>2, CodeUnchanged, KeptObjects, Assemble
  <2>4. CASE Nud(token.type) = "compile_unary_expr"
    <3>1. /\ frames' = ReplaceTop(<<TailFrame(Top.precedence, Top.height),
                                    UnaryFrame(token.type, Top.height, parser.current),
                                    HeadFrame(PRECEDENCE_UNARY, Top.height)>>)
          /\ UNCHANGED <<status, chunk, gcObjects>>
      BY <1>2, <2>4, Zenon
    <3> DEFINE f == UnaryFrame(token.type, Top.height, parser.current)
    <3>2. /\ f \in FrameSet /\ f.fn = "unary" /\ f.height = Top.height
          /\ PRECEDENCE_UNARY \in Precedences
      <4>1. parser.current \in Nat
        BY <1>1, RunningTypes
      <4> QED BY <1>4, <1>5, <4>1 DEF UnaryFrame, Frame, FrameSet, Precedences, PRECEDENCE_UNARY
    <3> HIDE DEF f
    <3> QED BY <2>3, <3>1, <3>2 DEF f
  <2>5. CASE Nud(token.type) = "compile_grouping_expr"
    <3>1. /\ frames' = ReplaceTop(<<TailFrame(Top.precedence, Top.height),
                                    GroupingFrame(Top.height),
                                    HeadFrame(PRECEDENCE_ASSIGNMENT, Top.height)>>)
          /\ UNCHANGED <<status, chunk, gcObjects>>
      BY <1>2, <2>5, Zenon
    <3> DEFINE f == GroupingFrame(Top.height)
    <3>2. /\ f \in FrameSet /\ f.fn = "grouping" /\ f.height = Top.height
          /\ PRECEDENCE_ASSIGNMENT \in Precedences
      BY <1>4 DEF GroupingFrame, Frame, FrameSet, Precedences, PRECEDENCE_ASSIGNMENT
    <3> HIDE DEF f
    <3> QED BY <2>3, <3>1, <3>2 DEF f
  <2>6. CASE Nud(token.type) \in {"compile_invariable_literal", "compile_numeric_literal",
                                 "compile_string_literal"}
    <3>1. CompileLiteral(token, parser.current)
      BY <1>2, <2>6, Zenon
    <3> HIDE DEF token
    <3> QED BY <1>1, <1>3, <2>2, <2>6, <3>1, LiteralStep
  <2> QED BY <1>7, <2>4, <2>5, <2>6 DEF Nud
<1> QED BY <1>6, <1>7

LEMMA StartStep ==
  ASSUME CompilerInv, CompilerStart
  PROVE  CompilerInv'
<1>1. PICK n \in 0..MaxErrors, t \in Tokens \cup {EofToken} :
        /\ source' = Scan(n, t)
        /\ parser' = [InitialParser EXCEPT
                        !.current = Len(Scan(n, t)),
                        !.state = IF n > 0 THEN "PANIC" ELSE "OK",
                        !.hadError = n > 0,
                        !.report = IF n > 0 THEN [kind |-> "LEXICAL", pos |-> 1]
                                   ELSE NoReport]
  BY DEF CompilerStart
<1>2. /\ sourceId' = sourceId + 1 /\ frames' = <<CompileFrame>> /\ status' = "running"
      /\ chunk' = [code |-> <<>>, constants |-> <<>>] /\ UNCHANGED gcObjects
  BY DEF CompilerStart, EmptyChunk
<1>3. n \in Nat /\ Scan(n, t) \in Seq(AllTokens) /\ Len(Scan(n, t)) = n + 1
  BY ScanFacts, BoundsAssumption
<1>4. parser' = [previous |-> 0, current |-> n + 1,
                 state |-> IF n > 0 THEN "PANIC" ELSE "OK", hadError |-> n > 0,
                 report |-> IF n > 0 THEN [kind |-> "LEXICAL", pos |-> 1]
                            ELSE [kind |-> "none", pos |-> 0]]
  BY <1>1, <1>3 DEF InitialParser, NoReport
<1>5. parser' \in ParserSet(Len(source'))
  <2> DEFINE report == IF n > 0 THEN [kind |-> "LEXICAL", pos |-> 1]
                       ELSE [kind |-> "none", pos |-> 0]
             state == IF n > 0 THEN "PANIC" ELSE "OK"
  <2>1. report \in [kind : {"none", "LEXICAL", "SYNTAX"}, pos : Nat]
    BY <1>3
  <2>2. state \in {"OK", "PANIC", "UNEXPECTED_EOF"} /\ (n > 0) \in BOOLEAN
    BY <1>3
  <2>3. 0 \in 0..(n + 1) /\ n + 1 \in 0..(n + 1)
    BY <1>3
  <2>4. Len(source') = n + 1
    BY <1>1, <1>3
  <2>5. parser' = [previous |-> 0, current |-> n + 1, state |-> state,
                   hadError |-> n > 0, report |-> report]
    BY <1>4, Zenon
  <2> HIDE DEF report, state
  <2>6. parser' \in [previous : 0..(n + 1), current : 0..(n + 1),
                     state : {"OK", "PANIC", "UNEXPECTED_EOF"}, hadError : BOOLEAN,
                     report : [kind : {"none", "LEXICAL", "SYNTAX"}, pos : Nat]]
    BY <2>1, <2>2, <2>3, <2>5
  <2> QED BY <2>4, <2>6 DEF ParserSet
<1>6. /\ parser'.previous = 0 /\ parser'.current = n + 1
      /\ (parser'.hadError <=> parser'.state # "OK")
  BY <1>3, <1>4
<1>7. CompileFrame \in FrameSet /\ CompileFrame.fn = "compile" /\ CompileFrame.height = 0
  BY DEF CompileFrame, Frame, FrameSet, Precedences
<1> HIDE DEF CompileFrame
<1>8. TypeOK'
  <2>1. sourceId' \in Nat /\ gcObjects' \in Seq(ObjectSet)
    BY <1>2 DEF CompilerInv, TypeOK
  <2>2. frames' \in Seq(FrameSet)
    BY <1>2, <1>7
  <2>3. chunk' \in ChunkSet(Len(gcObjects'))
    BY <1>2 DEF ChunkSet
  <2> QED BY <1>1, <1>2, <1>3, <1>5, <2>1, <2>2, <2>3 DEF TypeOK
<1>9. FramesOK' /\ ScanOK'
  <2>1. CallChain(<<CompileFrame>>)
    BY DEF CallChain
  <2> QED BY <1>1, <1>2, <1>3, <1>6, <2>1 DEF FramesOK, ScanOK
<1>10. HeightsOK' /\ ReturnOK'
  BY <1>2, <1>7 DEF HeightsOK, ReturnOK, HeightAfter, HeightOnResume, Top
<1>11. CodeInv' /\ SuccessInv'
  BY <1>2 DEF CodeInv, SuccessInv, CodeOK, NeverUnderflows, AscendTo, HeightsFollow,
              ConstantsOfSource
<1>12. CompilerInv' <=> (/\ TypeOK /\ FramesOK /\ ScanOK /\ HeightsOK /\ ReturnOK
                         /\ CodeInv /\ SuccessInv)'
  BY InvParts, PTL
<1> QED BY <1>8, <1>9, <1>10, <1>11, <1>12

-----------------------------------------------------------------------------
(* The invariant is inductive.                                             *)
LEMMA InitInv == CompilerInit => CompilerInv
<1> SUFFICES ASSUME CompilerInit PROVE CompilerInv
  OBVIOUS
<1>1. /\ source = <<>> /\ sourceId = 0 /\ parser = InitialParser /\ frames = <<>>
      /\ status = "idle" /\ chunk = [code |-> <<>>, constants |-> <<>>] /\ gcObjects = <<>>
  BY DEF CompilerInit, EmptyChunk
<1>2. TypeOK
  BY <1>1 DEF TypeOK, InitialParser, NoReport, ParserSet, ChunkSet
<1>3. FramesOK /\ ScanOK /\ HeightsOK /\ ReturnOK
  BY <1>1 DEF FramesOK, CallChain, ScanOK, HeightsOK, ReturnOK, InitialParser
<1>4. CodeInv /\ SuccessInv
  BY <1>1 DEF CodeInv, SuccessInv, CodeOK, NeverUnderflows, AscendTo, HeightsFollow,
              ConstantsOfSource
<1> QED BY <1>2, <1>3, <1>4, InvParts

LEMMA StepInv == CompilerInv /\ CompilerStep => CompilerInv'
BY StatementStep, EndStep, HeadStep, TailStep, TailEndStep, OperatorStep,
   GroupingEndStep, StatementEndStep DEF CompilerStep

(* Steps of others may make objects, but leave the compiler's state alone. *)
LEMMA OthersInv ==
  ASSUME CompilerInv, UNCHANGED <<source, sourceId, parser, frames, status, chunk>>,
         ObjectsGrow
  PROVE  CompilerInv'
<1> DEFINE Constants == NumberValues \cup ObjectValues(Len(gcObjects))
           Constants2 == NumberValues \cup ObjectValues(Len(gcObjects'))
<1>1. /\ chunk \in ChunkSet(Len(gcObjects)) /\ Len(gcObjects) \in Nat
      /\ Len(gcObjects') \in Nat /\ Len(gcObjects) <= Len(gcObjects')
  BY DEF CompilerInv, TypeOK, ObjectsGrow
<1>2. Constants \subseteq Constants2
  BY <1>1 DEF ObjectValues
<1>3. chunk' \in ChunkSet(Len(gcObjects'))
  <2>1. chunk \in [code : Seq(Instructions), constants : Seq(Constants)]
    BY <1>1 DEF ChunkSet
  <2> HIDE DEF Constants, Constants2
  <2>2. chunk \in [code : Seq(Instructions), constants : Seq(Constants2)]
    BY <1>2, <2>1
  <2> QED BY <2>2 DEF ChunkSet, Constants2
<1>4. ConstantsOfSource'
  <2>1. ASSUME NEW i \in 1..Len(chunk.constants), chunk.constants[i].kind = "object"
        PROVE  gcObjects'[chunk.constants[i].object].origin = sourceId
    <3>1. chunk.constants[i] \in Constants
      BY <1>1, <2>1 DEF ChunkSet
    <3>2. chunk.constants[i].object \in 1..Len(gcObjects)
      BY <2>1, <3>1 DEF NumberValues, ObjectValues
    <3>3. gcObjects[chunk.constants[i].object].origin = sourceId
      BY <2>1 DEF CompilerInv, ConstantsOfSource
    <3> QED BY <3>2, <3>3 DEF ObjectsGrow
  <2> QED BY <2>1 DEF ConstantsOfSource
<1>5. TypeOK'
  BY <1>3 DEF CompilerInv, TypeOK, ObjectsGrow
<1> QED BY <1>4, <1>5 DEF CompilerInv, FramesOK, ScanOK, HeightsOK, Top, ReturnOK,
           StackDiscipline, OperandsFit, PositionsAscend

LEMMA NextInv == CompilerInv /\ [Next]_vars => CompilerInv'
<1> SUFFICES ASSUME CompilerInv, [Next]_vars PROVE CompilerInv'
  OBVIOUS
<1>1. CASE CompilerStart
  BY <1>1, StartStep
<1>2. CASE CompilerStep
  BY <1>2, StepInv
<1>3. CASE UNCHANGED vars
  <2>1. ObjectsGrow
    BY <1>3 DEF vars, compilerVars, CompilerInv, TypeOK, ObjectsGrow
  <2> QED BY <1>3, <2>1, OthersInv DEF vars, compilerVars
<1> QED BY <1>1, <1>2, <1>3 DEF Next

(* The inductive invariant holds: whatever handlers a syntax error leaves, *)
(* code that compiled without one balances the operand stack, frame by     *)
(* frame and instruction by instruction (compiler.c 373-422).              *)
THEOREM CompilerInvariance == Spec => []CompilerInv
<1>1. Init => CompilerInv
  BY InitInv DEF Init
<1> QED BY <1>1, NextInv, PTL DEF Spec

(* The parser's positions stay within the scanned tokens, the frames are   *)
(* those of compiler.c's functions, and the chunk holds instructions and   *)
(* literals, whatever the source (compiler_compile).                       *)
THEOREM CompilerTypeCorrect == Spec => []TypeOK
<1>1. CompilerInv => TypeOK
  BY DEF CompilerInv
<1> QED BY <1>1, CompilerInvariance, PTL

(* Code that compiles without an error never pops an empty operand stack,  *)
(* and a successful chunk leaves it as it found it: what vm_execute, whose *)
(* assertions cannot tell leftovers from operands, takes for granted.      *)
THEOREM CompilerStackDiscipline == Spec => []StackDiscipline
<1>1. CompilerInv => StackDiscipline
  BY DEF CompilerInv
<1> QED BY <1>1, CompilerInvariance, PTL

(* Every operand chunk_append_constant_instruction emits fits the bytes of *)
(* its opcode and indexes the pool, for any byte width and any source.     *)
THEOREM CompilerOperandsFit == Spec => []OperandsFit
<1>1. CompilerInv => OperandsFit
  BY DEF CompilerInv
<1> QED BY <1>1, CompilerInvariance, PTL

(* The lines handed to chunk_append_instruction never go back.             *)
THEOREM CompilerPositionsAscend == Spec => []PositionsAscend
<1>1. CompilerInv => PositionsAscend
  BY DEF CompilerInv
<1> QED BY <1>1, CompilerInvariance, PTL

-----------------------------------------------------------------------------
(* The language.                                                           *)

(* A nonempty set of naturals has a least element.                         *)
LEMMA LeastNatural ==
  ASSUME NEW T, T \subseteq Nat, T # {}
  PROVE  \E x \in T : \A y \in T : x <= y
<1>1. PICK x \in T : \A y \in T : ~(<<y, x>> \in OpToRel(<, Nat))
  BY WFMin, NatLessThanWellFounded
<1>2. \A y \in T : ~(y < x)
  BY <1>1 DEF OpToRel
<1> QED BY <1>2

(* f follows a recursion from 0 to n.                                      *)
Beginning(f, n, first, step) ==
  /\ f[0] = first
  /\ \A i \in 1..n : f[i] = step[i][f[i - 1]]

(* Two beginnings of the same recursion agree as far as both go.           *)
LEMMA BeginningsAgree ==
  ASSUME NEW first, NEW step, NEW m \in Nat, NEW n \in Nat, NEW f, NEW g,
         Beginning(f, m, first, step), Beginning(g, n, first, step)
  PROVE  \A i \in Nat : i <= m /\ i <= n => f[i] = g[i]
<1> DEFINE Differ == {i \in Nat : i <= m /\ i <= n /\ f[i] # g[i]}
<1>1. SUFFICES ASSUME Differ # {} PROVE FALSE
  OBVIOUS
<1>2. PICK i \in Differ : \A j \in Differ : i <= j
  <2>1. Differ \subseteq Nat
    OBVIOUS
  <2> HIDE DEF Differ
  <2> QED BY <1>1, <2>1, LeastNatural
<1>3. i # 0
  BY DEF Beginning
<1>4. i - 1 \in Nat /\ i \in 1..m /\ i \in 1..n
  BY <1>3
<1>5. f[i - 1] = g[i - 1]
  BY <1>2, <1>4
<1> QED BY <1>4, <1>5 DEF Beginning

(* There is a beginning of every length.                                   *)
LEMMA BeginningsExist ==
  ASSUME NEW first, NEW step
  PROVE  \A n \in Nat : \E f : Beginning(f, n, first, step)
<1> DEFINE Without == {n \in Nat : ~\E f : Beginning(f, n, first, step)}
<1>1. SUFFICES ASSUME Without # {} PROVE FALSE
  OBVIOUS
<1>2. PICK n \in Without : \A m \in Without : n <= m
  <2>1. Without \subseteq Nat
    OBVIOUS
  <2> HIDE DEF Without
  <2> QED BY <1>1, <2>1, LeastNatural
<1>3. n # 0
  <2>1. Beginning([i \in {0} |-> first], 0, first, step)
    BY DEF Beginning
  <2> QED BY <2>1
<1>4. n - 1 \in Nat /\ n - 1 \notin Without
  BY <1>2, <1>3
<1>5. PICK f : Beginning(f, n - 1, first, step)
  BY <1>4
<1> DEFINE longer == [i \in 0..n |-> IF i = n THEN step[n][f[n - 1]] ELSE f[i]]
<1>6. /\ \A i \in 0..n : longer[i] = IF i = n THEN step[n][f[n - 1]] ELSE f[i]
      /\ n \in Nat
  OBVIOUS
<1> HIDE DEF longer
<1>7. longer[0] = first
  BY <1>3, <1>5, <1>6 DEF Beginning
<1>8. ASSUME NEW i \in 1..n PROVE longer[i] = step[i][longer[i - 1]]
  <2>1. i \in 0..n /\ i - 1 \in 0..n /\ i - 1 # n
    BY <1>6
  <2>2. longer[i - 1] = f[i - 1]
    BY <1>6, <2>1
  <2>3. CASE i = n
    BY <1>6, <2>1, <2>2, <2>3
  <2>4. CASE i # n
    <3>1. i \in 1..n - 1
      BY <1>6, <2>4
    <3>2. longer[i] = f[i] /\ f[i] = step[i][f[i - 1]]
      BY <1>5, <1>6, <2>1, <2>4, <3>1 DEF Beginning
    <3> QED BY <2>2, <3>2
  <2> QED BY <2>3, <2>4
<1>9. Beginning(longer, n, first, step)
  BY <1>7, <1>8 DEF Beginning
<1> QED BY <1>9

Follows(f, first, step) == f[0] = first /\ \A n \in Nat : f[n + 1] = step[n + 1][f[n]]

(* A recursion over a set of values has a function that follows it.        *)
LEMMA RecursiveFunction ==
  ASSUME NEW S, NEW first \in S, NEW step \in [Nat -> [S -> S]]
  PROVE  \E f \in [Nat -> S] : Follows(f, first, step)
<1> DEFINE beginning(n) == CHOOSE f : Beginning(f, n, first, step)
           whole == [n \in Nat |-> beginning(n)[n]]
<1>1. \A n \in Nat : Beginning(beginning(n), n, first, step)
  BY BeginningsExist
<1> HIDE DEF beginning
<1>2. whole[0] = first
  BY <1>1 DEF Beginning
<1>3. ASSUME NEW n \in Nat PROVE whole[n + 1] = step[n + 1][whole[n]]
  <2>1. n + 1 \in Nat /\ n + 1 \in 1..n + 1 /\ (n + 1) - 1 = n /\ n <= n + 1
    OBVIOUS
  <2>2. beginning(n + 1)[n + 1] = step[n + 1][beginning(n + 1)[n]]
    BY <1>1, <2>1 DEF Beginning
  <2>3. beginning(n + 1)[n] = beginning(n)[n]
    BY <1>1, <2>1, BeginningsAgree
  <2> QED BY <2>1, <2>2, <2>3
<1> DEFINE Outside == {n \in Nat : whole[n] \notin S}
<1>4. Outside = {}
  <2>1. SUFFICES ASSUME Outside # {} PROVE FALSE
    OBVIOUS
  <2>2. PICK n \in Outside : \A m \in Outside : n <= m
    <3>1. Outside \subseteq Nat
      OBVIOUS
    <3> HIDE DEF Outside
    <3> QED BY <2>1, <3>1, LeastNatural
  <2>3. n \in Nat /\ whole[n] \notin S
    OBVIOUS
  <2>4. n # 0
    BY <1>2, <2>3
  <2> HIDE DEF whole
  <2>5. n - 1 \in Nat /\ (n - 1) + 1 = n
    BY <2>3, <2>4
  <2>6. whole[n - 1] \in S
    BY <2>2, <2>5
  <2>7. whole[n] = step[n][whole[n - 1]]
    BY <1>3, <2>5
  <2> QED BY <2>3, <2>6, <2>7
<1>5. whole \in [Nat -> S]
  BY <1>4
<1>6. Follows(whole, first, step)
  BY <1>2, <1>3 DEF Follows
<1> QED BY <1>5, <1>6

-----------------------------------------------------------------------------
(* What a prefix of a source may be continued with.                        *)
OutlookStates ==
  [need : {"statement", "operand", "operator", "dead"}, depth : Nat]

(* An outlook is a need and a number of open parentheses.                  *)
LEMMA AfterType ==
  ASSUME NEW state \in OutlookStates, NEW type
  PROVE  After(state, type) \in OutlookStates /\ After(state, type).depth <= state.depth + 1
<1>1. state.need \in {"statement", "operand", "operator", "dead"} /\ state.depth \in Nat
  BY DEF OutlookStates
<1>2. \A depth \in Nat :
        /\ AfterOperand(depth, type) \in OutlookStates
        /\ AfterOperand(depth, type).depth <= depth + 1
  BY DEF AfterOperand, Need, Dead, OutlookStates
<1>3. CASE state.need = "statement"
  BY <1>1, <1>2, <1>3 DEF After, Need, OutlookStates
<1>4. CASE state.need = "operand"
  BY <1>1, <1>2, <1>4 DEF After
<1>5. CASE state.need = "operator"
  BY <1>1, <1>5 DEF After, Need, Dead, OutlookStates
<1>6. CASE state.need = "dead"
  BY <1>1, <1>6 DEF After, Dead, OutlookStates
<1> QED BY <1>1, <1>3, <1>4, <1>5, <1>6

(* The outlook after a token is that of the token before it, continued.    *)
LEMMA OutlookSteps ==
  ASSUME NEW types
  PROVE  /\ Outlooks(types) \in [Nat -> OutlookStates]
         /\ Outlooks(types)[0] = Need("statement", 0)
         /\ \A n \in Nat : Outlooks(types)[n + 1] = After(Outlooks(types)[n], types[n + 1])
<1> DEFINE first == Need("statement", 0)
           step == [n \in Nat |-> [state \in OutlookStates |-> After(state, types[n])]]
           outlooks == Outlooks(types)
<1>1. outlooks = CHOOSE o : o = [n \in Nat |-> IF n = 0 THEN first ELSE After(o[n - 1], types[n])]
  BY DEF Outlooks
<1>2. /\ step \in [Nat -> [OutlookStates -> OutlookStates]]
      /\ \A n \in Nat : \A state \in OutlookStates : step[n][state] = After(state, types[n])
  BY AfterType
<1>3. first \in OutlookStates
  BY DEF Need, OutlookStates
<1> HIDE DEF outlooks, step, first
<1>4. PICK f \in [Nat -> OutlookStates] : Follows(f, first, step)
  BY <1>2, <1>3, RecursiveFunction
<1>5. f[0] = first /\ \A n \in Nat : f[n + 1] = After(f[n], types[n + 1])
  <2>1. ASSUME NEW n \in Nat PROVE f[n + 1] = After(f[n], types[n + 1])
    <3>1. n + 1 \in Nat /\ f[n] \in OutlookStates
      OBVIOUS
    <3>2. f[n + 1] = step[n + 1][f[n]]
      BY <1>4 DEF Follows
    <3> QED BY <1>2, <3>1, <3>2
  <2> QED BY <1>4, <2>1 DEF Follows
<1>6. f = [n \in Nat |-> IF n = 0 THEN first ELSE After(f[n - 1], types[n])]
  <2>1. ASSUME NEW n \in Nat PROVE f[n] = IF n = 0 THEN first ELSE After(f[n - 1], types[n])
    <3>1. CASE n = 0
      BY <1>5, <3>1
    <3>2. CASE n # 0
      <4>1. n - 1 \in Nat /\ (n - 1) + 1 = n
        BY <3>2
      <4> QED BY <1>5, <3>2, <4>1
    <3> QED BY <3>1, <3>2
  <2> QED BY <2>1
<1>7. outlooks = [n \in Nat |-> IF n = 0 THEN first ELSE After(outlooks[n - 1], types[n])]
  BY <1>1, <1>6, Zenon
<1>8. outlooks[0] = first /\ \A n \in Nat : outlooks[n + 1] = After(outlooks[n], types[n + 1])
  <2>1. \A n \in Nat :
          outlooks[n] = IF n = 0 THEN first ELSE After(outlooks[n - 1], types[n])
    BY <1>7
  <2>2. ASSUME NEW n \in Nat PROVE outlooks[n + 1] = After(outlooks[n], types[n + 1])
    <3>1. n + 1 \in Nat /\ n + 1 # 0 /\ (n + 1) - 1 = n
      OBVIOUS
    <3> QED BY <2>1, <3>1
  <2> QED BY <2>1, <2>2
<1> DEFINE Outside == {n \in Nat : outlooks[n] \notin OutlookStates}
<1>9. Outside = {}
  <2>1. SUFFICES ASSUME Outside # {} PROVE FALSE
    OBVIOUS
  <2>2. PICK n \in Outside : \A m \in Outside : n <= m
    <3>1. Outside \subseteq Nat
      OBVIOUS
    <3> HIDE DEF Outside
    <3> QED BY <2>1, <3>1, LeastNatural
  <2>3. n \in Nat /\ n # 0
    BY <1>3, <1>8
  <2>4. n - 1 \in Nat /\ (n - 1) + 1 = n
    BY <2>3
  <2>5. outlooks[n - 1] \in OutlookStates
    BY <2>2, <2>4
  <2>6. outlooks[n] = After(outlooks[n - 1], types[n])
    BY <1>8, <2>4
  <2>7. outlooks[n] \in OutlookStates
    BY <2>5, <2>6, AfterType
  <2> QED BY <2>7
<1>10. outlooks \in [Nat -> OutlookStates]
  BY <1>7, <1>9
<1> QED BY <1>8, <1>10 DEF outlooks, first

(* It does not depend on the tokens that follow.                           *)
LEMMA OutlooksAgree ==
  ASSUME NEW types, NEW others, NEW n \in Nat, \A i \in 1..n : types[i] = others[i]
  PROVE  \A i \in 0..n : Outlooks(types)[i] = Outlooks(others)[i]
<1> DEFINE Differ == {i \in Nat : i <= n /\ Outlooks(types)[i] # Outlooks(others)[i]}
<1>1. SUFFICES ASSUME Differ # {} PROVE FALSE
  OBVIOUS
<1>2. PICK i \in Differ : \A j \in Differ : i <= j
  <2>1. Differ \subseteq Nat
    OBVIOUS
  <2> HIDE DEF Differ
  <2> QED BY <1>1, <2>1, LeastNatural
<1>3. i # 0
  BY OutlookSteps
<1>4. i - 1 \in Nat /\ (i - 1) + 1 = i /\ i \in 1..n
  BY <1>3
<1>5. Outlooks(types)[i - 1] = Outlooks(others)[i - 1]
  BY <1>2, <1>4
<1>6. /\ Outlooks(types)[i] = After(Outlooks(types)[i - 1], types[i])
      /\ Outlooks(others)[i] = After(Outlooks(others)[i - 1], others[i])
  BY <1>4, OutlookSteps
<1> QED BY <1>4, <1>5, <1>6

(* A prefix opens no more parentheses than it has tokens.                  *)
LEMMA OutlookDepth ==
  ASSUME NEW types
  PROVE  \A n \in Nat : Outlooks(types)[n].depth <= n
<1> DEFINE Deeper == {n \in Nat : ~(Outlooks(types)[n].depth <= n)}
<1>1. SUFFICES ASSUME Deeper # {} PROVE FALSE
  OBVIOUS
<1>2. PICK n \in Deeper : \A m \in Deeper : n <= m
  <2>1. Deeper \subseteq Nat
    OBVIOUS
  <2> HIDE DEF Deeper
  <2> QED BY <1>1, <2>1, LeastNatural
<1>3. n # 0
  BY OutlookSteps DEF Need
<1>4. n - 1 \in Nat /\ (n - 1) + 1 = n
  BY <1>3
<1>5. Outlooks(types)[n - 1].depth <= n - 1
  BY <1>2, <1>4
<1>6. /\ Outlooks(types)[n] = After(Outlooks(types)[n - 1], types[n])
      /\ Outlooks(types)[n - 1] \in OutlookStates
  BY <1>4, OutlookSteps
<1> DEFINE before == Outlooks(types)[n - 1]
<1>7. /\ Outlooks(types)[n] \in OutlookStates
      /\ Outlooks(types)[n].depth <= before.depth + 1
  BY <1>6, AfterType
<1>8. before.depth \in Nat /\ Outlooks(types)[n].depth \in Nat
  BY <1>6, <1>7 DEF OutlookStates
<1>9. Outlooks(types)[n].depth <= n
  BY <1>4, <1>5, <1>7, <1>8
<1> QED BY <1>9

(* Nothing that follows makes a program of a prefix of none.               *)
LEMMA DeadForGood ==
  ASSUME NEW types, NEW n \in Nat, Outlooks(types)[n].need = "dead"
  PROVE  \A m \in Nat : n <= m => Outlooks(types)[m].need = "dead"
<1> DEFINE Alive == {m \in Nat : n <= m /\ Outlooks(types)[m].need # "dead"}
<1>1. SUFFICES ASSUME Alive # {} PROVE FALSE
  OBVIOUS
<1>2. PICK m \in Alive : \A k \in Alive : m <= k
  <2>1. Alive \subseteq Nat
    OBVIOUS
  <2> HIDE DEF Alive
  <2> QED BY <1>1, <2>1, LeastNatural
<1>3. m # n
  OBVIOUS
<1>4. m - 1 \in Nat /\ (m - 1) + 1 = m /\ n <= m - 1
  BY <1>3
<1>5. Outlooks(types)[m - 1].need = "dead"
  BY <1>2, <1>4
<1>6. Outlooks(types)[m] = After(Outlooks(types)[m - 1], types[m])
  BY <1>4, OutlookSteps
<1>7. Outlooks(types)[m].need = "dead"
  BY <1>5, <1>6 DEF After, Dead
<1> QED BY <1>7

TokenSequence(tokens) == tokens \in Seq(AllTokens)

(* A longer source begins with a shorter one.                              *)
Begins(tokens, longer) ==
  /\ Len(tokens) <= Len(longer)
  /\ \A i \in 1..Len(tokens) : longer[i] = tokens[i]

(* The outlook after a prefix, one token at a time.                        *)
LEMMA OutlookOfFacts ==
  ASSUME NEW tokens, TokenSequence(tokens)
  PROVE  /\ OutlookOf(tokens, 0) = Need("statement", 0)
         /\ \A n \in 0..Len(tokens) - 1 :
              OutlookOf(tokens, n + 1) = After(OutlookOf(tokens, n), tokens[n + 1].type)
         /\ \A n \in Nat : OutlookOf(tokens, n) \in OutlookStates
<1>1. Len(tokens) \in Nat
  BY DEF TokenSequence
<1>2. \A i \in 1..Len(tokens) : Types(tokens)[i] = tokens[i].type
  BY DEF Types
<1>3. ASSUME NEW n \in 0..Len(tokens) - 1
      PROVE  OutlookOf(tokens, n + 1) = After(OutlookOf(tokens, n), tokens[n + 1].type)
  <2>1. n \in Nat /\ n + 1 \in 1..Len(tokens)
    BY <1>1
  <2>2. Types(tokens)[n + 1] = tokens[n + 1].type
    BY <1>2, <2>1
  <2>3. Outlooks(Types(tokens))[n + 1] = After(Outlooks(Types(tokens))[n], Types(tokens)[n + 1])
    BY <2>1, OutlookSteps
  <2> QED BY <2>2, <2>3 DEF OutlookOf
<1>4. \A n \in Nat : OutlookOf(tokens, n) \in OutlookStates
  BY OutlookSteps DEF OutlookOf
<1>5. OutlookOf(tokens, 0) = Need("statement", 0)
  BY OutlookSteps DEF OutlookOf
<1> QED BY <1>3, <1>4, <1>5

(* Scanning further does not change the outlook after a prefix.            *)
LEMMA OutlookKept ==
  ASSUME NEW tokens, NEW longer, TokenSequence(tokens), TokenSequence(longer),
         Begins(tokens, longer)
  PROVE  \A n \in 0..Len(tokens) : OutlookOf(longer, n) = OutlookOf(tokens, n)
<1>1. Len(tokens) \in Nat /\ Len(longer) \in Nat
  BY DEF TokenSequence
<1>2. \A i \in 1..Len(tokens) : Types(longer)[i] = Types(tokens)[i]
  <2>1. ASSUME NEW i \in 1..Len(tokens) PROVE Types(longer)[i] = Types(tokens)[i]
    <3>1. i \in 1..Len(longer) /\ longer[i] = tokens[i]
      BY <1>1 DEF Begins
    <3> QED BY <3>1 DEF Types
  <2> QED BY <2>1
<1>3. \A i \in 0..Len(tokens) : Outlooks(Types(longer))[i] = Outlooks(Types(tokens))[i]
  BY <1>1, <1>2, OutlooksAgree
<1> QED BY <1>3 DEF OutlookOf

(* The types of the tokens before the final EOF.                           *)
LEMMA OutlookOfProgram ==
  ASSUME TokenSequence(source), source # <<>>, source[Len(source)] = EofToken
  PROVE  /\ Len(Program) = Len(source) - 1
         /\ \A i \in 1..Len(source) - 1 : Program[i] = source[i].type
         /\ Outlook(Program) = OutlookOf(source, Len(source) - 1)
         /\ \A n \in 0..Len(source) - 1 : Outlook(SubSeq(Program, 1, n)) = OutlookOf(source, n)
<1>1. PICK k \in Nat : Len(source) = k + 1 /\ Len(source) - 1 = k
  <2>1. Len(source) \in Nat /\ Len(source) # 0
    BY DEF TokenSequence
  <2>2. Len(source) - 1 \in Nat /\ Len(source) = (Len(source) - 1) + 1
    BY <2>1
  <2> QED BY <2>2
<1>2. Program = Types(SubSeq(source, 1, k))
  BY <1>1 DEF Program
<1>3. /\ Len(SubSeq(source, 1, k)) = k
      /\ \A i \in 1..k : SubSeq(source, 1, k)[i] = source[i]
  BY <1>1 DEF TokenSequence
<1>4. Program = [i \in 1..k |-> source[i].type]
  BY <1>2, <1>3 DEF Types
<1>5. Len(Program) = k /\ \A i \in 1..k : Program[i] = source[i].type
  BY <1>4
<1>6. \A i \in 1..k : Types(source)[i] = source[i].type
  BY <1>1 DEF Types
<1>7. \A n \in 0..k : Outlooks(Program)[n] = OutlookOf(source, n)
  <2>1. \A i \in 1..k : Program[i] = Types(source)[i]
    BY <1>5, <1>6
  <2> QED BY <2>1, OutlooksAgree DEF OutlookOf
<1>8. ASSUME NEW n \in 0..k
      PROVE  Outlook(SubSeq(Program, 1, n)) = OutlookOf(source, n)
  <2> DEFINE first == SubSeq(Program, 1, n)
  <2>1. Len(first) = n /\ \A i \in 1..n : first[i] = Program[i]
    <3> DEFINE T == {source[i].type : i \in 1..k}
    <3>1. Program \in Seq(T)
      BY <1>4
    <3>2. n \in Nat /\ n <= Len(Program)
      BY <1>5
    <3> HIDE DEF T
    <3> QED BY <3>1, <3>2
  <2> HIDE DEF first
  <2>2. n \in Nat
    OBVIOUS
  <2>3. \A i \in 0..n : Outlooks(first)[i] = Outlooks(Program)[i]
    BY <2>1, <2>2, OutlooksAgree
  <2>4. n \in 0..n
    BY <2>2
  <2> QED BY <1>7, <2>1, <2>3, <2>4 DEF Outlook, first
<1>9. k \in 0..k
  OBVIOUS
<1> QED BY <1>1, <1>5, <1>7, <1>8, <1>9 DEF Outlook

Joins(whole, s, t, S) ==
  /\ whole \in Seq(S)
  /\ Len(s) \in Nat /\ Len(t) \in Nat
  /\ Len(whole) = Len(s) + Len(t)
  /\ \A i \in 1..Len(s) : whole[i] = s[i]
  /\ \A i \in 1..Len(t) : whole[Len(s) + i] = t[i]
(* What is in a concatenation, by position.                                *)
LEMMA ConcatFacts ==
  ASSUME NEW S, NEW s \in Seq(S), NEW t \in Seq(S)
  PROVE  Joins(s \o t, s, t, S)
<1>1. /\ s \o t \in Seq(S) /\ Len(s \o t) = Len(s) + Len(t)
      /\ \A i \in 1..Len(s) + Len(t) :
           (s \o t)[i] = IF i <= Len(s) THEN s[i] ELSE t[i - Len(s)]
  BY ConcatProperties
<1>2. Len(s) \in Nat /\ Len(t) \in Nat
  OBVIOUS
<1>3. ASSUME NEW i \in 1..Len(t) PROVE (s \o t)[Len(s) + i] = t[i]
  <2>1. /\ Len(s) + i \in 1..Len(s) + Len(t) /\ ~(Len(s) + i <= Len(s))
        /\ (Len(s) + i) - Len(s) = i
    BY <1>2
  <2> QED BY <1>1, <2>1
<1>4. ASSUME NEW i \in 1..Len(s) PROVE (s \o t)[i] = s[i]
  <2>1. i \in 1..Len(s) + Len(t) /\ i <= Len(s)
    BY <1>2
  <2> QED BY <1>1, <2>1
<1> QED BY <1>1, <1>2, <1>3, <1>4 DEF Joins

(* What is in an ending, by position.                                      *)
LEMMA EndingFacts ==
  ASSUME NEW S, "NIL" \in S, "CLOSE_PAREN" \in S, "SEMICOLON" \in S,
         NEW operand \in Seq(S), NEW depth \in Nat
  PROVE  LET ending == Ending(operand, depth) IN
         /\ ending \in Seq(S)
         /\ Len(ending) = Len(operand) + depth + 1
         /\ \A i \in 1..Len(operand) : ending[i] = operand[i]
         /\ \A i \in 1..depth : ending[Len(operand) + i] = "CLOSE_PAREN"
         /\ ending[Len(operand) + depth + 1] = "SEMICOLON"
<1> DEFINE closing == [i \in 1..depth |-> "CLOSE_PAREN"]
           body == operand \o closing
           last == <<"SEMICOLON">>
           ending == Ending(operand, depth)
<1>1. /\ closing \in Seq(S) /\ Len(closing) = depth
      /\ \A i \in 1..depth : closing[i] = "CLOSE_PAREN"
  OBVIOUS
<1>2. last \in Seq(S) /\ Len(last) = 1 /\ last[1] = "SEMICOLON"
  OBVIOUS
<1>3. ending = body \o last
  BY DEF Ending
<1> HIDE DEF closing, last
<1>10. Joins(body, operand, closing, S)
  BY <1>1, ConcatFacts
<1> HIDE DEF body, ending
<1>4. /\ body \in Seq(S) /\ Len(body) = Len(operand) + depth /\ Len(operand) \in Nat
      /\ \A i \in 1..Len(operand) : body[i] = operand[i]
      /\ \A i \in 1..depth : body[Len(operand) + i] = "CLOSE_PAREN"
  BY <1>1, <1>10 DEF Joins
<1>5. /\ ending \in Seq(S) /\ Len(ending) = Len(body) + 1
      /\ \A i \in 1..Len(body) : ending[i] = body[i]
      /\ \A i \in 1..Len(last) : ending[Len(body) + i] = last[i]
  <2>1. Joins(ending, body, last, S)
    BY <1>2, <1>3, <1>4, ConcatFacts
  <2> QED BY <1>2, <2>1 DEF Joins
<1>6. ending[Len(operand) + depth + 1] = "SEMICOLON"
  BY <1>2, <1>4, <1>5
<1>7. \A i \in 1..Len(operand) : ending[i] = operand[i]
  BY <1>4, <1>5
<1>8. ASSUME NEW i \in 1..depth PROVE ending[Len(operand) + i] = "CLOSE_PAREN"
  <2>1. Len(operand) + i \in 1..Len(body)
    BY <1>4
  <2> QED BY <1>4, <1>5, <2>1
<1>9. Len(ending) = Len(operand) + depth + 1
  BY <1>4, <1>5
<1> QED BY <1>5, <1>6, <1>7, <1>8, <1>9 DEF ending

(* Whatever is still viable, can be completed.                             *)
LEMMA ViableIsCompletable ==
  ASSUME NEW types, NEW T, types \in Seq(T),
         Outlook(types).need \in {"operand", "operator"}
  PROVE  Completable(types)
<1> DEFINE depth == Outlook(types).depth
           operand == IF Outlook(types).need = "operand" THEN <<"NIL">> ELSE <<>>
           suffix == Ending(operand, depth)
           whole == types \o suffix
           start == Len(types) + Len(operand)
           S == T \cup {"NIL", "CLOSE_PAREN", "SEMICOLON"}
<1>1. /\ Len(types) \in Nat /\ Outlook(types) \in OutlookStates
      /\ depth \in 0..Len(types)
  <2>1. Len(types) \in Nat
    OBVIOUS
  <2>2. Outlooks(types)[Len(types)] \in OutlookStates /\ Outlooks(types)[Len(types)].depth <= Len(types)
    BY <2>1, OutlookSteps, OutlookDepth
  <2>3. Outlook(types) \in OutlookStates /\ Outlook(types).depth <= Len(types)
    BY <2>2 DEF Outlook
  <2> QED BY <2>1, <2>3 DEF OutlookStates
<1>2. /\ operand \in {<<>>, <<"NIL">>} /\ Len(operand) \in Nat
      /\ Len(operand) = IF Outlook(types).need = "operand" THEN 1 ELSE 0
      /\ Len(operand) = 1 => operand[1] = "NIL"
  OBVIOUS
<1> HIDE DEF operand, depth
<1>3. suffix \in Completions(types)
  BY <1>1, <1>2 DEF Completions
<1>4. /\ Len(whole) = start + depth + 1
      /\ \A i \in 1..Len(types) : whole[i] = types[i]
      /\ \A i \in 1..Len(operand) : whole[Len(types) + i] = operand[i]
      /\ \A i \in 1..depth : whole[start + i] = "CLOSE_PAREN"
      /\ whole[start + depth + 1] = "SEMICOLON"
  <2>1. types \in Seq(S) /\ "NIL" \in S /\ "CLOSE_PAREN" \in S /\ "SEMICOLON" \in S
    OBVIOUS
  <2> HIDE DEF S
  <2>2. operand \in Seq(S) /\ depth \in Nat
    <3>1. CASE operand = <<>>
      BY <1>1, <3>1
    <3>2. CASE operand = <<"NIL">>
      BY <1>1, <2>1, <3>2
    <3> QED BY <1>2, <3>1, <3>2
  <2>3. /\ suffix \in Seq(S)
        /\ Len(suffix) = Len(operand) + depth + 1
        /\ \A i \in 1..Len(operand) : suffix[i] = operand[i]
        /\ \A i \in 1..depth : suffix[Len(operand) + i] = "CLOSE_PAREN"
        /\ suffix[Len(operand) + depth + 1] = "SEMICOLON"
    BY <2>1, <2>2, EndingFacts
  <2> HIDE DEF suffix
  <2>9. Joins(whole, types, suffix, S)
    BY <2>1, <2>3, ConcatFacts
  <2> HIDE DEF whole
  <2>4. /\ Len(whole) = Len(types) + Len(suffix)
        /\ \A i \in 1..Len(types) : whole[i] = types[i]
        /\ \A i \in 1..Len(suffix) : whole[Len(types) + i] = suffix[i]
    BY <2>9 DEF Joins
  <2>5. ASSUME NEW i \in 1..depth PROVE whole[start + i] = "CLOSE_PAREN"
    <3>1. Len(operand) + i \in 1..Len(suffix) /\ Len(types) + (Len(operand) + i) = start + i
      BY <1>1, <1>2, <2>2, <2>3
    <3> QED BY <2>3, <2>4, <3>1
  <2>6. whole[start + depth + 1] = "SEMICOLON"
    <3>1. /\ Len(operand) + depth + 1 \in 1..Len(suffix)
          /\ Len(types) + (Len(operand) + depth + 1) = start + depth + 1
      BY <1>1, <1>2, <2>2, <2>3
    <3> QED BY <2>3, <2>4, <3>1
  <2>7. \A i \in 1..Len(operand) : whole[Len(types) + i] = operand[i]
    <3>1. \A i \in 1..Len(operand) : i \in 1..Len(suffix)
      BY <1>2, <2>2, <2>3
    <3> QED BY <2>3, <2>4, <3>1
  <2>8. Len(whole) = start + depth + 1
    BY <1>1, <1>2, <2>2, <2>3, <2>4
  <2> QED BY <2>4, <2>5, <2>6, <2>7, <2>8
<1>5. start \in Nat /\ depth \in Nat
  BY <1>1, <1>2
<1> HIDE DEF whole, suffix, S
<1>6. Outlooks(whole)[Len(types)] = Outlook(types)
  <2>1. /\ Len(types) \in Nat /\ Len(types) \in 0..Len(types)
        /\ \A i \in 1..Len(types) : whole[i] = types[i]
    BY <1>1, <1>4
  <2>2. \A i \in 0..Len(types) : Outlooks(whole)[i] = Outlooks(types)[i]
    BY <2>1, OutlooksAgree
  <2> QED BY <2>1, <2>2 DEF Outlook
<1>7. Outlooks(whole)[start] = Need("operator", depth)
  <2>1. CASE Outlook(types).need = "operator"
    <3>1. start = Len(types)
      BY <1>1, <1>2, <2>1
    <3> QED BY <1>1, <1>6, <2>1, <3>1 DEF Need, OutlookStates, depth
  <2>2. CASE Outlook(types).need = "operand"
    <3>1. start = Len(types) + 1 /\ whole[Len(types) + 1] = "NIL"
      BY <1>1, <1>2, <1>4, <2>2
    <3>2. Outlooks(whole)[Len(types) + 1] = After(Outlook(types), "NIL")
      BY <1>1, <1>6, <3>1, OutlookSteps
    <3>3. After(Outlook(types), "NIL") = AfterOperand(Outlook(types).depth, "NIL")
      BY <2>2 DEF After
    <3>4. AfterOperand(Outlook(types).depth, "NIL") = Need("operator", depth)
      BY DEF AfterOperand, LiteralTypes, PrefixTypes, depth
    <3> QED BY <3>1, <3>2, <3>3, <3>4
  <2> QED BY <2>1, <2>2
<1> DEFINE Open == {i \in Nat : i <= depth /\ Outlooks(whole)[start + i] # Need("operator", depth - i)}
<1>8. Open = {}
  <2>1. SUFFICES ASSUME Open # {} PROVE FALSE
    OBVIOUS
  <2>2. PICK i \in Open : \A j \in Open : i <= j
    <3>1. Open \subseteq Nat
      OBVIOUS
    <3> HIDE DEF Open
    <3> QED BY <2>1, <3>1, LeastNatural
  <2>3. i \in Nat /\ i <= depth /\ Outlooks(whole)[start + i] # Need("operator", depth - i)
    OBVIOUS
  <2>4. i # 0
    BY <1>5, <1>7, <2>3
  <2>5. /\ i - 1 \in Nat /\ i - 1 <= depth /\ start + i = (start + (i - 1)) + 1
        /\ start + (i - 1) \in Nat /\ i \in 1..depth /\ depth - (i - 1) > 0
        /\ (depth - (i - 1)) - 1 = depth - i
    BY <1>5, <2>3, <2>4
  <2>6. Outlooks(whole)[start + (i - 1)] = Need("operator", depth - (i - 1))
    <3>1. i - 1 \notin Open
      BY <2>2, <2>5
    <3> QED BY <2>5, <3>1
  <2>7. Outlooks(whole)[start + i] = After(Need("operator", depth - (i - 1)), "CLOSE_PAREN")
    <3>1. Outlooks(whole)[(start + (i - 1)) + 1]
            = After(Outlooks(whole)[start + (i - 1)], whole[(start + (i - 1)) + 1])
      BY <2>5, OutlookSteps
    <3>2. whole[start + i] = "CLOSE_PAREN"
      BY <1>4, <2>5
    <3> HIDE DEF start, Open
    <3> QED BY <2>5, <2>6, <3>1, <3>2
  <2>8. "CLOSE_PAREN" \notin InfixTypes
    BY DEF InfixTypes, Levels
  <2> QED BY <2>3, <2>5, <2>7, <2>8 DEF After, Need
<1>9. Outlooks(whole)[start + depth] = Need("operator", 0)
  <2>1. depth \in Nat /\ depth <= depth /\ depth - depth = 0
    BY <1>5
  <2>2. depth \notin Open
    BY <1>8
  <2> HIDE DEF start
  <2>3. Outlooks(whole)[start + depth] = Need("operator", depth - depth)
    BY <2>1, <2>2
  <2> QED BY <2>1, <2>3
<1> HIDE DEF Open, start
<1>10. Outlooks(whole)[start + depth + 1] = Need("statement", 0)
  <2>1. start + depth \in Nat
    BY <1>5
  <2>2. Outlooks(whole)[start + depth + 1] = After(Need("operator", 0), "SEMICOLON")
    <3>1. Outlooks(whole)[(start + depth) + 1]
            = After(Outlooks(whole)[start + depth], whole[(start + depth) + 1])
      BY <2>1, OutlookSteps
    <3> QED BY <1>4, <1>9, <3>1
  <2>3. "SEMICOLON" \notin InfixTypes
    BY DEF InfixTypes, Levels
  <2> QED BY <2>2, <2>3 DEF After, Need
<1>11. IsProgram(whole)
  BY <1>4, <1>10 DEF IsProgram, Outlook, Need
<1> QED BY <1>3, <1>11 DEF Completable, whole

(* The inductive invariant of what follows.  While there is no error, the  *)
(* tokens before the current one are a viable prefix, and the frames tell  *)
(* what it may be continued with: the parentheses that are open are those  *)
(* of the groupings being compiled, and the functions that were called for *)
(* a whole expression go on only before a token that no operator is.  Once *)
(* there is an error, what the report says of the prefix before it is      *)
(* settled.                                                                *)
Groupings(fs) == {i \in 1..Len(fs) : fs[i].fn = "grouping"}
OpenParens(fs) == Cardinality(Groupings(fs))

Expects(tokens, fs) ==
  LET outlook == OutlookOf(tokens, Len(tokens) - 1)
      current == tokens[Len(tokens)].type
      fn == fs[Len(fs)].fn
  IN  CASE fn = "compile" -> outlook = Need("statement", 0)
        [] fn = "head" ->
             \/ outlook = Need("operand", OpenParens(fs))
             \/ /\ outlook = Need("statement", 0) /\ OpenParens(fs) = 0
                /\ current \notin {"PRINT", "EOF"}
        [] OTHER ->
             /\ outlook = Need("operator", OpenParens(fs))
             /\ fn \in {"stmt", "grouping"} => current \notin InfixTypes

PrecedencesOK(fs) ==
  /\ \A i \in 1..Len(fs) :
       fs[i].fn \in {"head", "tail"} => fs[i].precedence >= PRECEDENCE_ASSIGNMENT
  /\ \A i \in 1..Len(fs) - 1 :
       fs[i].fn \in {"stmt", "grouping"} =>
         fs[i + 1].precedence = PRECEDENCE_ASSIGNMENT

NoErrorToken(tokens, n) == \A i \in 1..n : tokens[i] # ErrorToken

SyntaxReport(tokens, p) ==
  LET pos == p.report.pos IN
  /\ p.report.kind = "SYNTAX"
  /\ NoErrorToken(tokens, pos)
  /\ OutlookOf(tokens, pos - 1).need # "dead"
  /\ OutlookOf(tokens, pos).need = "dead"
  /\ IF p.state = "UNEXPECTED_EOF"
     THEN /\ tokens[pos] = EofToken /\ pos = Len(tokens)
          /\ OutlookOf(tokens, pos - 1).need # "statement"
     ELSE tokens[pos] # EofToken
LexicalReport(tokens, p) ==
  LET pos == p.report.pos IN
  /\ p.report.kind = "LEXICAL" /\ p.state = "PANIC"
  /\ tokens[pos] = ErrorToken
  /\ NoErrorToken(tokens, pos - 1)
  /\ pos > 1 => OutlookOf(tokens, pos - 2).need # "dead"
Reported(tokens, p) ==
  IF p.hadError
  THEN /\ p.report.pos \in 1..Len(tokens)
       /\ SyntaxReport(tokens, p) \/ LexicalReport(tokens, p)
  ELSE NoErrorToken(tokens, Len(tokens))

Loaded(upTo) ==
  LoadsLiterals(chunk.code, chunk.constants, gcObjects, source, upTo)
Understood ==
  ~parser.hadError /\ status = "running" =>
    Expects(source, frames) /\ Loaded(Len(source) - 1)
Accepted ==
  Finished =>
    /\ source # <<>> /\ source[Len(source)] = EofToken
    /\ status = CompilerStatus(parser)
    /\ ~parser.hadError =>
         /\ OutlookOf(source, Len(source) - 1) = Need("statement", 0)
         /\ Loaded(Len(source) - 1)

LanguageInv ==
  /\ CompilerInv
  /\ PrecedencesOK(frames)
  /\ Reported(source, parser)
  /\ Understood
  /\ Accepted

-----------------------------------------------------------------------------
(* Parentheses and precedences as frames come and go.                      *)
LEMMA FramePushed ==
  ASSUME NEW fs \in Seq(FrameSet), NEW f \in FrameSet
  PROVE  LET new == Append(fs, f) IN
         /\ new \in Seq(FrameSet) /\ Len(new) = Len(fs) + 1 /\ new[Len(new)] = f
         /\ OpenParens(fs) \in Nat
         /\ OpenParens(new) = IF f.fn = "grouping" THEN OpenParens(fs) + 1 ELSE OpenParens(fs)
         /\ PrecedencesOK(fs)
            /\ (f.fn \in {"head", "tail"} => f.precedence >= PRECEDENCE_ASSIGNMENT)
            /\ (fs # <<>> /\ fs[Len(fs)].fn \in {"stmt", "grouping"} =>
                  f.precedence = PRECEDENCE_ASSIGNMENT)
            => PrecedencesOK(new)
<1> DEFINE new == Append(fs, f)
<1>1. /\ new \in Seq(FrameSet) /\ Len(new) = Len(fs) + 1 /\ new[Len(fs) + 1] = f
      /\ \A i \in 1..Len(fs) : new[i] = fs[i]
      /\ Len(fs) \in Nat /\ (fs = <<>> <=> Len(fs) = 0)
  OBVIOUS
<1> HIDE DEF new
<1>2. IsFiniteSet(Groupings(fs)) /\ Groupings(fs) \subseteq 1..Len(fs)
  <2>1. IsFiniteSet(1..Len(fs)) /\ Groupings(fs) \subseteq 1..Len(fs)
    BY <1>1, FS_Interval DEF Groupings
  <2> QED BY <2>1, FS_Subset
<1>3. OpenParens(fs) \in Nat
  BY <1>2, FS_CardinalityType DEF OpenParens
<1>4. OpenParens(new) = IF f.fn = "grouping" THEN OpenParens(fs) + 1 ELSE OpenParens(fs)
  <2>1. CASE f.fn = "grouping"
    <3>1. Groupings(new) = Groupings(fs) \cup {Len(fs) + 1}
      BY <1>1, <2>1 DEF Groupings
    <3>2. Len(fs) + 1 \notin Groupings(fs)
      BY <1>1 DEF Groupings
    <3>3. Cardinality(Groupings(fs) \cup {Len(fs) + 1}) = Cardinality(Groupings(fs)) + 1
      BY <1>2, <3>2, FS_AddElement
    <3> QED BY <2>1, <3>1, <3>3 DEF OpenParens
  <2>2. CASE f.fn # "grouping"
    <3>1. Groupings(new) = Groupings(fs)
      BY <1>1, <2>2 DEF Groupings
    <3> QED BY <2>2, <3>1 DEF OpenParens
  <2> QED BY <2>1, <2>2
<1>5. ASSUME PrecedencesOK(fs),
             f.fn \in {"head", "tail"} => f.precedence >= PRECEDENCE_ASSIGNMENT,
             fs # <<>> /\ fs[Len(fs)].fn \in {"stmt", "grouping"} =>
               f.precedence = PRECEDENCE_ASSIGNMENT
      PROVE  PrecedencesOK(new)
  <2>1. ASSUME NEW i \in 1..Len(new), new[i].fn \in {"head", "tail"}
        PROVE  new[i].precedence >= PRECEDENCE_ASSIGNMENT
    <3>1. i \in 1..Len(fs) \/ i = Len(fs) + 1
      BY <1>1
    <3> QED BY <1>1, <1>5, <2>1, <3>1 DEF PrecedencesOK
  <2>2. ASSUME NEW i \in 1..Len(new) - 1, new[i].fn \in {"stmt", "grouping"}
        PROVE  new[i + 1].precedence = PRECEDENCE_ASSIGNMENT
    <3>1. CASE i = Len(fs)
      BY <1>1, <1>5, <2>2, <3>1
    <3>2. CASE i # Len(fs)
      <4>1. i \in 1..Len(fs) - 1 /\ i \in 1..Len(fs) /\ i + 1 \in 1..Len(fs)
        BY <1>1, <3>2
      <4> QED BY <1>1, <1>5, <2>2, <4>1 DEF PrecedencesOK
    <3> QED BY <3>1, <3>2
  <2> QED BY <2>1, <2>2 DEF PrecedencesOK
<1> QED BY <1>1, <1>3, <1>4, <1>5 DEF new

(* The function on top returns.                                            *)
LEMMA FramePopped ==
  ASSUME NEW fs \in Seq(FrameSet), fs # <<>>
  PROVE  LET rest == SubSeq(fs, 1, Len(fs) - 1)
             f == fs[Len(fs)] IN
         /\ rest \in Seq(FrameSet) /\ f \in FrameSet /\ fs = Append(rest, f)
         /\ OpenParens(rest) \in Nat
         /\ OpenParens(fs) = IF f.fn = "grouping" THEN OpenParens(rest) + 1 ELSE OpenParens(rest)
         /\ PrecedencesOK(fs) =>
              /\ PrecedencesOK(rest)
              /\ f.fn \in {"head", "tail"} => f.precedence >= PRECEDENCE_ASSIGNMENT
              /\ rest # <<>> /\ rest[Len(rest)].fn \in {"stmt", "grouping"} =>
                   f.precedence = PRECEDENCE_ASSIGNMENT
<1> DEFINE rest == SubSeq(fs, 1, Len(fs) - 1)
           f == fs[Len(fs)]
<1>1. PICK n \in Nat : Len(fs) = n + 1 /\ Len(fs) - 1 = n
  <2>1. Len(fs) \in Nat /\ Len(fs) # 0
    OBVIOUS
  <2>2. Len(fs) - 1 \in Nat /\ Len(fs) = (Len(fs) - 1) + 1
    BY <2>1
  <2> QED BY <2>2
<1>2. rest = SubSeq(fs, 1, n)
  BY <1>1
<1>3. /\ rest \in Seq(FrameSet) /\ Len(rest) = n /\ f \in FrameSet
      /\ \A i \in 1..n : rest[i] = fs[i]
  BY <1>1, <1>2
<1> HIDE DEF rest
<1>4. rest = <<>> <=> n = 0
  BY <1>3
<1>5. fs = Append(rest, f)
  <2>4. f = fs[n + 1]
    BY <1>1
  <2> HIDE DEF f
  <2>1. /\ Append(rest, f) \in Seq(FrameSet) /\ Len(Append(rest, f)) = n + 1
        /\ \A i \in 1..n : Append(rest, f)[i] = rest[i]
        /\ Append(rest, f)[n + 1] = f
    BY <1>3
  <2>2. ASSUME NEW i \in 1..Len(fs) PROVE fs[i] = Append(rest, f)[i]
    <3>1. CASE i \in 1..n
      BY <1>3, <2>1, <3>1
    <3>2. CASE i = n + 1
      BY <2>1, <2>4, <3>2
    <3>3. i \in 1..n \/ i = n + 1
      BY <1>1
    <3> QED BY <3>1, <3>2, <3>3
  <2>3. Len(fs) = Len(Append(rest, f))
    BY <1>1, <2>1
  <2> QED BY <2>1, <2>2, <2>3, SeqEqual
<1>6. /\ OpenParens(rest) \in Nat
      /\ OpenParens(Append(rest, f))
           = IF f.fn = "grouping" THEN OpenParens(rest) + 1 ELSE OpenParens(rest)
  BY <1>3, FramePushed
<1>7. ASSUME PrecedencesOK(fs)
      PROVE  /\ PrecedencesOK(rest)
             /\ f.fn \in {"head", "tail"} => f.precedence >= PRECEDENCE_ASSIGNMENT
             /\ rest # <<>> /\ rest[Len(rest)].fn \in {"stmt", "grouping"} =>
                  f.precedence = PRECEDENCE_ASSIGNMENT
  <2>1. n + 1 \in 1..Len(fs)
    BY <1>1
  <2>2. f.fn \in {"head", "tail"} => f.precedence >= PRECEDENCE_ASSIGNMENT
    BY <1>1, <1>7, <2>1 DEF PrecedencesOK
  <2>3. ASSUME n # 0, rest[Len(rest)].fn \in {"stmt", "grouping"}
        PROVE  f.precedence = PRECEDENCE_ASSIGNMENT
    <3>1. n \in 1..n /\ n \in 1..Len(fs) - 1
      BY <1>1, <2>3
    <3> QED BY <1>1, <1>3, <1>7, <2>3, <3>1 DEF PrecedencesOK
  <2>4. PrecedencesOK(rest)
    <3>1. \A i \in 1..Len(rest) : i \in 1..Len(fs) /\ rest[i] = fs[i]
      BY <1>1, <1>3
    <3>2. \A i \in 1..Len(rest) - 1 :
            i \in 1..Len(fs) - 1 /\ rest[i] = fs[i] /\ rest[i + 1] = fs[i + 1]
      <4>1. ASSUME NEW i \in 1..Len(rest) - 1
            PROVE  i \in 1..Len(fs) - 1 /\ rest[i] = fs[i] /\ rest[i + 1] = fs[i + 1]
        <5>1. i \in 1..n /\ i + 1 \in 1..n /\ i \in 1..Len(fs) - 1
          BY <1>1, <1>3
        <5> QED BY <1>3, <5>1
      <4> QED BY <4>1
    <3> QED BY <1>7, <3>1, <3>2 DEF PrecedencesOK
  <2> QED BY <1>4, <2>2, <2>3, <2>4
<1> QED BY <1>3, <1>5, <1>6, <1>7 DEF rest

(* compiler_compile's frame is the first and a statement's the second.     *)
LEMMA OutermostFrames ==
  ASSUME CompilerInv, status = "running", Top.fn \in {"compile", "stmt"}
  PROVE  OpenParens(frames) = 0
<1>1. frames \in Seq(FrameSet) /\ frames # <<>> /\ CallChain(frames)
  BY RunningTypes
<1>2. Len(frames) \in Nat /\ Len(frames) > 0
  BY <1>1
<1>3. \A i \in 1..Len(frames) :
        frames[i].fn \in {"compile", "stmt", "head", "tail", "unary", "binary", "grouping"}
  <2>1. \A i \in 1..Len(frames) : frames[i] \in FrameSet
    BY <1>1
  <2> QED BY <2>1 DEF FrameSet
<1>4. ASSUME NEW i \in 1..Len(frames), i # 1
      PROVE  i - 1 \in 1..Len(frames) /\ Calls(frames[i - 1], frames[i])
  <2>1. i - 1 \in 1..Len(frames) - 1 /\ (i - 1) + 1 = i
    BY <1>2, <1>4
  <2> QED BY <1>1, <2>1 DEF CallChain
<1>5. \A i \in 1..Len(frames) : frames[i].fn = "compile" => i = 1
  BY <1>3, <1>4 DEF Calls
<1>6. ASSUME NEW i \in 1..Len(frames), frames[i].fn = "stmt" PROVE i = 2
  <2>1. i # 1
    BY <1>1, <1>6 DEF CallChain, CompileFrame, Frame
  <2>2. frames[i - 1].fn = "compile" /\ i - 1 \in 1..Len(frames)
    BY <1>3, <1>4, <1>6, <2>1 DEF Calls
  <2> QED BY <1>5, <2>2
<1>7. Len(frames) \in 1..Len(frames) /\ Len(frames) <= 2
  BY <1>2, <1>5, <1>6 DEF Top
<1>8. Groupings(frames) = {}
  <2>1. SUFFICES ASSUME NEW i \in 1..Len(frames), frames[i].fn = "grouping" PROVE FALSE
    BY DEF Groupings
  <2>2. i # Len(frames)
    BY <2>1 DEF Top
  <2>3. i = 1
    BY <1>2, <1>7, <2>2
  <2> QED BY <1>1, <2>1, <2>3 DEF CallChain, CompileFrame, Frame
<1> QED BY <1>8, FS_EmptySet DEF OpenParens

(* What the top frame returns to.                                          *)
LEMMA ReturnsTo ==
  ASSUME CompilerInv, status = "running", Top.fn # "compile"
  PROVE  /\ Callers \in Seq(FrameSet) /\ Callers # <<>>
         /\ Top.fn \in {"head", "tail"} =>
              Callers[Len(Callers)].fn \in {"stmt", "unary", "binary", "grouping"}
         /\ Top.fn \in {"unary", "binary", "grouping"} => Callers[Len(Callers)].fn = "tail"
         /\ Top.fn = "stmt" => Callers[Len(Callers)].fn = "compile"
<1>1. frames \in Seq(FrameSet) /\ frames # <<>> /\ CallChain(frames) /\ Top \in FrameSet
  BY RunningTypes
<1>2. /\ Callers \in Seq(FrameSet)
      /\ IF Callers = <<>> THEN Top = CompileFrame ELSE Calls(Callers[Len(Callers)], Top)
      /\ Callers # <<>> => Callers[Len(Callers)] \in FrameSet
  BY <1>1, ChainPop DEF Callers, Top
<1>3. Callers # <<>>
  BY <1>2 DEF CompileFrame, Frame
<1>4. /\ Calls(Callers[Len(Callers)], Top)
      /\ Callers[Len(Callers)].fn \in
           {"compile", "stmt", "head", "tail", "unary", "binary", "grouping"}
      /\ Top.fn \in {"compile", "stmt", "head", "tail", "unary", "binary", "grouping"}
  BY <1>1, <1>2, <1>3 DEF FrameSet
<1> QED BY <1>2, <1>3, <1>4 DEF Calls

(* Frames pushed at once are frames pushed one by one.                     *)
LEMMA TwoMore ==
  ASSUME NEW fs \in Seq(FrameSet), NEW f \in FrameSet, NEW g \in FrameSet
  PROVE  fs \o <<f, g>> = Append(Append(fs, f), g)
<1>1. /\ Len(fs) \in Nat /\ Len(fs \o <<f, g>>) = Len(fs) + 2
      /\ Len(Append(Append(fs, f), g)) = Len(fs) + 2
      /\ fs \o <<f, g>> \in Seq(FrameSet) /\ Append(Append(fs, f), g) \in Seq(FrameSet)
  OBVIOUS
<1>2. ASSUME NEW i \in 1..Len(fs) + 2
      PROVE  (fs \o <<f, g>>)[i] = Append(Append(fs, f), g)[i]
  <2>1. CASE i \in 1..Len(fs)
    BY <2>1
  <2>2. CASE i = Len(fs) + 1
    BY <2>2
  <2>3. CASE i = Len(fs) + 2
    BY <2>3
  <2> QED BY <1>1, <2>1, <2>2, <2>3
<1> QED BY <1>1, <1>2, SeqEqual

LEMMA ThreeMore ==
  ASSUME NEW fs \in Seq(FrameSet), NEW e \in FrameSet, NEW f \in FrameSet, NEW g \in FrameSet
  PROVE  fs \o <<e, f, g>> = Append(Append(Append(fs, e), f), g)
<1>1. /\ Len(fs) \in Nat /\ Len(fs \o <<e, f, g>>) = Len(fs) + 3
      /\ Len(Append(Append(Append(fs, e), f), g)) = Len(fs) + 3
      /\ fs \o <<e, f, g>> \in Seq(FrameSet)
      /\ Append(Append(Append(fs, e), f), g) \in Seq(FrameSet)
  OBVIOUS
<1>2. ASSUME NEW i \in 1..Len(fs) + 3
      PROVE  (fs \o <<e, f, g>>)[i] = Append(Append(Append(fs, e), f), g)[i]
  <2>1. CASE i \in 1..Len(fs)
    BY <2>1
  <2>2. CASE i = Len(fs) + 1
    BY <2>2
  <2>3. CASE i = Len(fs) + 2
    BY <2>3
  <2>4. CASE i = Len(fs) + 3
    BY <2>4
  <2> QED BY <1>1, <2>1, <2>2, <2>3, <2>4
<1> QED BY <1>1, <1>2, SeqEqual

-----------------------------------------------------------------------------
(* Errors and their reports.                                               *)

(* EOF and ERROR are the types of one token each.                          *)
LEMMA EofAndError ==
  ASSUME NEW token \in AllTokens
  PROVE  /\ token.type = "EOF" <=> token = EofToken
         /\ token.type = "ERROR" <=> token = ErrorToken
         /\ token.type \in TokenTypes \cup {"EOF", "ERROR"}
         /\ token \in Tokens => token.type \in TokenTypes
<1>1. \A t \in Tokens : t.type \in TokenTypes
  BY TokensAssumption
<1>2. "EOF" \notin TokenTypes /\ "ERROR" \notin TokenTypes
  BY DEF TokenTypes, Keywords
<1> QED BY <1>1, <1>2 DEF AllTokens, EofToken, ErrorToken

LEMMA ErrorIsNotEof == EofToken # ErrorToken
BY DEF EofToken, ErrorToken

(* What a report says of a source, it says of a longer one.                *)
LEMMA ReportKept ==
  ASSUME NEW tokens, NEW longer, TokenSequence(tokens), TokenSequence(longer),
         Begins(tokens, longer), tokens # <<>>,
         tokens[Len(tokens)] = EofToken => longer = tokens,
         NEW p, NEW q, p.hadError, Reported(tokens, p),
         q.hadError, q.report = p.report, q.state = p.state
  PROVE  Reported(longer, q)
<1> DEFINE pos == p.report.pos
<1>1. Len(tokens) \in Nat /\ Len(longer) \in Nat /\ Len(tokens) <= Len(longer)
  BY DEF TokenSequence, Begins
<1>2. pos \in 1..Len(tokens) /\ (SyntaxReport(tokens, p) \/ LexicalReport(tokens, p))
  BY DEF Reported
<1>3. q.report.pos = pos /\ q.report.kind = p.report.kind
  OBVIOUS
<1> HIDE DEF pos
<1>4. pos \in 1..Len(longer) /\ \A i \in 1..pos : longer[i] = tokens[i]
  BY <1>1, <1>2 DEF Begins
<1>5. /\ OutlookOf(longer, pos) = OutlookOf(tokens, pos)
      /\ OutlookOf(longer, pos - 1) = OutlookOf(tokens, pos - 1)
      /\ pos > 1 => OutlookOf(longer, pos - 2) = OutlookOf(tokens, pos - 2)
  <2>1. /\ pos \in 0..Len(tokens) /\ pos - 1 \in 0..Len(tokens)
        /\ pos > 1 => pos - 2 \in 0..Len(tokens)
    BY <1>1, <1>2
  <2> QED BY <2>1, OutlookKept
<1>6. ASSUME SyntaxReport(tokens, p) PROVE SyntaxReport(longer, q)
  <2>1. /\ p.report.kind = "SYNTAX" /\ NoErrorToken(tokens, pos)
        /\ OutlookOf(tokens, pos - 1).need # "dead"
        /\ OutlookOf(tokens, pos).need = "dead"
        /\ IF p.state = "UNEXPECTED_EOF"
           THEN /\ tokens[pos] = EofToken /\ pos = Len(tokens)
                /\ OutlookOf(tokens, pos - 1).need # "statement"
           ELSE tokens[pos] # EofToken
    BY <1>6 DEF SyntaxReport, pos
  <2>2. NoErrorToken(longer, pos)
    BY <1>4, <2>1 DEF NoErrorToken
  <2>3. longer[pos] = tokens[pos]
    BY <1>2, <1>4
  <2>4. CASE q.state = "UNEXPECTED_EOF"
    <3>1. longer[pos] = EofToken /\ pos = Len(longer) /\ OutlookOf(longer, pos - 1).need # "statement"
      BY <1>5, <2>1, <2>3, <2>4
    <3> QED BY <1>3, <1>5, <2>1, <2>2, <2>4, <3>1 DEF SyntaxReport
  <2>5. CASE q.state # "UNEXPECTED_EOF"
    <3>1. longer[pos] # EofToken
      BY <2>1, <2>3, <2>5
    <3> QED BY <1>3, <1>5, <2>1, <2>2, <2>5, <3>1 DEF SyntaxReport
  <2> QED BY <2>4, <2>5
<1>7. ASSUME LexicalReport(tokens, p) PROVE LexicalReport(longer, q)
  <2>1. /\ p.report.kind = "LEXICAL" /\ p.state = "PANIC"
        /\ tokens[pos] = ErrorToken /\ NoErrorToken(tokens, pos - 1)
        /\ pos > 1 => OutlookOf(tokens, pos - 2).need # "dead"
    BY <1>7 DEF LexicalReport, pos
  <2>2. NoErrorToken(longer, pos - 1)
    <3>1. \A i \in 1..pos - 1 : i \in 1..pos
      BY <1>1, <1>2
    <3> QED BY <1>4, <2>1, <3>1 DEF NoErrorToken
  <2>3. longer[pos] = ErrorToken
    BY <1>2, <1>4, <2>1
  <2> QED BY <1>3, <1>5, <2>1, <2>2, <2>3 DEF LexicalReport
<1> QED BY <1>2, <1>3, <1>4, <1>6, <1>7 DEF Reported

(* compiler_error_at of a token that no program continues with.            *)
LEMMA SyntaxErrorReported ==
  ASSUME NEW tokens, TokenSequence(tokens), NEW n, NEW p \in ParserSet(n),
         p.hadError <=> p.state # "OK", Reported(tokens, p), NEW pos \in 1..Len(tokens),
         ~p.hadError =>
           /\ OutlookOf(tokens, pos - 1).need # "dead"
           /\ OutlookOf(tokens, pos).need = "dead"
           /\ tokens[pos] = EofToken =>
                pos = Len(tokens) /\ OutlookOf(tokens, pos - 1).need # "statement"
  PROVE  Reported(tokens, CompilerErrorAt(p, "SYNTAX", pos, tokens[pos].type))
<1> DEFINE q == CompilerErrorAt(p, "SYNTAX", pos, tokens[pos].type)
<1>1. CASE p.hadError
  <2>1. q = p
    BY <1>1 DEF CompilerErrorAt
  <2> QED BY <2>1
<1>2. CASE ~p.hadError
  <2>1. /\ q.hadError /\ q.report = [kind |-> "SYNTAX", pos |-> pos]
        /\ q.state = IF tokens[pos].type = "EOF" THEN "UNEXPECTED_EOF" ELSE "PANIC"
    BY <1>2 DEF CompilerErrorAt, ParserSet
  <2> HIDE DEF q
  <2>2. q.report.kind = "SYNTAX" /\ q.report.pos = pos
    BY <2>1
  <2>3. tokens[pos] \in AllTokens /\ Len(tokens) \in Nat
    BY DEF TokenSequence
  <2>4. tokens[pos].type = "EOF" <=> tokens[pos] = EofToken
    BY <2>3, EofAndError
  <2>5. NoErrorToken(tokens, pos)
    <3>1. NoErrorToken(tokens, Len(tokens))
      BY <1>2 DEF Reported
    <3>2. \A i \in 1..pos : i \in 1..Len(tokens)
      BY <2>3
    <3> QED BY <3>1, <3>2 DEF NoErrorToken
  <2>6. SyntaxReport(tokens, q)
    BY <1>2, <2>1, <2>2, <2>4, <2>5 DEF SyntaxReport
  <2>7. Reported(tokens, q)
    BY <2>1, <2>2, <2>6 DEF Reported
  <2> QED BY <2>7 DEF q
<1> QED BY <1>1, <1>2

(* What lexer_scan yields: malformed lexemes, then one token.              *)
LEMMA ScanContents ==
  ASSUME NEW n \in 0..MaxErrors, NEW t \in Tokens \cup {EofToken}
  PROVE  /\ Scan(n, t) \in Seq(AllTokens) /\ Len(Scan(n, t)) = n + 1 /\ n \in Nat
         /\ \A i \in 1..n : Scan(n, t)[i] = ErrorToken
         /\ Scan(n, t)[n + 1] = t /\ t # ErrorToken
<1> DEFINE errors == [i \in 1..n |-> ErrorToken]
<1>1. n \in Nat
  BY BoundsAssumption
<1>2. /\ errors \in Seq(AllTokens) /\ Len(errors) = n
      /\ \A i \in 1..n : errors[i] = ErrorToken
  BY <1>1 DEF AllTokens
<1>3. <<t>> \in Seq(AllTokens) /\ Len(<<t>>) = 1 /\ <<t>>[1] = t
  BY DEF AllTokens
<1>4. Scan(n, t) = errors \o <<t>>
  BY DEF Scan
<1> HIDE DEF errors
<1>5. Joins(Scan(n, t), errors, <<t>>, AllTokens)
  BY <1>2, <1>3, <1>4, ConcatFacts
<1>6. t # ErrorToken
  <2>1. "ERROR" \notin TokenTypes
    BY DEF TokenTypes, Keywords
  <2> QED BY <2>1, TokensAssumption, ErrorIsNotEof DEF ErrorToken
<1> QED BY <1>1, <1>2, <1>3, <1>5, <1>6 DEF Joins

(* What a scan adds to the source.                                         *)
LEMMA ScannedTokens ==
  ASSUME source \in Seq(AllTokens), NEW scan \in Scans
  PROVE  /\ TokenSequence(source \o scan) /\ Begins(source, source \o scan)
         /\ Len(source \o scan) = Len(source) + Len(scan)
         /\ Len(scan) \in Nat /\ Len(source) \in Nat
         /\ AtEof => source \o scan = source /\ Len(scan) = 0
         /\ ~AtEof =>
              /\ Len(scan) > 0
              /\ \A i \in 1..Len(scan) - 1 : (source \o scan)[Len(source) + i] = ErrorToken
              /\ (source \o scan)[Len(source) + Len(scan)] # ErrorToken
<1> DEFINE whole == source \o scan
<1>1. scan \in Seq(AllTokens) /\ (AtEof => scan = <<>>) /\ (~AtEof => Len(scan) > 0)
  BY ScanFacts
<1>2. Joins(whole, source, scan, AllTokens)
  BY <1>1, ConcatFacts
<1>3. /\ whole \in Seq(AllTokens) /\ Len(whole) = Len(source) + Len(scan)
      /\ \A i \in 1..Len(source) : whole[i] = source[i]
      /\ \A i \in 1..Len(scan) : whole[Len(source) + i] = scan[i]
      /\ Len(scan) \in Nat /\ Len(source) \in Nat
  BY <1>1, <1>2 DEF Joins
<1> HIDE DEF whole
<1>4. AtEof => whole = source /\ Len(scan) = 0
  <2> HAVE AtEof
  <2>1. scan = <<>> /\ Len(scan) = 0
    BY <1>1
  <2>2. whole = source
    BY <2>1, ConcatEmptySeq DEF whole
  <2> QED BY <2>1, <2>2
<1>5. ASSUME ~AtEof
      PROVE  /\ Len(scan) > 0
             /\ \A i \in 1..Len(scan) - 1 : whole[Len(source) + i] = ErrorToken
             /\ whole[Len(source) + Len(scan)] # ErrorToken
  <2>1. PICK n \in 0..MaxErrors, t \in Tokens \cup {EofToken} : scan = Scan(n, t)
    BY <1>5 DEF Scans
  <2>2. n \in Nat
    BY BoundsAssumption
  <2>3. /\ Len(scan) = n + 1 /\ \A i \in 1..n : scan[i] = ErrorToken
        /\ scan[n + 1] # ErrorToken
    BY <2>1, ScanContents
  <2>4. /\ \A i \in 1..Len(scan) - 1 : whole[Len(source) + i] = ErrorToken
        /\ whole[Len(source) + Len(scan)] # ErrorToken
    <3>1. \A i \in 1..Len(scan) - 1 : i \in 1..n /\ i \in 1..Len(scan)
      BY <2>2, <2>3
    <3>2. Len(scan) \in 1..Len(scan) /\ Len(scan) = n + 1
      BY <2>2, <2>3
    <3> QED BY <1>3, <2>3, <3>1, <3>2
  <2>5. Len(scan) > 0
    BY <1>1, <1>5
  <2> QED BY <2>4, <2>5
<1>6. /\ Len(whole) = Len(source) + Len(scan)
      /\ TokenSequence(whole) /\ Begins(source, whole)
  BY <1>3 DEF TokenSequence, Begins
<1> QED BY <1>3, <1>4, <1>5, <1>6 DEF whole

(* compiler_advance reports the first error token it skips, and without an *)
(* error the source is one token longer, unless it had ended.              *)
OneMore(tokens, longer) ==
  /\ TokenSequence(longer) /\ Begins(tokens, longer)
  /\ longer = tokens \/ Len(longer) = Len(tokens) + 1

LEMMA AdvanceReported ==
  ASSUME source \in Seq(AllTokens), Len(source) > 0,
         parser.current = Len(source), NEW n, NEW p \in ParserSet(n), NEW scan \in Scans,
         p.hadError <=> p.state # "OK", Reported(source, p),
         ~p.hadError => OutlookOf(source, Len(source) - 1).need # "dead"
  PROVE  LET q == CompilerAdvance(p, scan) IN
         /\ Reported(source \o scan, q)
         /\ Begins(source, source \o scan)
         /\ p.hadError => q.hadError
         /\ ~q.hadError =>
              /\ OneMore(source, source \o scan)
              /\ AtEof => source \o scan = source
              /\ ~AtEof => Len(source \o scan) = Len(source) + 1
         /\ q.state = "OK" <=> ~q.hadError
<1> DEFINE whole == source \o scan
           q == CompilerAdvance(p, scan)
           k == Len(scan)
<1>1. /\ TokenSequence(whole) /\ Begins(source, whole)
      /\ Len(whole) = Len(source) + k
      /\ k \in Nat /\ Len(source) \in Nat
      /\ AtEof => whole = source /\ k = 0
      /\ ~AtEof =>
           /\ k > 0
           /\ \A i \in 1..k - 1 : whole[Len(source) + i] = ErrorToken
           /\ whole[Len(source) + k] # ErrorToken
  BY ScannedTokens
<1>2. TokenSequence(source) /\ source # <<>> /\ source[Len(source)] \in AllTokens
  BY DEF TokenSequence
<1>3. AtEof <=> source[Len(source)] = EofToken
  BY <1>2, EofAndError DEF AtEof, CurrentType
<1> DEFINE r == IF k > 1 THEN CompilerErrorAt(p, "LEXICAL", Len(source) + 1, "ERROR") ELSE p
<1>4. q = [r EXCEPT !.previous = p.current, !.current = Len(source) + Len(scan)]
  BY DEF CompilerAdvance
<1> HIDE DEF whole, q, k
<1>5. /\ r.hadError = IF k > 1 THEN TRUE ELSE p.hadError
      /\ r.report = IF ~p.hadError /\ k > 1
                    THEN [kind |-> "LEXICAL", pos |-> Len(source) + 1] ELSE p.report
      /\ r.state = IF ~p.hadError /\ k > 1 THEN "PANIC" ELSE p.state
      /\ r \in [previous : 0..n, current : 0..n,
                state : {"OK", "PANIC", "UNEXPECTED_EOF"}, hadError : BOOLEAN,
                report : {r.report}]
  BY DEF CompilerErrorAt, ParserSet
<1> HIDE DEF r
<1>6. q.hadError = r.hadError /\ q.report = r.report /\ q.state = r.state
  BY <1>4, <1>5
<1>7. p.hadError \in BOOLEAN
  BY DEF ParserSet
<1>8. CASE p.hadError
  <2>1. q.hadError /\ q.report = p.report /\ q.state = p.state
    BY <1>5, <1>6, <1>8
  <2>2. source[Len(source)] = EofToken => whole = source
    BY <1>1, <1>3
  <2>3. Reported(whole, q)
    BY <1>1, <1>2, <1>8, <2>1, <2>2, ReportKept
  <2> QED BY <1>1, <1>8, <2>1, <2>3 DEF q, whole
<1>9. CASE ~p.hadError /\ k > 1
  <2> DEFINE pos == Len(source) + 1
  <2>1. /\ q.hadError /\ q.report = [kind |-> "LEXICAL", pos |-> pos]
        /\ q.state = "PANIC"
    BY <1>5, <1>6, <1>9
  <2>2. ~AtEof /\ whole[pos] = ErrorToken /\ pos \in 1..Len(whole)
    <3>1. ~AtEof
      BY <1>1, <1>9
    <3>2. 1 \in 1..k - 1
      BY <1>1, <1>9
    <3> QED BY <1>1, <1>9, <3>1, <3>2
  <2>3. NoErrorToken(source, Len(source))
    BY <1>9 DEF Reported
  <2>4. NoErrorToken(whole, pos - 1)
    <3>1. pos - 1 = Len(source)
      BY <1>1
    <3> QED BY <1>1, <2>3, <3>1 DEF NoErrorToken, Begins
  <2>5. OutlookOf(whole, pos - 2).need # "dead"
    <3>1. pos - 2 = Len(source) - 1 /\ Len(source) - 1 \in 0..Len(source)
      BY <1>1
    <3>2. OutlookOf(whole, Len(source) - 1) = OutlookOf(source, Len(source) - 1)
      BY <1>1, <1>2, <3>1, OutlookKept
    <3> QED BY <1>9, <3>1, <3>2
  <2> HIDE DEF pos
  <2>6. q.report.kind = "LEXICAL" /\ q.report.pos = pos
    BY <2>1
  <2>7. LexicalReport(whole, q)
    BY <2>1, <2>2, <2>4, <2>5, <2>6 DEF LexicalReport
  <2>8. Reported(whole, q)
    BY <2>1, <2>2, <2>6, <2>7 DEF Reported
  <2> QED BY <1>1, <2>1, <2>8 DEF q, whole
<1>10. CASE ~p.hadError /\ ~(k > 1)
  <2>1. ~q.hadError /\ q.state = "OK"
    BY <1>5, <1>6, <1>10
  <2>2. /\ AtEof => whole = source
        /\ ~AtEof => Len(whole) = Len(source) + 1
    BY <1>1, <1>10
  <2>3. OneMore(source, whole)
    BY <1>1, <2>2 DEF OneMore
  <2>4. NoErrorToken(source, Len(source))
    BY <1>10 DEF Reported
  <2>5. NoErrorToken(whole, Len(whole))
    <3>1. CASE AtEof
      BY <2>2, <2>4, <3>1
    <3>2. CASE ~AtEof
      <4>1. k = 1 /\ whole[Len(source) + 1] # ErrorToken /\ Len(whole) = Len(source) + 1
        BY <1>1, <1>10, <3>2
      <4>2. \A i \in 1..Len(whole) : i \in 1..Len(source) \/ i = Len(source) + 1
        BY <1>1, <4>1
      <4> QED BY <1>1, <2>4, <4>1, <4>2 DEF NoErrorToken, Begins
    <3> QED BY <3>1, <3>2
  <2>6. Reported(whole, q)
    BY <2>1, <2>5 DEF Reported
  <2> QED BY <1>1, <1>10, <2>1, <2>2, <2>3, <2>6 DEF q, whole
<1> QED BY <1>7, <1>8, <1>9, <1>10

-----------------------------------------------------------------------------
(* Operators are the types that have a precedence.                         *)
LEMMA InfixPrecedence ==
  \A type : /\ PrecedenceOf(type) \in Nat
            /\ PrecedenceOf(type) > 0 <=> type \in InfixTypes
            /\ type \in InfixTypes => type \notin {"SEMICOLON", "CLOSE_PAREN", "EOF", "NUMBER", "STRING"}
            /\ type \in InfixTypes => RightOperandPrecedence(type) >= 1
<1>1. Len(Levels) = 5 /\ 1..Len(Levels) = {1, 2, 3, 4, 5}
  BY DEF Levels
<1>2. /\ Levels[1] = {"EQUAL_EQUAL", "BANG_EQUAL"}
      /\ Levels[2] = {"LESS", "LESS_EQUAL", "GREATER", "GREATER_EQUAL"}
      /\ Levels[3] = {"DOT_DOT"} /\ Levels[4] = {"PLUS", "MINUS"}
      /\ Levels[5] = {"STAR", "SLASH", "PERCENT"}
  BY DEF Levels
<1>3. InfixTypes = {"EQUAL_EQUAL", "BANG_EQUAL", "LESS", "LESS_EQUAL", "GREATER",
                    "GREATER_EQUAL", "DOT_DOT", "PLUS", "MINUS", "STAR", "SLASH", "PERCENT"}
  <2>1. \A t : t \in InfixTypes <=> \E l \in {1, 2, 3, 4, 5} : t \in Levels[l]
    BY <1>1 DEF InfixTypes
  <2> QED BY <1>2, <2>1
<1> SUFFICES ASSUME NEW type
             PROVE  /\ PrecedenceOf(type) \in Nat
                    /\ PrecedenceOf(type) > 0 <=> type \in InfixTypes
                    /\ type \in InfixTypes => type \notin {"SEMICOLON", "CLOSE_PAREN", "EOF", "NUMBER", "STRING"}
                    /\ type \in InfixTypes => RightOperandPrecedence(type) >= 1
  OBVIOUS
<1>4. PrecedenceOf(type) \in Nat /\ (PrecedenceOf(type) > 0 <=> type \in InfixTypes)
  BY <1>3 DEF PrecedenceOf, PRECEDENCE_NONE, PRECEDENCE_EQUALITY, PRECEDENCE_COMPARISON,
              PRECEDENCE_CONCATENATION, PRECEDENCE_TERM, PRECEDENCE_FACTOR
<1>5. type \in InfixTypes => RightOperandPrecedence(type) >= 1
  BY <1>4 DEF RightOperandPrecedence
<1> QED BY <1>3, <1>4, <1>5

-----------------------------------------------------------------------------
(* Literals and the instructions that load them.                           *)

(* The literals up to a position are finitely many.                        *)
LEMMA LiteralsCount ==
  ASSUME NEW tokens, NEW n \in Nat
  PROVE  /\ IsFiniteSet(Literals(tokens, n)) /\ Literals(tokens, n) \subseteq 1..n
         /\ Cardinality(Literals(tokens, n)) \in Nat
<1>1. IsFiniteSet(1..n) /\ Literals(tokens, n) \subseteq 1..n
  BY FS_Interval DEF Literals
<1>2. IsFiniteSet(Literals(tokens, n))
  BY <1>1, FS_Subset
<1> QED BY <1>1, <1>2, FS_CardinalityType

(* Sources that agree up to a position have the same literals there.       *)
LEMMA LiteralsAgree ==
  ASSUME NEW tokens, NEW longer, NEW n \in Nat, \A i \in 1..n : longer[i] = tokens[i]
  PROVE  \A k \in 0..n : Literals(longer, k) = Literals(tokens, k)
<1> SUFFICES ASSUME NEW k \in 0..n PROVE Literals(longer, k) = Literals(tokens, k)
  OBVIOUS
<1>1. \A i \in 1..k : longer[i] = tokens[i]
  OBVIOUS
<1> QED BY <1>1 DEF Literals

(* How one more token changes the literals.                                *)
LEMMA NextLiteral ==
  ASSUME NEW tokens, NEW n \in Nat
  PROVE  IF tokens[n + 1].type \in {"NUMBER", "STRING"}
         THEN /\ Literals(tokens, n + 1) = Literals(tokens, n) \cup {n + 1}
              /\ Cardinality(Literals(tokens, n + 1)) = Cardinality(Literals(tokens, n)) + 1
         ELSE Literals(tokens, n + 1) = Literals(tokens, n)
<1>1. \A p : p \in 1..n + 1 <=> p \in 1..n \/ p = n + 1
  OBVIOUS
<1>2. CASE tokens[n + 1].type \in {"NUMBER", "STRING"}
  <2>1. Literals(tokens, n + 1) = Literals(tokens, n) \cup {n + 1}
    BY <1>1, <1>2 DEF Literals
  <2>2. n + 1 \notin Literals(tokens, n) /\ IsFiniteSet(Literals(tokens, n))
    BY LiteralsCount
  <2>3. Cardinality(Literals(tokens, n) \cup {n + 1}) = Cardinality(Literals(tokens, n)) + 1
    BY <2>2, FS_AddElement
  <2> QED BY <1>2, <2>1, <2>3
<1>3. CASE tokens[n + 1].type \notin {"NUMBER", "STRING"}
  BY <1>1, <1>3 DEF Literals
<1> QED BY <1>2, <1>3

(* The instructions added load nothing; two sources agree as far as n.     *)
LoadsNothing(code, more) ==
  /\ Begins(code, more)
  /\ \A i \in 1..Len(more) : i > Len(code) => more[i].op \notin ConstantOps
AgreeTo(tokens, longer, n) == \A i \in 1..n : longer[i] = tokens[i]
PassesNoLiteral(tokens, longer, n, m) ==
  /\ AgreeTo(tokens, longer, n)
  /\ \/ m = n
     \/ m = n + 1 /\ longer[n + 1].type \notin {"NUMBER", "STRING"}

(* Nothing is loaded and no literal is passed.                             *)
LEMMA NothingLoaded ==
  ASSUME NEW code \in Seq(Instructions), NEW more \in Seq(Instructions), LoadsNothing(code, more),
         NEW constants, NEW objects, NEW tokens, NEW longer, NEW n \in Nat,
         NEW m \in Nat, PassesNoLiteral(tokens, longer, n, m),
         LoadsLiterals(code, constants, objects, tokens, n)
  PROVE  LoadsLiterals(more, constants, objects, longer, m)
<1>1. /\ Len(code) \in Nat /\ Len(more) \in Nat /\ Begins(code, more)
      /\ \A i \in 1..Len(more) : i > Len(code) => more[i].op \notin ConstantOps
      /\ \A i \in 1..n : longer[i] = tokens[i]
      /\ \/ m = n
         \/ m = n + 1 /\ longer[n + 1].type \notin {"NUMBER", "STRING"}
  BY DEF LoadsNothing, AgreeTo, PassesNoLiteral
<1>2. Loads(more) = Loads(code) /\ \A i \in Loads(code) : more[i] = code[i]
  BY <1>1 DEF Loads, Begins
<1>3. Literals(longer, m) = Literals(tokens, n)
  <2>1. Literals(longer, n) = Literals(tokens, n)
    <3>1. n \in 0..n
      OBVIOUS
    <3> QED BY <1>1, <3>1, LiteralsAgree
  <2>2. m = n + 1 => m # n /\ Literals(longer, n + 1) = Literals(longer, n)
    BY <1>1, NextLiteral
  <2> QED BY <1>1, <2>1, <2>2
<1>4. /\ Len(constants) = Cardinality(Literals(tokens, n))
      /\ {code[i].pos : i \in Loads(code)} = Literals(tokens, n)
      /\ \A i, k \in Loads(code) : i < k => code[i].pos < code[k].pos
      /\ \A i \in Loads(code) :
           /\ code[i].arg = Cardinality(Literals(tokens, code[i].pos - 1))
           /\ DenotedBy(constants[code[i].arg + 1], tokens[code[i].pos], objects)
  BY DEF LoadsLiterals
<1>5. {more[i].pos : i \in Loads(more)} = {code[i].pos : i \in Loads(code)}
  BY <1>2
<1>6. \A i \in Loads(code) : code[i].pos \in 1..n
  BY <1>4, LiteralsCount
<1>7. ASSUME NEW i \in Loads(more)
      PROVE  /\ more[i].arg = Cardinality(Literals(longer, more[i].pos - 1))
             /\ DenotedBy(constants[more[i].arg + 1], longer[more[i].pos], objects)
  <2>1. i \in Loads(code) /\ more[i] = code[i]
    BY <1>2
  <2>2. code[i].pos \in 1..n /\ code[i].pos - 1 \in 0..n
    BY <1>6, <2>1
  <2>3. Literals(longer, code[i].pos - 1) = Literals(tokens, code[i].pos - 1)
    BY <1>1, <2>2, LiteralsAgree
  <2>4. longer[code[i].pos] = tokens[code[i].pos]
    BY <1>1, <2>2
  <2> QED BY <1>4, <2>1, <2>3, <2>4
<1>8. \A i, k \in Loads(more) : i < k => more[i].pos < more[k].pos
  BY <1>2, <1>4
<1> QED BY <1>3, <1>4, <1>5, <1>7, <1>8 DEF LoadsLiterals

(* A literal is passed and loaded.                                         *)
LEMMA LiteralLoaded ==
  ASSUME NEW code \in Seq(Instructions), NEW more \in Seq(Instructions), Begins(code, more),
         Len(more) = Len(code) + 1,
         NEW objects \in Seq(ObjectSet), NEW heapThen \in Seq(ObjectSet),
         Begins(objects, heapThen),
         NEW constants \in Seq(NumberValues \cup ObjectValues(Len(objects))),
         NEW value, NEW pool, pool = Append(constants, value),
         NEW tokens, NEW longer, NEW n \in Nat,
         AgreeTo(tokens, longer, n),
         longer[n + 1].type \in {"NUMBER", "STRING"},
         DenotedBy(value, longer[n + 1], heapThen),
         more[Len(code) + 1].op \in ConstantOps,
         more[Len(code) + 1].arg = Len(constants),
         more[Len(code) + 1].pos = n + 1,
         \A i \in Loads(code) : code[i].arg < Len(constants),
         LoadsLiterals(code, constants, objects, tokens, n)
  PROVE  LoadsLiterals(more, pool, heapThen, longer, n + 1)
<1> DEFINE new == Len(code) + 1
           all == NumberValues \cup ObjectValues(Len(objects))
<1>1. Len(code) \in Nat /\ Len(constants) \in Nat /\ new \in Nat /\ new \in 1..Len(more)
  OBVIOUS
<1>2. /\ Len(pool) = Len(constants) + 1 /\ pool[Len(constants) + 1] = value
      /\ \A i \in 1..Len(constants) : pool[i] = constants[i] /\ constants[i] \in all
  OBVIOUS
<1> HIDE DEF all
<1>3. Loads(more) = Loads(code) \cup {new}
  <2>1. \A i : i \in 1..Len(more) <=> i \in 1..Len(code) \/ i = new
    BY <1>1
  <2> QED BY <1>1, <2>1 DEF Loads, Begins
<1>4. \A i \in Loads(code) : more[i] = code[i] /\ i \in 1..Len(code)
  BY DEF Loads, Begins
<1>5. /\ more[new].pos = n + 1 /\ more[new].arg = Len(constants)
  OBVIOUS
<1> HIDE DEF new
<1>6. /\ Len(constants) = Cardinality(Literals(tokens, n))
      /\ {code[i].pos : i \in Loads(code)} = Literals(tokens, n)
      /\ \A i, k \in Loads(code) : i < k => code[i].pos < code[k].pos
      /\ \A i \in Loads(code) :
           /\ code[i].arg = Cardinality(Literals(tokens, code[i].pos - 1))
           /\ DenotedBy(constants[code[i].arg + 1], tokens[code[i].pos], objects)
  BY DEF LoadsLiterals
<1> \A i \in 1..n : longer[i] = tokens[i]
  BY DEF AgreeTo
<1>7. \A k \in 0..n : Literals(longer, k) = Literals(tokens, k)
  BY LiteralsAgree
<1>8. n \in 0..n
  OBVIOUS
<1>9. /\ Literals(longer, n + 1) = Literals(tokens, n) \cup {n + 1}
      /\ Cardinality(Literals(longer, n + 1)) = Cardinality(Literals(tokens, n)) + 1
  <2>1. Literals(longer, n) = Literals(tokens, n)
    BY <1>7, <1>8
  <2> QED BY <2>1, NextLiteral
<1>10. \A i \in Loads(code) : code[i].pos \in 1..n
  BY <1>6, LiteralsCount
<1>11. Len(pool) = Cardinality(Literals(longer, n + 1))
  BY <1>2, <1>6, <1>9
<1>12. {more[i].pos : i \in Loads(more)} = Literals(longer, n + 1)
  <2>1. {more[i].pos : i \in Loads(more)} = {more[i].pos : i \in Loads(code)} \cup {more[new].pos}
    BY <1>3
  <2>2. {more[i].pos : i \in Loads(code)} = {code[i].pos : i \in Loads(code)}
    BY <1>4
  <2> QED BY <1>5, <1>6, <1>9, <2>1, <2>2
<1>13. ASSUME NEW i \in Loads(more), NEW k \in Loads(more), i < k
       PROVE  more[i].pos < more[k].pos
  <2>1. i \in Loads(code) /\ i \in Nat
    BY <1>1, <1>3, <1>4, <1>13 DEF new
  <2>2. CASE k \in Loads(code)
    BY <1>4, <1>6, <1>13, <2>1, <2>2
  <2>3. CASE k = new
    BY <1>4, <1>5, <1>10, <2>1, <2>3
  <2> QED BY <1>3, <2>2, <2>3
<1>14. ASSUME NEW constant \in all, NEW token, DenotedBy(constant, token, objects)
       PROVE  DenotedBy(constant, token, heapThen)
  <2>1. CASE token.type = "NUMBER"
    BY <1>14, <2>1 DEF DenotedBy
  <2>2. CASE token.type # "NUMBER"
    <3>1. constant.kind = "object" /\ objects[constant.object].text = token.literal.text
      BY <1>14, <2>2 DEF DenotedBy
    <3>2. constant.object \in 1..Len(objects)
      BY <1>14, <3>1 DEF all, NumberValues, ObjectValues
    <3>3. heapThen[constant.object] = objects[constant.object]
      BY <3>2 DEF Begins
    <3> QED BY <2>2, <3>1, <3>3 DEF DenotedBy
  <2> QED BY <2>1, <2>2
<1>15. ASSUME NEW i \in Loads(more)
       PROVE  /\ more[i].arg = Cardinality(Literals(longer, more[i].pos - 1))
              /\ DenotedBy(pool[more[i].arg + 1], longer[more[i].pos], heapThen)
  <2>1. CASE i \in Loads(code)
    <3>1. more[i] = code[i] /\ code[i].pos \in 1..n /\ code[i].pos - 1 \in 0..n
      BY <1>4, <1>10, <2>1
    <3>2. Literals(longer, code[i].pos - 1) = Literals(tokens, code[i].pos - 1)
      BY <1>7, <3>1
    <3>3. longer[code[i].pos] = tokens[code[i].pos]
      BY <3>1
    <3>4. code[i].arg \in Nat /\ code[i].arg + 1 \in 1..Len(constants)
      <4>1. code[i] \in Instructions
        BY <1>4, <2>1
      <4>2. code[i].arg \in Nat
        BY <4>1 DEF Instructions
      <4> QED BY <1>1, <2>1, <4>2
    <3>5. /\ pool[code[i].arg + 1] = constants[code[i].arg + 1]
          /\ constants[code[i].arg + 1] \in all
      BY <1>2, <3>4
    <3>6. DenotedBy(constants[code[i].arg + 1], tokens[code[i].pos], heapThen)
      BY <1>6, <1>14, <2>1, <3>5
    <3> QED BY <1>6, <2>1, <3>1, <3>2, <3>3, <3>5, <3>6
  <2>2. CASE i = new
    <3>1. (n + 1) - 1 = n
      OBVIOUS
    <3> QED BY <1>2, <1>5, <1>6, <1>7, <1>8, <2>2, <3>1
  <2> QED BY <1>3, <2>1, <2>2
<1> QED BY <1>11, <1>12, <1>13, <1>15 DEF LoadsLiterals

-----------------------------------------------------------------------------
(* What every step of a running compilation starts from.                   *)
LEMMA Situation ==
  ASSUME LanguageInv, status = "running"
  PROVE  /\ TokenSequence(source) /\ source \in Seq(AllTokens)
         /\ Len(source) \in Nat /\ Len(source) > 0
         /\ parser \in ParserSet(Len(source)) /\ parser.current = Len(source)
         /\ (parser.hadError <=> parser.state # "OK")
         /\ CurrentType = source[Len(source)].type /\ source[Len(source)] \in AllTokens
         /\ (AtEof <=> CurrentType = "EOF")
         /\ frames \in Seq(FrameSet) /\ frames # <<>> /\ Top \in FrameSet
         /\ Top = frames[Len(frames)]
         /\ OpenParens(frames) \in Nat
         /\ PrecedencesOK(frames) /\ Reported(source, parser)
         /\ ~parser.hadError =>
              /\ Expects(source, frames)
              /\ Loaded(Len(source) - 1)
              /\ OutlookOf(source, Len(source) - 1).need # "dead"
<1>1. CompilerInv /\ PrecedencesOK(frames) /\ Reported(source, parser) /\ Understood
  BY DEF LanguageInv
<1>2. /\ source \in Seq(AllTokens) /\ Len(source) \in Nat
      /\ parser \in ParserSet(Len(source))
      /\ parser.current = Len(source) /\ parser.current > 0
      /\ (parser.hadError <=> parser.state # "OK")
      /\ source[parser.current] \in AllTokens
      /\ frames \in Seq(FrameSet) /\ frames # <<>> /\ Top \in FrameSet
  BY <1>1, RunningTypes
<1>3. OpenParens(frames) \in Nat
  BY <1>2, FramePushed
<1>4. ASSUME ~parser.hadError
      PROVE  /\ Expects(source, frames) /\ Loaded(Len(source) - 1)
             /\ OutlookOf(source, Len(source) - 1).need # "dead"
  <2>1. Expects(source, frames) /\ Loaded(Len(source) - 1)
    BY <1>1, <1>4 DEF Understood
  <2>2. OutlookOf(source, Len(source) - 1).need \in {"statement", "operand", "operator"}
    BY <2>1 DEF Expects, Need
  <2> QED BY <2>1, <2>2
<1> QED BY <1>1, <1>2, <1>3, <1>4 DEF TokenSequence, CurrentType, AtEof, Top

(* What a step that ends nothing has to establish.                         *)
LEMMA AssembleLanguage ==
  ASSUME CompilerInv', status' \in {"running", "exit"},
         PrecedencesOK(frames'), Reported(source', parser'),
         ~parser'.hadError /\ status' = "running" =>
           /\ Expects(source', frames')
           /\ LoadsLiterals(chunk'.code, chunk'.constants, gcObjects', source', Len(source') - 1)
  PROVE  LanguageInv'
<1>1. ~Finished'
  BY DEF Finished
<1> QED BY <1>1 DEF LanguageInv, Understood, Loaded, Accepted

(* A scan: what is reported of the longer source, and by how much it grew. *)
ScannedOn ==
  /\ Reported(source', parser')
  /\ TokenSequence(source') /\ Begins(source, source')
  /\ ~parser'.hadError =>
       /\ ~parser.hadError
       /\ AtEof => source' = source
       /\ ~AtEof => Len(source') = Len(source) + 1

(* compiler_advance, after an error or without one.                        *)
LEMMA AdvanceOn ==
  ASSUME LanguageInv, status = "running", NEW scan \in Scans,
         source' = source \o scan, parser' = CompilerAdvance(parser, scan)
  PROVE  ScannedOn
<1>1. /\ source \in Seq(AllTokens) /\ Len(source) > 0 /\ parser.current = Len(source)
      /\ parser \in ParserSet(Len(source)) /\ (parser.hadError <=> parser.state # "OK")
      /\ Reported(source, parser)
      /\ ~parser.hadError => OutlookOf(source, Len(source) - 1).need # "dead"
  BY Situation
<1>2. LET q == CompilerAdvance(parser, scan) IN
      /\ Reported(source \o scan, q)
      /\ Begins(source, source \o scan)
      /\ parser.hadError => q.hadError
      /\ ~q.hadError =>
           /\ AtEof => source \o scan = source
           /\ ~AtEof => Len(source \o scan) = Len(source) + 1
  BY <1>1, AdvanceReported
<1>3. TokenSequence(source \o scan)
  BY <1>1, ScannedTokens
<1> QED BY <1>2, <1>3 DEF ScannedOn

(* Consuming another token than the expected one is a syntax error at it.  *)
LEMMA ConsumeOn ==
  ASSUME LanguageInv, status = "running", NEW scan \in Scans, NEW type,
         source' = source \o scan, parser' = CompilerConsume(parser, type, scan),
         ~parser.hadError /\ CurrentType # type =>
           /\ OutlookOf(source, Len(source)).need = "dead"
           /\ OutlookOf(source, Len(source) - 1).need # "statement"
  PROVE  ScannedOn /\ (~parser'.hadError => CurrentType = type)
<1>1. CASE CurrentType = type
  <2>1. parser' = CompilerAdvance(parser, scan)
    BY <1>1 DEF CompilerConsume
  <2> QED BY <1>1, <2>1, AdvanceOn
<1>2. CASE CurrentType # type
  <2> DEFINE p == CompilerErrorAt(parser, "SYNTAX", parser.current, CurrentType)
  <2>1. /\ source \in Seq(AllTokens) /\ TokenSequence(source)
        /\ Len(source) > 0 /\ Len(source) \in Nat /\ parser.current = Len(source)
        /\ parser \in ParserSet(Len(source)) /\ (parser.hadError <=> parser.state # "OK")
        /\ Reported(source, parser) /\ CurrentType = source[Len(source)].type
        /\ ~parser.hadError => OutlookOf(source, Len(source) - 1).need # "dead"
    BY Situation
  <2>2. Len(source) \in 1..Len(source)
    BY <2>1
  <2>3. Reported(source, CompilerErrorAt(parser, "SYNTAX", Len(source), source[Len(source)].type))
    BY <1>2, <2>1, <2>2, SyntaxErrorReported
  <2>4. Reported(source, p)
    BY <2>1, <2>3
  <2>5. /\ p \in ParserSet(Len(source)) /\ (p.hadError <=> p.state # "OK") /\ p.hadError
    BY <2>1, ErrorAtFacts
  <2>6. parser' = CompilerAdvance(p, scan)
    BY <1>2 DEF CompilerConsume
  <2> HIDE DEF p
  <2>7. LET q == CompilerAdvance(p, scan) IN
        /\ Reported(source \o scan, q)
        /\ Begins(source, source \o scan)
        /\ p.hadError => q.hadError
    BY <2>1, <2>4, <2>5, AdvanceReported
  <2>8. TokenSequence(source \o scan)
    BY <2>1, ScannedTokens
  <2> QED BY <2>5, <2>6, <2>7, <2>8 DEF ScannedOn
<1> QED BY <1>1, <1>2

(* The outlook once the current token is passed.                           *)
LEMMA Onward ==
  ASSUME LanguageInv, status = "running", TokenSequence(source'), Begins(source, source'),
         Len(source') = Len(source) + 1
  PROVE  /\ OutlookOf(source', Len(source') - 1)
              = After(OutlookOf(source, Len(source) - 1), CurrentType)
         /\ Len(source') - 1 = Len(source) /\ Len(source) = (Len(source) - 1) + 1
         /\ \A i \in 1..Len(source) - 1 : source'[i] = source[i]
         /\ source'[Len(source)] = source[Len(source)]
         /\ Len(source) - 1 \in Nat
<1>1. /\ TokenSequence(source) /\ Len(source) \in Nat /\ Len(source) > 0
      /\ CurrentType = source[Len(source)].type
  BY Situation
<1>2. /\ Len(source') - 1 = Len(source) /\ Len(source) \in 0..Len(source)
      /\ Len(source) - 1 \in 0..Len(source) - 1 /\ (Len(source) - 1) + 1 = Len(source)
  BY <1>1
<1>3. OutlookOf(source', Len(source)) = OutlookOf(source, Len(source))
  BY <1>1, <1>2, OutlookKept
<1>4. OutlookOf(source, (Len(source) - 1) + 1)
        = After(OutlookOf(source, Len(source) - 1), source[(Len(source) - 1) + 1].type)
  BY <1>1, <1>2, OutlookOfFacts
<1> QED BY <1>1, <1>2, <1>3, <1>4 DEF Begins

(* The outlook past the current token.                                     *)
LEMMA OutlookPast ==
  ASSUME LanguageInv, status = "running"
  PROVE  OutlookOf(source, Len(source)) = After(OutlookOf(source, Len(source) - 1), CurrentType)
<1>1. /\ TokenSequence(source) /\ Len(source) \in Nat /\ Len(source) > 0
      /\ CurrentType = source[Len(source)].type
  BY Situation
<1>2. Len(source) - 1 \in 0..Len(source) - 1 /\ (Len(source) - 1) + 1 = Len(source)
  BY <1>1
<1>4. OutlookOf(source, (Len(source) - 1) + 1)
        = After(OutlookOf(source, Len(source) - 1), source[(Len(source) - 1) + 1].type)
  BY <1>1, <1>2, OutlookOfFacts
<1> QED BY <1>1, <1>2, <1>4

(* What the parse rules call and what the grammar allows.                  *)
LEMMA AfterStatement ==
  /\ After(Need("statement", 0), "PRINT") = Need("operand", 0)
  /\ \A type : type # "PRINT" => After(Need("statement", 0), type) = AfterOperand(0, type)
BY DEF After, Need

(* The prefix handlers are called for what an operand begins with.         *)
LEMMA AfterNud ==
  ASSUME NEW depth, NEW type
  PROVE  /\ After(Need("operand", depth), type) = AfterOperand(depth, type)
         /\ Nud(type) = "NULL" => AfterOperand(depth, type) = Dead
         /\ Nud(type) = "compile_unary_expr" => AfterOperand(depth, type) = Need("operand", depth)
         /\ Nud(type) = "compile_grouping_expr" =>
              AfterOperand(depth, type) = Need("operand", depth + 1)
         /\ Nud(type) \in {"compile_invariable_literal", "compile_numeric_literal",
                           "compile_string_literal"} =>
              AfterOperand(depth, type) = Need("operator", depth)
         /\ Nud(type) \in {"NULL", "compile_unary_expr", "compile_grouping_expr",
                           "compile_invariable_literal", "compile_numeric_literal",
                           "compile_string_literal"}
         /\ Nud(type) = "compile_numeric_literal" <=> type = "NUMBER"
         /\ Nud(type) = "compile_string_literal" <=> type = "STRING"
         /\ Nud("EOF") = "NULL"
<1>1. After(Need("operand", depth), type) = AfterOperand(depth, type)
  BY DEF After, Need
<1>2. type \in {"NIL", "TRUE", "FALSE", "NUMBER", "STRING", "MINUS", "BANG", "OPEN_PAREN"}
        \/ type \notin {"NIL", "TRUE", "FALSE", "NUMBER", "STRING", "MINUS", "BANG", "OPEN_PAREN"}
  OBVIOUS
<1> QED BY <1>1, <1>2 DEF AfterOperand, Nud, LiteralTypes, PrefixTypes

(* What may follow an operand.                                             *)
LEMMA AfterOperator ==
  ASSUME NEW depth \in Nat, NEW type
  PROVE  LET after == After(Need("operator", depth), type) IN
         /\ type \in InfixTypes => after = Need("operand", depth)
         /\ type = "CLOSE_PAREN" /\ depth > 0 => after = Need("operator", depth - 1)
         /\ type = "SEMICOLON" /\ depth = 0 => after = Need("statement", 0)
         /\ type \notin InfixTypes /\ depth > 0 /\ type # "CLOSE_PAREN" => after = Dead
         /\ type \notin InfixTypes /\ depth = 0 /\ type # "SEMICOLON" => after = Dead
<1>1. type \in InfixTypes => type # "CLOSE_PAREN" /\ type # "SEMICOLON"
  BY InfixPrecedence
<1>2. Need("operator", depth).need = "operator" /\ Need("operator", depth).depth = depth
  BY DEF Need
<1> QED BY <1>1, <1>2 DEF After

-----------------------------------------------------------------------------
(* One lemma for each function of the compiler.                            *)

(* Passing a token that is no literal, with no instruction that loads one. *)
LEMMA StillLoaded ==
  ASSUME LanguageInv, status = "running", ~parser.hadError,
         TokenSequence(source'), Begins(source, source'),
         source' = source \/ Len(source') = Len(source) + 1,
         source' # source => CurrentType \notin {"NUMBER", "STRING"},
         chunk'.constants = chunk.constants, gcObjects' = gcObjects,
         chunk'.code \in Seq(Instructions), LoadsNothing(chunk.code, chunk'.code)
  PROVE  LoadsLiterals(chunk'.code, chunk'.constants, gcObjects', source', Len(source') - 1)
<1> DEFINE n == Len(source) - 1
           m == Len(source') - 1
<1>1. /\ Len(source) \in Nat /\ Len(source) > 0 /\ Loaded(Len(source) - 1)
      /\ CurrentType = source[Len(source)].type
  BY Situation
<1>2. chunk.code \in Seq(Instructions)
  BY RunningTypes DEF LanguageInv
<1>3. LoadsLiterals(chunk.code, chunk.constants, gcObjects, source, n)
  BY <1>1 DEF Loaded
<1>4. n \in Nat /\ m \in Nat /\ PassesNoLiteral(source, source', n, m)
  <2>1. CASE source' = source
    BY <1>1, <2>1 DEF AgreeTo, PassesNoLiteral
  <2>2. CASE source' # source
    <3>1. /\ n \in Nat /\ m = n + 1 /\ n + 1 = Len(source)
          /\ source'[n + 1] = source[n + 1]
          /\ \A i \in 1..n : source'[i] = source[i]
      BY <1>1, <2>2, Onward
    <3> QED BY <1>1, <2>2, <3>1 DEF AgreeTo, PassesNoLiteral
  <2> QED BY <2>1, <2>2
<1> HIDE DEF n, m
<1>5. LoadsLiterals(chunk'.code, chunk.constants, gcObjects, source', m)
  BY <1>2, <1>3, <1>4, NothingLoaded
<1> QED BY <1>5 DEF m

(* Emitting an instruction that loads no constant.                         *)
LEMMA NoLoadEmitted ==
  ASSUME NEW code \in Seq(Instructions), NEW op \in Opcodes \ ConstantOps, NEW pos \in Nat
  PROVE  /\ LoadsNothing(code, code)
         /\ Emit(code, op, 0, pos) \in Seq(Instructions)
         /\ LoadsNothing(code, Emit(code, op, 0, pos))
<1> DEFINE more == Emit(code, op, 0, pos)
<1>1. /\ more \in Seq(Instructions) /\ Len(more) = Len(code) + 1
      /\ \A i \in 1..Len(code) : more[i] = code[i]
      /\ more[Len(code) + 1] = [op |-> op, arg |-> 0, pos |-> pos, height |-> HeightAfter(code)]
      /\ Len(code) \in Nat
  BY EmitFacts
<1> HIDE DEF more
<1>2. \A i \in 1..Len(more) : i > Len(code) => more[i].op = op
  <2>1. \A i \in 1..Len(more) : i > Len(code) => i = Len(code) + 1
    BY <1>1
  <2> QED BY <1>1, <2>1
<1>3. LoadsNothing(code, more)
  BY <1>1, <1>2 DEF LoadsNothing, Begins
<1> QED BY <1>1, <1>3 DEF more, LoadsNothing, Begins

(* The instruction emitted at the current or the previous token.           *)
LEMMA CodeOfStep ==
  ASSUME LanguageInv, status = "running", NEW op \in Opcodes \ ConstantOps, NEW pos \in Nat
  PROVE  LET new == [chunk EXCEPT !.code = Emit(@, op, 0, pos)] IN
         /\ new.constants = chunk.constants /\ new.code \in Seq(Instructions)
         /\ LoadsNothing(chunk.code, new.code)
         /\ chunk.code \in Seq(Instructions) /\ LoadsNothing(chunk.code, chunk.code)
<1>1. chunk \in ChunkSet(Len(gcObjects)) /\ chunk.code \in Seq(Instructions)
  BY RunningTypes DEF LanguageInv
<1>2. /\ Emit(chunk.code, op, 0, pos) \in Seq(Instructions)
      /\ LoadsNothing(chunk.code, Emit(chunk.code, op, 0, pos))
      /\ LoadsNothing(chunk.code, chunk.code)
  BY <1>1, NoLoadEmitted
<1>3. [chunk EXCEPT !.code = Emit(@, op, 0, pos)]
        = [code |-> Emit(chunk.code, op, 0, pos), constants |-> chunk.constants]
  BY <1>1 DEF ChunkSet
<1> QED BY <1>1, <1>2, <1>3

(* The frame of a handler that remembers an operator.                      *)
LEMMA OperatorFrames ==
  ASSUME NEW type \in TokenTypes \cup {"EOF", "ERROR"}, NEW h \in Nat, NEW p \in Nat
  PROVE  /\ BinaryFrame(type, h, p) \in FrameSet /\ BinaryFrame(type, h, p).fn = "binary"
         /\ BinaryFrame(type, h, p).operator = type /\ BinaryFrame(type, h, p).token = p
         /\ UnaryFrame(type, h, p) \in FrameSet /\ UnaryFrame(type, h, p).fn = "unary"
         /\ UnaryFrame(type, h, p).operator = type /\ UnaryFrame(type, h, p).token = p
BY DEF FrameSet, Frame, BinaryFrame, UnaryFrame, Precedences

(* The frames that the handlers push.                                      *)
LEMMA FrameTypes ==
  /\ \A h \in Nat :
       /\ GroupingFrame(h) \in FrameSet /\ GroupingFrame(h).fn = "grouping"
  /\ \A type \in {"PRINT", "SEMICOLON"} :
       StatementFrame(type) \in FrameSet /\ StatementFrame(type).fn = "stmt"
  /\ \A precedence \in Precedences, h \in Nat :
       /\ HeadFrame(precedence, h) \in FrameSet /\ HeadFrame(precedence, h).fn = "head"
       /\ HeadFrame(precedence, h).precedence = precedence
       /\ TailFrame(precedence, h) \in FrameSet /\ TailFrame(precedence, h).fn = "tail"
       /\ TailFrame(precedence, h).precedence = precedence
  /\ PRECEDENCE_ASSIGNMENT \in Precedences /\ PRECEDENCE_ASSIGNMENT = 1
  /\ PRECEDENCE_UNARY \in Precedences /\ PRECEDENCE_UNARY >= 1
<1>1. "PRINT" \in TokenTypes /\ "SEMICOLON" \in TokenTypes /\ 0 \in Precedences /\ 0 \in Nat
  BY DEF TokenTypes, Keywords, Precedences
<1> QED BY <1>1 DEF FrameSet, Frame, BinaryFrame, UnaryFrame, GroupingFrame, StatementFrame,
        HeadFrame, TailFrame, Precedences, PRECEDENCE_ASSIGNMENT, PRECEDENCE_UNARY

(* A call keeps the precedences.                                           *)
LEMMA PrecedencePushed ==
  ASSUME NEW fs \in Seq(FrameSet), PrecedencesOK(fs), NEW f \in FrameSet,
         f.fn \in {"head", "tail"} => f.precedence >= PRECEDENCE_ASSIGNMENT,
         fs # <<>> =>
           \/ fs[Len(fs)].fn \notin {"stmt", "grouping"}
           \/ f.precedence = PRECEDENCE_ASSIGNMENT
  PROVE  PrecedencesOK(Append(fs, f))
BY FramePushed

(* compiler_compile calls compile_stmt, which calls for an expression.     *)
LEMMA StatementCalled ==
  ASSUME LanguageInv, CompileStatement, UNCHANGED sourceId
  PROVE  LanguageInv'
<1> DEFINE type == IF CurrentType = "PRINT" THEN "PRINT" ELSE "SEMICOLON"
           stmt == StatementFrame(type)
           head == HeadFrame(PRECEDENCE_ASSIGNMENT, 0)
<1>1. /\ status = "running" /\ Top.fn = "compile" /\ CurrentType # "EOF"
      /\ UNCHANGED <<status, chunk, gcObjects>>
  BY DEF CompileStatement, Running
<1>2. CompilerInv /\ CompilerInv'
  BY StatementStep DEF LanguageInv
<1>3. /\ frames \in Seq(FrameSet) /\ frames # <<>> /\ Top = frames[Len(frames)]
      /\ PrecedencesOK(frames) /\ Reported(source, parser) /\ ~AtEof
      /\ TokenSequence(source) /\ Len(source) \in Nat
      /\ ~parser.hadError => Expects(source, frames)
  BY <1>1, Situation
<1>4. /\ stmt \in FrameSet /\ stmt.fn = "stmt" /\ head \in FrameSet /\ head.fn = "head"
      /\ head.precedence = PRECEDENCE_ASSIGNMENT /\ PRECEDENCE_ASSIGNMENT = 1
  BY FrameTypes
<1>5. frames' = frames \o <<stmt, head>>
  BY DEF CompileStatement
<1> HIDE DEF stmt, head, type
<1>6. frames' = Append(Append(frames, stmt), head)
  BY <1>3, <1>4, <1>5, TwoMore
<1> DEFINE inner == Append(frames, stmt)
<1>7. /\ inner \in Seq(FrameSet) /\ inner # <<>> /\ inner[Len(inner)] = stmt
      /\ OpenParens(inner) = OpenParens(frames) /\ PrecedencesOK(inner)
  <2>1. /\ inner \in Seq(FrameSet) /\ inner # <<>> /\ inner[Len(inner)] = stmt
        /\ OpenParens(inner) = OpenParens(frames)
    BY <1>3, <1>4, FramePushed
  <2>2. /\ stmt.fn \notin {"head", "tail"}
        /\ frames # <<>> => frames[Len(frames)].fn \notin {"stmt", "grouping"}
    BY <1>1, <1>3, <1>4
  <2> QED BY <1>3, <1>4, <2>1, <2>2, PrecedencePushed
<1> HIDE DEF inner
<1>8. /\ frames'[Len(frames')] = head /\ OpenParens(frames') = OpenParens(frames)
      /\ PrecedencesOK(frames')
  <2>1. frames' = Append(inner, head)
    BY <1>6 DEF inner
  <2>2. frames'[Len(frames')] = head /\ OpenParens(frames') = OpenParens(inner)
    BY <1>4, <1>7, <2>1, FramePushed
  <2> QED BY <1>4, <1>7, <2>1, <2>2, PrecedencePushed
<1>9. OpenParens(frames') = 0
  BY <1>1, <1>2, <1>8, OutermostFrames
<1>10. ~parser.hadError => OutlookOf(source, Len(source) - 1) = Need("statement", 0)
  BY <1>1, <1>3 DEF Expects
<1>11. chunk'.code \in Seq(Instructions) /\ chunk'.code = chunk.code
       /\ LoadsNothing(chunk.code, chunk'.code)
  BY <1>1, <1>2, RunningTypes DEF Begins, LoadsNothing
<1>12. CASE CurrentType = "PRINT"
  <2>1. PICK scan \in Scans : source' = source \o scan /\ parser' = CompilerAdvance(parser, scan)
    BY <1>12 DEF CompileStatement
  <2>2. ScannedOn
    BY <1>1, <2>1, AdvanceOn
  <2>3. ASSUME ~parser'.hadError
        PROVE  /\ Expects(source', frames')
               /\ LoadsLiterals(chunk'.code, chunk'.constants, gcObjects', source', Len(source') - 1)
    <3>1. /\ ~parser.hadError /\ Len(source') = Len(source) + 1
          /\ TokenSequence(source') /\ Begins(source, source')
      BY <1>3, <2>2, <2>3 DEF ScannedOn
    <3>2. OutlookOf(source', Len(source') - 1)
            = After(OutlookOf(source, Len(source) - 1), CurrentType)
      BY <1>1, <3>1, Onward
    <3>3. OutlookOf(source', Len(source') - 1) = Need("operand", 0)
      BY <1>10, <1>12, <3>1, <3>2, AfterStatement
    <3>4. Expects(source', frames')
      BY <1>4, <1>8, <1>9, <3>3 DEF Expects
    <3> QED BY <1>1, <1>11, <1>12, <3>1, <3>4, StillLoaded
  <2> QED BY <1>1, <1>2, <1>8, <2>2, <2>3, AssembleLanguage DEF ScannedOn
<1>13. CASE CurrentType # "PRINT"
  <2>1. UNCHANGED <<source, parser>>
    BY <1>13 DEF CompileStatement
  <2>2. ASSUME ~parser'.hadError
        PROVE  /\ Expects(source', frames')
               /\ LoadsLiterals(chunk'.code, chunk'.constants, gcObjects', source', Len(source') - 1)
    <3>1. ~parser.hadError /\ source' = source
      BY <2>1, <2>2
    <3>2. CurrentType = source[Len(source)].type
      BY <1>1, Situation
    <3>3. Expects(source', frames')
      BY <1>1, <1>4, <1>8, <1>9, <1>10, <1>13, <3>1, <3>2 DEF Expects
    <3>4. Begins(source, source') /\ TokenSequence(source')
      BY <1>3, <3>1 DEF Begins
    <3> QED BY <1>1, <1>11, <3>1, <3>3, <3>4, StillLoaded
  <2> QED BY <1>1, <1>2, <1>3, <1>8, <2>1, <2>2, AssembleLanguage
<1> QED BY <1>12, <1>13

(* compiler_compile at EOF: success, unless an error was reported.         *)
LEMMA Ended ==
  ASSUME LanguageInv, CompileEnd, UNCHANGED sourceId
  PROVE  LanguageInv'
<1>1. /\ status = "running" /\ Top.fn = "compile" /\ CurrentType = "EOF"
      /\ parser' = CompilerAdvance(parser, <<>>) /\ frames' = Callers
      /\ chunk' = [chunk EXCEPT !.code = Emit(@, "RETURN", 0, parser'.previous)]
      /\ status' = CompilerStatus(parser') /\ UNCHANGED <<source, gcObjects>>
  BY DEF CompileEnd, Running
<1>2. CompilerInv /\ CompilerInv'
  BY EndStep DEF LanguageInv
<1>3. /\ frames \in Seq(FrameSet) /\ frames # <<>> /\ Top = frames[Len(frames)]
      /\ PrecedencesOK(frames) /\ Reported(source, parser) /\ AtEof
      /\ TokenSequence(source) /\ Len(source) \in Nat /\ Len(source) > 0
      /\ source \in Seq(AllTokens)
      /\ CurrentType = source[Len(source)].type /\ source[Len(source)] \in AllTokens
      /\ ~parser.hadError => Expects(source, frames)
  BY <1>1, Situation
<1>4. PrecedencesOK(frames')
  BY <1>1, <1>3, FramePopped DEF Callers
<1>5. <<>> \in Scans /\ source \o <<>> = source
  BY <1>3, ConcatEmptySeq DEF Scans
<1>6. ScannedOn
  BY <1>1, <1>5, AdvanceOn
<1>7. source # <<>> /\ source[Len(source)] = EofToken
  BY <1>1, <1>3, EofAndError
<1>8. status' \in {"success", "failure", "unexpected_eof"}
  BY <1>1 DEF CompilerStatus
<1>9. ASSUME ~parser'.hadError
      PROVE  /\ OutlookOf(source, Len(source) - 1) = Need("statement", 0)
             /\ LoadsLiterals(chunk'.code, chunk'.constants, gcObjects', source', Len(source') - 1)
  <2>1. ~parser.hadError
    BY <1>6, <1>9 DEF ScannedOn
  <2>2. OutlookOf(source, Len(source) - 1) = Need("statement", 0)
    BY <1>1, <1>3, <2>1 DEF Expects
  <2>3. "RETURN" \in Opcodes \ ConstantOps /\ parser'.previous \in Nat
    <3>1. parser' \in ParserSet(Len(source'))
      BY <1>2 DEF CompilerInv, TypeOK
    <3>2. parser'.previous \in 0..Len(source)
      BY <1>1, <3>1 DEF ParserSet
    <3> QED BY <1>3, <3>2 DEF Opcodes, ConstantOps
  <2>4. /\ chunk'.constants = chunk.constants /\ chunk'.code \in Seq(Instructions)
        /\ LoadsNothing(chunk.code, chunk'.code)
    <3> DEFINE pos == parser'.previous
    <3>1. pos \in Nat /\ chunk' = [chunk EXCEPT !.code = Emit(@, "RETURN", 0, pos)]
      BY <1>1, <2>3
    <3> HIDE DEF pos
    <3> QED BY <1>1, <2>3, <3>1, CodeOfStep
  <2>5. Begins(source, source') /\ TokenSequence(source')
    BY <1>1, <1>3 DEF Begins
  <2> QED BY <1>1, <2>1, <2>2, <2>4, <2>5, StillLoaded
<1>10. Accepted'
  <2>1. source' = source
    BY <1>1
  <2>2. status' = CompilerStatus(parser')
    BY <1>1
  <2> QED BY <1>7, <1>9, <2>1, <2>2 DEF Accepted, Loaded
<1>11. Understood'
  BY <1>8 DEF Understood
<1> QED BY <1>2, <1>4, <1>6, <1>10, <1>11 DEF LanguageInv, ScannedOn

(* The loop of compile_precedence_expr takes an operator: another operand. *)
LEMMA OperatorTaken ==
  ASSUME LanguageInv, CompileTail, UNCHANGED sourceId
  PROVE  LanguageInv'
<1> DEFINE binary == BinaryFrame(CurrentType, Top.height, parser.current)
           precedence == RightOperandPrecedence(CurrentType)
           head == HeadFrame(precedence, Top.height + 1)
<1>1. /\ status = "running" /\ Top.fn = "tail" /\ PrecedenceOf(CurrentType) >= Top.precedence
      /\ UNCHANGED <<status, chunk, gcObjects>>
      /\ frames' = frames \o <<binary, head>>
  BY DEF CompileTail, Running
<1>2. CompilerInv /\ CompilerInv'
  BY TailStep DEF LanguageInv
<1>3. /\ frames \in Seq(FrameSet) /\ frames # <<>> /\ Top = frames[Len(frames)]
      /\ Top \in FrameSet /\ OpenParens(frames) \in Nat
      /\ PrecedencesOK(frames) /\ Reported(source, parser)
      /\ TokenSequence(source) /\ Len(source) \in Nat
      /\ source[Len(source)] \in AllTokens /\ CurrentType = source[Len(source)].type
      /\ (AtEof <=> CurrentType = "EOF")
      /\ ~parser.hadError => Expects(source, frames)
  BY <1>1, Situation
<1>4. Top.precedence >= PRECEDENCE_ASSIGNMENT
  <2>1. /\ PrecedencesOK(frames) =>
             (Top.fn \in {"head", "tail"} => Top.precedence >= PRECEDENCE_ASSIGNMENT)
    BY <1>3, FramePopped
  <2> QED BY <1>1, <1>3, <2>1
<1>5. CurrentType \in InfixTypes /\ CurrentType # "EOF" /\ precedence >= 1 /\ precedence \in Precedences
  <2>1. PrecedenceOf(CurrentType) \in Nat /\ Top.precedence \in Nat
    BY <1>3, InfixPrecedence DEF FrameSet, Precedences
  <2>2. PrecedenceOf(CurrentType) > 0
    BY <1>1, <1>4, <2>1 DEF PRECEDENCE_ASSIGNMENT
  <2>3. CurrentType \in InfixTypes /\ CurrentType # "EOF" /\ precedence >= 1
    BY <2>2, InfixPrecedence
  <2>4. precedence \in Precedences
    BY DEF RightOperandPrecedence, PrecedenceOf, Precedences, PRECEDENCE_NONE,
           PRECEDENCE_EQUALITY, PRECEDENCE_COMPARISON, PRECEDENCE_CONCATENATION,
           PRECEDENCE_TERM, PRECEDENCE_FACTOR
  <2> QED BY <2>3, <2>4
<1>6. /\ binary \in FrameSet /\ binary.fn = "binary"
      /\ head \in FrameSet /\ head.fn = "head" /\ head.precedence = precedence
      /\ PRECEDENCE_ASSIGNMENT = 1
  <2>1. Top.height \in Nat /\ Top.height + 1 \in Nat
    BY <1>3 DEF FrameSet
  <2>2. CurrentType \in TokenTypes \cup {"EOF", "ERROR"}
    BY <1>3, EofAndError
  <2>3. parser.current \in Nat
    BY <1>1, Situation
  <2>4. binary \in FrameSet /\ binary.fn = "binary"
    <3>1. binary.fn = "binary"
      BY DEF BinaryFrame, Frame
    <3>2. binary \in FrameSet
      <4> HIDE DEF head, precedence
      <4> QED BY <2>1, <2>2, <2>3, OperatorFrames
    <3> QED BY <3>1, <3>2
  <2>5. head \in FrameSet /\ head.fn = "head" /\ head.precedence = precedence
    BY <1>5, <2>1, FrameTypes
  <2> QED BY <2>4, <2>5, FrameTypes
<1> HIDE DEF binary, head, precedence
<1> DEFINE inner == Append(frames, binary)
<1>7. frames' = Append(inner, head)
  BY <1>1, <1>3, <1>6, TwoMore
<1>8. /\ inner \in Seq(FrameSet) /\ inner # <<>> /\ inner[Len(inner)] = binary
      /\ OpenParens(inner) = OpenParens(frames) /\ PrecedencesOK(inner)
  <2>1. /\ inner \in Seq(FrameSet) /\ inner # <<>> /\ inner[Len(inner)] = binary
        /\ OpenParens(inner) = OpenParens(frames)
    BY <1>3, <1>6, FramePushed
  <2>2. /\ binary.fn \notin {"head", "tail"}
        /\ frames # <<>> => frames[Len(frames)].fn \notin {"stmt", "grouping"}
    BY <1>1, <1>3, <1>6
  <2> QED BY <1>3, <1>6, <2>1, <2>2, PrecedencePushed
<1> HIDE DEF inner
<1>9. /\ frames'[Len(frames')] = head /\ OpenParens(frames') = OpenParens(frames)
      /\ PrecedencesOK(frames')
  <2>1. frames'[Len(frames')] = head /\ OpenParens(frames') = OpenParens(inner)
    BY <1>6, <1>7, <1>8, FramePushed
  <2>2. inner[Len(inner)].fn \notin {"stmt", "grouping"} /\ head.precedence >= PRECEDENCE_ASSIGNMENT
    BY <1>5, <1>6, <1>8
  <2> QED BY <1>6, <1>7, <1>8, <2>1, <2>2, PrecedencePushed
<1>10. PICK scan \in Scans : source' = source \o scan /\ parser' = CompilerAdvance(parser, scan)
  BY DEF CompileTail
<1>11. ScannedOn
  BY <1>1, <1>10, AdvanceOn
<1>12. ASSUME ~parser'.hadError
       PROVE  /\ Expects(source', frames')
              /\ LoadsLiterals(chunk'.code, chunk'.constants, gcObjects', source', Len(source') - 1)
  <2>1. /\ ~parser.hadError /\ Len(source') = Len(source) + 1
        /\ TokenSequence(source') /\ Begins(source, source')
    BY <1>3, <1>5, <1>11, <1>12 DEF ScannedOn
  <2>2. OutlookOf(source', Len(source') - 1)
          = After(OutlookOf(source, Len(source) - 1), CurrentType)
    BY <1>1, <2>1, Onward
  <2>3. OutlookOf(source, Len(source) - 1) = Need("operator", OpenParens(frames))
    BY <1>1, <1>3, <2>1 DEF Expects
  <2>4. OutlookOf(source', Len(source') - 1) = Need("operand", OpenParens(frames))
    BY <1>3, <1>5, <2>2, <2>3, AfterOperator
  <2>5. Expects(source', frames')
    BY <1>6, <1>9, <2>4 DEF Expects
  <2>6. CurrentType \notin {"NUMBER", "STRING"}
    BY <1>5, InfixPrecedence
  <2>7. /\ chunk'.code \in Seq(Instructions) /\ LoadsNothing(chunk.code, chunk'.code)
        /\ chunk'.constants = chunk.constants
    BY <1>1, <1>2, RunningTypes DEF Begins, LoadsNothing
  <2> QED BY <1>1, <2>1, <2>5, <2>6, <2>7, StillLoaded
<1> QED BY <1>1, <1>2, <1>9, <1>11, <1>12, AssembleLanguage DEF ScannedOn

(* It ends, and what called for the expression resumes.                    *)
LEMMA ExpressionEnded ==
  ASSUME LanguageInv, CompileTailEnd, UNCHANGED sourceId
  PROVE  LanguageInv'
<1>1. /\ status = "running" /\ Top.fn = "tail" /\ PrecedenceOf(CurrentType) < Top.precedence
      /\ UNCHANGED <<source, parser, status, chunk, gcObjects>> /\ frames' = Callers
  BY DEF CompileTailEnd, Running
<1>2. CompilerInv /\ CompilerInv'
  BY TailEndStep DEF LanguageInv
<1>3. /\ frames \in Seq(FrameSet) /\ frames # <<>> /\ Top = frames[Len(frames)]
      /\ Top \in FrameSet /\ OpenParens(frames) \in Nat
      /\ PrecedencesOK(frames) /\ Reported(source, parser)
      /\ TokenSequence(source) /\ Len(source) \in Nat
      /\ CurrentType = source[Len(source)].type
      /\ ~parser.hadError => Expects(source, frames) /\ Loaded(Len(source) - 1)
  BY <1>1, Situation
<1>4. /\ Callers # <<>> /\ Callers[Len(Callers)].fn \in {"stmt", "unary", "binary", "grouping"}
  BY <1>1, <1>2, ReturnsTo
<1>5. /\ PrecedencesOK(Callers) /\ OpenParens(Callers) = OpenParens(frames)
      /\ Callers[Len(Callers)].fn \in {"stmt", "grouping"} =>
           Top.precedence = PRECEDENCE_ASSIGNMENT
  <2>1. Top.fn # "grouping"
    BY <1>1
  <2> QED BY <1>3, <1>4, <2>1, FramePopped DEF Callers
<1>6. Callers[Len(Callers)].fn \in {"stmt", "grouping"} => CurrentType \notin InfixTypes
  <2>1. PrecedenceOf(CurrentType) \in Nat
    BY InfixPrecedence
  <2>2. Callers[Len(Callers)].fn \in {"stmt", "grouping"} => ~(PrecedenceOf(CurrentType) > 0)
    BY <1>1, <1>5, <2>1 DEF PRECEDENCE_ASSIGNMENT
  <2> QED BY <2>2, InfixPrecedence
<1>7. ASSUME ~parser'.hadError
      PROVE  /\ Expects(source', frames')
             /\ LoadsLiterals(chunk'.code, chunk'.constants, gcObjects', source', Len(source') - 1)
  <2>1. /\ ~parser.hadError /\ source' = source
    BY <1>1, <1>7
  <2>2. OutlookOf(source, Len(source) - 1) = Need("operator", OpenParens(frames))
    BY <1>1, <1>3, <2>1 DEF Expects
  <2>3. Expects(source, Callers)
    BY <1>3, <1>4, <1>5, <1>6, <2>2 DEF Expects
  <2> QED BY <1>1, <1>3, <2>1, <2>3 DEF Loaded
<1>8. PrecedencesOK(frames') /\ Reported(source', parser')
  BY <1>1, <1>3, <1>5
<1> QED BY <1>1, <1>2, <1>7, <1>8, AssembleLanguage

(* The operator is emitted.                                                *)
LEMMA OperatorEmitted ==
  ASSUME LanguageInv, CompileOperator, UNCHANGED sourceId
  PROVE  LanguageInv'
<1> DEFINE op == IF Top.fn = "unary" THEN UnaryOpOf(Top.operator) ELSE BinaryOpOf(Top.operator)
           pos == parser.previous
<1>1. /\ status = "running" /\ Top.fn \in {"unary", "binary"}
      /\ chunk' = [chunk EXCEPT !.code = Emit(@, op, 0, pos)]
      /\ UNCHANGED <<source, parser, status, gcObjects>> /\ frames' = Callers
  BY DEF CompileOperator, Running
<1>2. CompilerInv /\ CompilerInv'
  BY OperatorStep DEF LanguageInv
<1>3. /\ frames \in Seq(FrameSet) /\ frames # <<>> /\ Top = frames[Len(frames)]
      /\ Top \in FrameSet /\ OpenParens(frames) \in Nat
      /\ PrecedencesOK(frames) /\ Reported(source, parser)
      /\ TokenSequence(source) /\ Len(source) \in Nat /\ parser \in ParserSet(Len(source))
      /\ ~parser.hadError => Expects(source, frames)
  BY <1>1, Situation
<1>4. Callers # <<>> /\ Callers[Len(Callers)].fn = "tail"
  BY <1>1, <1>2, ReturnsTo
<1>5. PrecedencesOK(Callers) /\ OpenParens(Callers) = OpenParens(frames)
  <2>1. Top.fn # "grouping"
    BY <1>1
  <2> QED BY <1>3, <2>1, FramePopped DEF Callers
<1>6. op \in Opcodes \ ConstantOps /\ pos \in Nat
  BY <1>3 DEF UnaryOpOf, BinaryOpOf, Opcodes, ConstantOps, UnaryOps, BinaryOps, ParserSet
<1> HIDE DEF op, pos
<1>7. /\ chunk'.constants = chunk.constants /\ chunk'.code \in Seq(Instructions)
      /\ LoadsNothing(chunk.code, chunk'.code)
  BY <1>1, <1>6, CodeOfStep
<1>8. ASSUME ~parser'.hadError
      PROVE  /\ Expects(source', frames')
             /\ LoadsLiterals(chunk'.code, chunk'.constants, gcObjects', source', Len(source') - 1)
  <2>1. /\ ~parser.hadError /\ source' = source
    BY <1>1, <1>8
  <2>2. OutlookOf(source, Len(source) - 1) = Need("operator", OpenParens(frames))
    BY <1>1, <1>3, <2>1 DEF Expects
  <2>3. Expects(source, Callers)
    BY <1>4, <1>5, <2>2 DEF Expects
  <2>4. TokenSequence(source') /\ Begins(source, source')
    BY <1>3, <2>1 DEF Begins
  <2> QED BY <1>1, <1>7, <2>1, <2>3, <2>4, StillLoaded
<1>9. PrecedencesOK(frames') /\ Reported(source', parser')
  BY <1>1, <1>3, <1>5
<1> QED BY <1>1, <1>2, <1>8, <1>9, AssembleLanguage

(* compile_grouping_expr: the parenthesis is closed.                       *)
LEMMA GroupingClosed ==
  ASSUME LanguageInv, CompileGroupingEnd, UNCHANGED sourceId
  PROVE  LanguageInv'
<1>1. /\ status = "running" /\ Top.fn = "grouping"
      /\ UNCHANGED <<status, chunk, gcObjects>> /\ frames' = Callers
  BY DEF CompileGroupingEnd, Running
<1>2. CompilerInv /\ CompilerInv'
  BY GroupingEndStep DEF LanguageInv
<1>3. PICK scan \in Scans :
        source' = source \o scan /\ parser' = CompilerConsume(parser, "CLOSE_PAREN", scan)
  BY DEF CompileGroupingEnd
<1>4. /\ frames \in Seq(FrameSet) /\ frames # <<>> /\ Top = frames[Len(frames)]
      /\ Top \in FrameSet /\ OpenParens(frames) \in Nat
      /\ PrecedencesOK(frames) /\ Reported(source, parser)
      /\ TokenSequence(source) /\ Len(source) \in Nat
      /\ CurrentType = source[Len(source)].type /\ (AtEof <=> CurrentType = "EOF")
      /\ ~parser.hadError => Expects(source, frames)
  BY <1>1, Situation
<1>5. Callers # <<>> /\ Callers[Len(Callers)].fn = "tail"
  BY <1>1, <1>2, ReturnsTo
<1> DEFINE depth == OpenParens(frames)
<1>6. /\ PrecedencesOK(Callers) /\ OpenParens(Callers) \in Nat
      /\ depth = OpenParens(Callers) + 1 /\ depth \in Nat /\ depth > 0
      /\ OpenParens(Callers) = depth - 1
  BY <1>1, <1>4, FramePopped DEF Callers
<1> HIDE DEF depth
<1>7. ~parser.hadError =>
        /\ OutlookOf(source, Len(source) - 1) = Need("operator", depth)
        /\ CurrentType \notin InfixTypes
  BY <1>1, <1>4 DEF Expects, depth
<1>8. ~parser.hadError /\ CurrentType # "CLOSE_PAREN" =>
           /\ OutlookOf(source, Len(source)).need = "dead"
           /\ OutlookOf(source, Len(source) - 1).need # "statement"
  <2>1. OutlookOf(source, Len(source)) = After(OutlookOf(source, Len(source) - 1), CurrentType)
    BY <1>1, OutlookPast
  <2>2. CurrentType \notin InfixTypes /\ CurrentType # "CLOSE_PAREN" =>
          After(Need("operator", depth), CurrentType) = Dead
    BY <1>6, AfterOperator
  <2> QED BY <1>7, <2>1, <2>2 DEF Dead, Need
<1>9. ScannedOn /\ (~parser'.hadError => CurrentType = "CLOSE_PAREN")
  BY <1>1, <1>3, <1>8, ConsumeOn
<1>10. ASSUME ~parser'.hadError
       PROVE  /\ Expects(source', frames')
              /\ LoadsLiterals(chunk'.code, chunk'.constants, gcObjects', source', Len(source') - 1)
  <2>1. CurrentType = "CLOSE_PAREN" /\ ~AtEof
    BY <1>4, <1>9, <1>10
  <2>2. /\ ~parser.hadError /\ Len(source') = Len(source) + 1
        /\ TokenSequence(source') /\ Begins(source, source')
    BY <1>9, <1>10, <2>1 DEF ScannedOn
  <2>3. OutlookOf(source', Len(source') - 1)
          = After(OutlookOf(source, Len(source) - 1), CurrentType)
    BY <1>1, <2>2, Onward
  <2>4. OutlookOf(source', Len(source') - 1) = Need("operator", depth - 1)
    BY <1>6, <1>7, <2>1, <2>2, <2>3, AfterOperator
  <2>5. Expects(source', frames')
    BY <1>1, <1>5, <1>6, <2>4 DEF Expects
  <2>6. /\ chunk'.code \in Seq(Instructions) /\ LoadsNothing(chunk.code, chunk'.code)
        /\ chunk'.constants = chunk.constants
    BY <1>1, <1>2, RunningTypes DEF Begins, LoadsNothing
  <2>7. CurrentType \notin {"NUMBER", "STRING"}
    BY <2>1
  <2> QED BY <1>1, <2>2, <2>5, <2>6, <2>7, StillLoaded
<1>11. PrecedencesOK(frames')
  BY <1>1, <1>6
<1> QED BY <1>1, <1>2, <1>9, <1>10, <1>11, AssembleLanguage DEF ScannedOn

(* compile_print_stmt and compile_expr_stmt: the statement is over.        *)
LEMMA StatementEnded ==
  ASSUME LanguageInv, CompileStatementEnd, UNCHANGED sourceId
  PROVE  LanguageInv'
<1> DEFINE op == IF Top.operator = "PRINT" THEN "PRINT" ELSE "POP"
           pos == parser.current
<1>1. /\ status = "running" /\ Top.fn = "stmt"
      /\ chunk' = [chunk EXCEPT !.code = Emit(@, op, 0, pos)]
      /\ UNCHANGED <<status, gcObjects>> /\ frames' = Callers
  BY DEF CompileStatementEnd, Running
<1>2. CompilerInv /\ CompilerInv'
  BY StatementEndStep DEF LanguageInv
<1>3. PICK scan \in Scans :
        source' = source \o scan /\ parser' = CompilerConsume(parser, "SEMICOLON", scan)
  BY DEF CompileStatementEnd
<1>4. /\ frames \in Seq(FrameSet) /\ frames # <<>> /\ Top = frames[Len(frames)]
      /\ Top \in FrameSet /\ PrecedencesOK(frames) /\ Reported(source, parser)
      /\ TokenSequence(source) /\ Len(source) \in Nat /\ parser.current = Len(source)
      /\ CurrentType = source[Len(source)].type /\ (AtEof <=> CurrentType = "EOF")
      /\ ~parser.hadError => Expects(source, frames)
  BY <1>1, Situation
<1>5. Callers # <<>> /\ Callers[Len(Callers)].fn = "compile"
  BY <1>1, <1>2, ReturnsTo
<1>6. PrecedencesOK(Callers)
  BY <1>4, FramePopped DEF Callers
<1>7. ~parser.hadError =>
        /\ OutlookOf(source, Len(source) - 1) = Need("operator", 0)
        /\ CurrentType \notin InfixTypes
  <2>1. OpenParens(frames) = 0
    BY <1>1, <1>2, OutermostFrames
  <2> QED BY <1>1, <1>4, <2>1 DEF Expects
<1>8. ~parser.hadError /\ CurrentType # "SEMICOLON" =>
           /\ OutlookOf(source, Len(source)).need = "dead"
           /\ OutlookOf(source, Len(source) - 1).need # "statement"
  <2>1. OutlookOf(source, Len(source)) = After(OutlookOf(source, Len(source) - 1), CurrentType)
    BY <1>1, OutlookPast
  <2>2. CurrentType \notin InfixTypes /\ CurrentType # "SEMICOLON" =>
          After(Need("operator", 0), CurrentType) = Dead
    BY AfterOperator
  <2> QED BY <1>7, <2>1, <2>2 DEF Dead, Need
<1>9. ScannedOn /\ (~parser'.hadError => CurrentType = "SEMICOLON")
  BY <1>1, <1>3, <1>8, ConsumeOn
<1>10. op \in Opcodes \ ConstantOps /\ pos \in Nat
  BY <1>4 DEF Opcodes, ConstantOps, DiscardOps
<1> HIDE DEF op, pos
<1>11. /\ chunk'.constants = chunk.constants /\ chunk'.code \in Seq(Instructions)
       /\ LoadsNothing(chunk.code, chunk'.code)
  BY <1>1, <1>10, CodeOfStep
<1>12. ASSUME ~parser'.hadError
       PROVE  /\ Expects(source', frames')
              /\ LoadsLiterals(chunk'.code, chunk'.constants, gcObjects', source', Len(source') - 1)
  <2>1. CurrentType = "SEMICOLON" /\ ~AtEof
    BY <1>4, <1>9, <1>12
  <2>2. /\ ~parser.hadError /\ Len(source') = Len(source) + 1
        /\ TokenSequence(source') /\ Begins(source, source')
    BY <1>9, <1>12, <2>1 DEF ScannedOn
  <2>3. OutlookOf(source', Len(source') - 1)
          = After(OutlookOf(source, Len(source) - 1), CurrentType)
    BY <1>1, <2>2, Onward
  <2>4. OutlookOf(source', Len(source') - 1) = Need("statement", 0)
    BY <1>7, <2>1, <2>2, <2>3, AfterOperator
  <2>5. Expects(source', frames')
    BY <1>1, <1>5, <2>4 DEF Expects
  <2>6. CurrentType \notin {"NUMBER", "STRING"}
    BY <2>1
  <2> QED BY <1>1, <1>11, <2>2, <2>5, <2>6, StillLoaded
<1>13. PrecedencesOK(frames')
  BY <1>1, <1>6
<1> QED BY <1>1, <1>2, <1>9, <1>12, <1>13, AssembleLanguage DEF ScannedOn

(* compile_precedence_expr goes on in its loop after the first operand, or *)
(* in the handler of a prefix operator or of a parenthesis.                *)
LEMMA HeadReplaced ==
  ASSUME LanguageInv, status = "running", Top.fn = "head"
  PROVE  LET tail == TailFrame(Top.precedence, Top.height)
             base == ReplaceTop(<<tail>>)
         IN  /\ base = Append(Callers, tail) /\ base \in Seq(FrameSet) /\ base # <<>>
             /\ base[Len(base)] = tail /\ tail.fn = "tail" /\ tail \in FrameSet
             /\ Callers \in Seq(FrameSet)
             /\ PrecedencesOK(Callers) /\ PrecedencesOK(base)
             /\ OpenParens(base) = OpenParens(frames)
             /\ Top.height \in Nat /\ Top.precedence \in Precedences
<1> DEFINE tail == TailFrame(Top.precedence, Top.height)
           base == ReplaceTop(<<tail>>)
<1>1. CompilerInv
  BY DEF LanguageInv
<1>2. /\ frames \in Seq(FrameSet) /\ frames # <<>> /\ Top = frames[Len(frames)]
      /\ Top \in FrameSet /\ PrecedencesOK(frames)
  BY Situation
<1>3. /\ tail \in FrameSet /\ Append(Callers, tail) \in Seq(FrameSet)
      /\ ReplaceTop(<<tail>>) = Append(Callers, tail) /\ Callers \in Seq(FrameSet)
  BY <1>1, HeadToTail
<1>4. Top.height \in Nat /\ Top.precedence \in Precedences
  BY <1>2 DEF FrameSet
<1>5. tail.fn = "tail" /\ tail.precedence = Top.precedence
  BY DEF TailFrame, Frame
<1>6. /\ PrecedencesOK(Callers) /\ Top.precedence >= PRECEDENCE_ASSIGNMENT
      /\ OpenParens(Callers) = OpenParens(frames)
      /\ Callers # <<>> /\ Callers[Len(Callers)].fn \in {"stmt", "grouping"} =>
           Top.precedence = PRECEDENCE_ASSIGNMENT
  <2>1. Top.fn # "grouping" /\ Top.fn \in {"head", "tail"}
    OBVIOUS
  <2> QED BY <1>2, <2>1, FramePopped DEF Callers
<1> HIDE DEF tail, base
<1>7. base = Append(Callers, tail)
  BY <1>3 DEF base
<1>8. /\ base \in Seq(FrameSet) /\ base # <<>> /\ base[Len(base)] = tail
      /\ OpenParens(base) = OpenParens(Callers)
  <2>1. tail.fn # "grouping"
    BY <1>5
  <2> QED BY <1>3, <1>7, <2>1, FramePushed
<1>9. PrecedencesOK(base)
  BY <1>3, <1>5, <1>6, <1>7, PrecedencePushed
<1> QED BY <1>3, <1>4, <1>5, <1>6, <1>7, <1>8, <1>9 DEF tail, base

(* compile_unary_expr and compile_grouping_expr call for an operand.       *)
LEMMA OperandCalled ==
  ASSUME LanguageInv, status = "running", Top.fn = "head",
         NEW f \in FrameSet, f.fn \in {"unary", "grouping"},
         NEW precedence \in Precedences, precedence >= PRECEDENCE_ASSIGNMENT,
         f.fn = "grouping" => precedence = PRECEDENCE_ASSIGNMENT,
         frames' = ReplaceTop(<<TailFrame(Top.precedence, Top.height), f,
                                HeadFrame(precedence, Top.height)>>)
  PROVE  /\ frames'[Len(frames')].fn = "head" /\ PrecedencesOK(frames')
         /\ OpenParens(frames') = IF f.fn = "grouping" THEN OpenParens(frames) + 1
                                  ELSE OpenParens(frames)
<1> DEFINE tail == TailFrame(Top.precedence, Top.height)
           head == HeadFrame(precedence, Top.height)
           base == Append(Callers, tail)
           inner == Append(base, f)
<1>1. /\ base \in Seq(FrameSet) /\ base # <<>> /\ base[Len(base)] = tail
      /\ tail.fn = "tail" /\ tail \in FrameSet /\ Callers \in Seq(FrameSet)
      /\ PrecedencesOK(base) /\ OpenParens(base) = OpenParens(frames)
      /\ Top.height \in Nat
  BY HeadReplaced
<1>2. head \in FrameSet /\ head.fn = "head" /\ head.precedence = precedence
  BY <1>1, FrameTypes
<1>3. frames' = Callers \o <<tail, f, head>>
  BY DEF ReplaceTop
<1> HIDE DEF tail, head
<1>4. frames' = Append(inner, head)
  BY <1>1, <1>2, <1>3, ThreeMore
<1> HIDE DEF base
<1>5. /\ inner \in Seq(FrameSet) /\ inner # <<>> /\ inner[Len(inner)] = f
      /\ OpenParens(inner) = IF f.fn = "grouping" THEN OpenParens(base) + 1 ELSE OpenParens(base)
  BY <1>1, FramePushed
<1>6. PrecedencesOK(inner)
  <2>1. base[Len(base)].fn \notin {"stmt", "grouping"} /\ f.fn \notin {"head", "tail"}
    BY <1>1
  <2> QED BY <1>1, <2>1, PrecedencePushed
<1> HIDE DEF inner
<1>7. frames'[Len(frames')] = head /\ OpenParens(frames') = OpenParens(inner)
  <2>1. head.fn # "grouping"
    BY <1>2
  <2> QED BY <1>2, <1>4, <1>5, <2>1, FramePushed
<1>8. PrecedencesOK(frames')
  <2>1. inner[Len(inner)].fn \notin {"stmt", "grouping"} \/ head.precedence = PRECEDENCE_ASSIGNMENT
    BY <1>2, <1>5
  <2>2. head.precedence >= PRECEDENCE_ASSIGNMENT
    BY <1>2
  <2>3. PrecedencesOK(Append(inner, head))
    BY <1>2, <1>5, <1>6, <2>1, <2>2, PrecedencePushed
  <2> QED BY <1>4, <2>3
<1> QED BY <1>1, <1>2, <1>5, <1>7, <1>8

(* A literal is compiled to the instruction that loads it.                 *)
LEMMA LiteralCompiled ==
  ASSUME LanguageInv, status = "running", Top.fn = "head", ~parser.hadError,
         TokenSequence(source'), Begins(source, source'), Len(source') = Len(source) + 1,
         NEW token, token = source[Len(source)],
         Nud(token.type) \in {"compile_invariable_literal", "compile_numeric_literal",
                              "compile_string_literal"},
         CompileLiteral(token, Len(source)), status' = "running"
  PROVE  LoadsLiterals(chunk'.code, chunk'.constants, gcObjects', source', Len(source') - 1)
<1> DEFINE pos == Len(source)
           n == pos - 1
<1>1. /\ Len(source) \in Nat /\ Len(source) > 0 /\ Loaded(n)
      /\ CurrentType = token.type /\ token \in AllTokens /\ CompilerInv
  BY Situation DEF LanguageInv
<1>2. /\ chunk \in ChunkSet(Len(gcObjects)) /\ chunk.code \in Seq(Instructions)
      /\ gcObjects \in Seq(ObjectSet)
      /\ chunk.constants \in Seq(NumberValues \cup ObjectValues(Len(gcObjects)))
      /\ Len(chunk.constants) \in Nat
  BY <1>1, RunningTypes DEF CompilerInv, TypeOK, ChunkSet
<1>3. LoadsLiterals(chunk.code, chunk.constants, gcObjects, source, n)
  BY <1>1 DEF Loaded
<1>4. /\ n \in Nat /\ n + 1 = pos /\ Len(source') - 1 = pos /\ pos \in Nat
      /\ AgreeTo(source, source', n) /\ source'[pos] = token
  BY <1>1, Onward DEF AgreeTo
<1>5. CASE Nud(token.type) = "compile_invariable_literal"
  <2>1. /\ chunk' = [chunk EXCEPT !.code = Emit(@, token.type, 0, pos)]
        /\ UNCHANGED gcObjects
    BY <1>5 DEF CompileLiteral
  <2>2. token.type \in {"NIL", "TRUE", "FALSE"}
    BY <1>5 DEF Nud
  <2> DEFINE op == token.type
  <2>3. op \in Opcodes \ ConstantOps
    BY <2>2 DEF Opcodes, ConstantOps, InvariableOps
  <2> HIDE DEF op, pos
  <2>4. chunk' = [chunk EXCEPT !.code = Emit(@, op, 0, pos)]
    BY <2>1 DEF op
  <2>5. /\ chunk'.constants = chunk.constants /\ chunk'.code \in Seq(Instructions)
        /\ LoadsNothing(chunk.code, chunk'.code)
    BY <1>4, <2>3, <2>4, CodeOfStep
  <2>6. CurrentType \notin {"NUMBER", "STRING"}
    BY <1>1, <2>2
  <2> QED BY <2>1, <2>5, <2>6, StillLoaded
<1>6. ASSUME NEW value, NEW objects, objects = gcObjects', objects \in Seq(ObjectSet),
             Begins(gcObjects, objects),
             token.type \in {"NUMBER", "STRING"}, DenotedBy(value, token, objects),
             chunk' = AppendConstant(value, pos), status' = ConstantStatus
      PROVE  LoadsLiterals(chunk'.code, chunk'.constants, gcObjects', source', Len(source') - 1)
  <2> DEFINE k == Len(chunk.constants)
             op == ConstantOp(k)
             code == chunk.code
             more == chunk'.code
             pool == chunk'.constants
  <2>1. ~(k >= PoolLimit)
    BY <1>6 DEF ConstantStatus
  <2>2. op \in Opcodes /\ op \in ConstantOps
    BY DEF Opcodes, ConstantOps, ConstantOp
  <2>3. more = Emit(code, op, k, pos) /\ pool = Append(chunk.constants, value)
    BY <1>6, <2>1 DEF AppendConstant
  <2> HIDE DEF op, k, more, code
  <2>4. k \in Nat /\ code \in Seq(Instructions)
    BY <1>2 DEF k, code
  <2>5. /\ Emit(code, op, k, pos) \in Seq(Instructions)
        /\ Len(Emit(code, op, k, pos)) = Len(code) + 1
        /\ \A i \in 1..Len(code) : Emit(code, op, k, pos)[i] = code[i]
        /\ Emit(code, op, k, pos)[Len(code) + 1]
             = [op |-> op, arg |-> k, pos |-> pos, height |-> HeightAfter(code)]
    BY <1>4, <2>2, <2>4, EmitFacts
  <2>6. /\ more \in Seq(Instructions) /\ Len(more) = Len(code) + 1 /\ Begins(code, more)
        /\ more[Len(code) + 1].op \in ConstantOps
        /\ more[Len(code) + 1].arg = k
        /\ more[Len(code) + 1].pos = n + 1
    BY <1>4, <2>2, <2>3, <2>4, <2>5 DEF Begins
  <2>7. \A i \in Loads(code) : code[i].arg < k
    BY <1>1 DEF CompilerInv, OperandsFit, OperandFits, Loads, code, k
  <2> HIDE DEF n, pos, pool
  <2>8. AgreeTo(source, source', n) /\ source'[n + 1] = token /\ n \in Nat
    BY <1>4
  <2>9. LoadsLiterals(more, pool, objects, source', n + 1)
    <3>1. LoadsLiterals(code, chunk.constants, gcObjects, source, n)
      BY <1>3 DEF code
    <3>2. /\ source'[n + 1].type \in {"NUMBER", "STRING"}
          /\ DenotedBy(value, source'[n + 1], objects)
      BY <1>6, <2>8
    <3> DEFINE constants == chunk.constants
               longer == source'
    <3>3. /\ constants \in Seq(NumberValues \cup ObjectValues(Len(gcObjects)))
          /\ pool = Append(constants, value) /\ k = Len(constants)
          /\ LoadsLiterals(code, constants, gcObjects, source, n)
          /\ AgreeTo(source, longer, n)
          /\ longer[n + 1].type \in {"NUMBER", "STRING"}
          /\ DenotedBy(value, longer[n + 1], objects)
      BY <1>2, <2>3, <2>8, <3>1, <3>2 DEF k
    <3> HIDE DEF constants, longer
    <3>4. LoadsLiterals(more, pool, objects, longer, n + 1)
      BY <1>2, <1>6, <2>4, <2>6, <2>7, <2>8, <3>3, LiteralLoaded
    <3> QED BY <3>4 DEF longer
  <2> QED BY <1>4, <1>6, <2>9 DEF more, pool
<1>7. CASE Nud(token.type) = "compile_numeric_literal"
  <2>1. token.type = "NUMBER"
    BY <1>7, AfterNud
  <2>2. /\ chunk' = AppendConstant(token.literal, pos) /\ status' = ConstantStatus
        /\ UNCHANGED gcObjects
    BY <1>7 DEF CompileLiteral
  <2>3. DenotedBy(token.literal, token, gcObjects)
    BY <2>1 DEF DenotedBy
  <2>4. Begins(gcObjects, gcObjects')
    BY <1>2, <2>2 DEF Begins
  <2> QED BY <1>2, <1>6, <2>1, <2>2, <2>3, <2>4
<1>8. CASE Nud(token.type) = "compile_string_literal"
  <2>1. token.type = "STRING"
    BY <1>8, AfterNud
  <2> DEFINE objects == NonOwningString(gcObjects, token.literal.text, sourceId)
  <2>2. /\ gcObjects' = objects /\ status' = ConstantStatus
        /\ chunk' = AppendConstant(ObjectValue(Len(gcObjects')), pos)
    BY <1>8 DEF CompileLiteral
  <2>3. [text |-> token.literal.text, owner |-> FALSE, origin |-> sourceId] \in ObjectSet
    <3>1. token \in Tokens
      BY <1>1, <2>1 DEF AllTokens, EofToken, ErrorToken
    <3>2. sourceId \in Nat
      BY <1>1 DEF CompilerInv, TypeOK
    <3> QED BY <2>1, <3>1, <3>2, TokensAssumption DEF ObjectSet
  <2>4. /\ objects \in Seq(ObjectSet) /\ Begins(gcObjects, objects)
        /\ Len(objects) = Len(gcObjects) + 1
        /\ objects[Len(gcObjects) + 1].text = token.literal.text
    BY <1>2, <2>3 DEF NonOwningString, Begins
  <2> HIDE DEF objects
  <2>5. DenotedBy(ObjectValue(Len(objects)), token, objects)
    BY <2>1, <2>4 DEF DenotedBy, ObjectValue
  <2> QED BY <1>6, <2>1, <2>2, <2>4, <2>5
<1> QED BY <1>5, <1>7, <1>8

(* compile_precedence_expr: the first token of an expression.              *)
LEMMA HeadCompiled ==
  ASSUME LanguageInv, CompileHead, UNCHANGED sourceId
  PROVE  LanguageInv'
<1> DEFINE token == source[parser.current]
           advanced(scan) == CompilerAdvance(parser, scan)
<1>1. status = "running" /\ Top.fn = "head"
  BY DEF CompileHead, Running
<1>2. PICK scan \in Scans :
        /\ source' = source \o scan
        /\ CASE Nud(token.type) = "NULL" ->
                  /\ parser' = CompilerErrorAt(advanced(scan), "SYNTAX",
                                               parser.current, token.type)
                  /\ frames' = Callers
                  /\ UNCHANGED <<status, chunk, gcObjects>>
             [] Nud(token.type) = "compile_unary_expr" ->
                  /\ parser' = advanced(scan)
                  /\ frames' = ReplaceTop(<<TailFrame(Top.precedence, Top.height),
                                            UnaryFrame(token.type, Top.height, parser.current),
                                            HeadFrame(PRECEDENCE_UNARY, Top.height)>>)
                  /\ UNCHANGED <<status, chunk, gcObjects>>
             [] Nud(token.type) = "compile_grouping_expr" ->
                  /\ parser' = advanced(scan)
                  /\ frames' = ReplaceTop(<<TailFrame(Top.precedence, Top.height),
                                            GroupingFrame(Top.height),
                                            HeadFrame(PRECEDENCE_ASSIGNMENT, Top.height)>>)
                  /\ UNCHANGED <<status, chunk, gcObjects>>
             [] OTHER ->
                  /\ parser' = advanced(scan)
                  /\ CompileLiteral(token, parser.current)
  BY DEF CompileHead
<1>3. CompilerInv /\ CompilerInv'
  BY HeadStep DEF LanguageInv
<1>4. /\ frames \in Seq(FrameSet) /\ frames # <<>> /\ Top = frames[Len(frames)]
      /\ Top \in FrameSet /\ OpenParens(frames) \in Nat
      /\ PrecedencesOK(frames) /\ Reported(source, parser)
      /\ TokenSequence(source) /\ source \in Seq(AllTokens)
      /\ Len(source) \in Nat /\ Len(source) > 0
      /\ parser \in ParserSet(Len(source)) /\ parser.current = Len(source)
      /\ (parser.hadError <=> parser.state # "OK")
      /\ token = source[Len(source)] /\ token \in AllTokens /\ CurrentType = token.type
      /\ (AtEof <=> CurrentType = "EOF")
      /\ ~parser.hadError =>
           Expects(source, frames) /\ OutlookOf(source, Len(source) - 1).need # "dead"
  BY <1>1, Situation
<1> HIDE DEF token
<1> DEFINE depth == OpenParens(frames)
           outlook == OutlookOf(source, Len(source) - 1)
<1>5. ~parser.hadError =>
        \/ outlook = Need("operand", depth)
        \/ outlook = Need("statement", 0) /\ depth = 0 /\ token.type \notin {"PRINT", "EOF"}
  BY <1>1, <1>4 DEF Expects
<1> HIDE DEF depth, outlook
<1>6. ~parser.hadError => After(outlook, token.type) = AfterOperand(depth, token.type)
  <2>1. After(Need("operand", depth), token.type) = AfterOperand(depth, token.type)
    BY AfterNud
  <2> QED BY <1>5, <2>1, AfterStatement
<1>7. token.type \in TokenTypes \cup {"EOF", "ERROR"}
  BY <1>4, EofAndError
<1>8. CASE Nud(token.type) = "NULL"
  <2>1. /\ parser' = CompilerErrorAt(advanced(scan), "SYNTAX", parser.current, token.type)
        /\ frames' = Callers /\ UNCHANGED <<status, chunk, gcObjects>>
    BY <1>2, <1>8, Zenon
  <2> DEFINE q == advanced(scan)
             whole == source \o scan
             pos == Len(source)
  <2>2. /\ Reported(whole, q) /\ Begins(source, whole)
        /\ parser.hadError => q.hadError
        /\ ~q.hadError => (AtEof => whole = source)
        /\ (q.state = "OK" <=> ~q.hadError)
    BY <1>4, AdvanceReported
  <2>3. q \in ParserSet(Len(whole))
    <3>1. TypeOK
      BY <1>3 DEF CompilerInv
    <3> QED BY <1>4, <3>1, AdvanceFacts
  <2>4. TokenSequence(whole) /\ Len(whole) \in Nat
    <3>1. TokenSequence(source \o scan) /\ Len(source \o scan) = Len(source) + Len(scan) /\ Len(scan) \in Nat
      BY <1>4, ScannedTokens
    <3> QED BY <1>4, <3>1
  <2> HIDE DEF q, whole
  <2>5. pos \in 1..Len(whole) /\ whole[pos] = token /\ pos \in 0..Len(source) /\ pos - 1 \in 0..Len(source)
    BY <1>4, <2>2, <2>4 DEF Begins
  <2>6. ASSUME ~q.hadError
        PROVE  /\ OutlookOf(whole, pos - 1).need # "dead"
               /\ OutlookOf(whole, pos).need = "dead"
               /\ whole[pos] = EofToken =>
                    pos = Len(whole) /\ OutlookOf(whole, pos - 1).need # "statement"
    <3>1. ~parser.hadError
      BY <2>2, <2>6
    <3>2. OutlookOf(whole, pos - 1) = outlook /\ OutlookOf(whole, pos) = OutlookOf(source, pos)
      BY <1>4, <2>2, <2>4, <2>5, OutlookKept DEF outlook
    <3>3. OutlookOf(source, pos) = After(outlook, token.type)
      BY <1>1, <1>4, OutlookPast DEF outlook
    <3>4. OutlookOf(source, pos) = Dead
      BY <1>6, <1>8, <3>1, <3>3, AfterNud
    <3>5. ASSUME whole[pos] = EofToken
          PROVE  pos = Len(whole) /\ OutlookOf(whole, pos - 1).need # "statement"
      <4>1. token.type = "EOF" /\ AtEof
        BY <1>4, <2>5, <3>5, EofAndError
      <4>2. whole = source
        BY <2>2, <2>6, <4>1
      <4>3. outlook = Need("operand", depth)
        BY <1>5, <3>1, <4>1
      <4> QED BY <3>2, <4>2, <4>3 DEF Need
    <3>6. outlook.need # "dead"
      BY <1>4, <3>1 DEF outlook
    <3> QED BY <3>2, <3>4, <3>5, <3>6 DEF Dead
  <2>7. Reported(whole, CompilerErrorAt(q, "SYNTAX", pos, whole[pos].type))
    BY <2>2, <2>3, <2>4, <2>5, <2>6, SyntaxErrorReported
  <2>8. source' = whole /\ parser' = CompilerErrorAt(q, "SYNTAX", pos, whole[pos].type)
    <3>1. parser' = CompilerErrorAt(q, "SYNTAX", parser.current, token.type)
      BY <2>1 DEF q
    <3> QED BY <1>2, <1>4, <2>5, <3>1 DEF whole
  <2>9. parser'.hadError
    <3>1. (q.hadError <=> q.state # "OK") /\ q.hadError \in BOOLEAN
      BY <2>2, <2>3 DEF ParserSet
    <3>2. pos \in Nat
      BY <1>4
    <3> HIDE DEF pos
    <3> QED BY <2>3, <2>4, <2>8, <3>1, <3>2, ErrorAtFacts
  <2>10. PrecedencesOK(frames')
    BY <1>4, <2>1, FramePopped DEF Callers
  <2>11. status' \in {"running", "exit"} /\ Reported(source', parser')
    BY <1>1, <2>1, <2>7, <2>8
  <2> QED BY <1>3, <2>9, <2>10, <2>11, AssembleLanguage
<1>9. CASE Nud(token.type) # "NULL"
  <2>1. parser' = CompilerAdvance(parser, scan) /\ source' = source \o scan
    BY <1>2, <1>9, Zenon
  <2>2. ScannedOn
    BY <1>1, <2>1, AdvanceOn
  <2>3. ~AtEof
    BY <1>4, <1>9, AfterNud
  <2>4. ASSUME ~parser'.hadError
        PROVE  /\ ~parser.hadError /\ Len(source') = Len(source) + 1
               /\ TokenSequence(source') /\ Begins(source, source')
               /\ OutlookOf(source', Len(source') - 1) = AfterOperand(depth, token.type)
    <3>1. /\ ~parser.hadError /\ Len(source') = Len(source) + 1
          /\ TokenSequence(source') /\ Begins(source, source')
      BY <2>2, <2>3, <2>4 DEF ScannedOn
    <3>2. OutlookOf(source', Len(source') - 1) = After(outlook, token.type)
      BY <1>1, <1>4, <3>1, Onward DEF outlook
    <3> QED BY <1>6, <3>1, <3>2
  <2>5. ASSUME NEW f \in FrameSet, f.fn \in {"unary", "grouping"},
               NEW precedence \in Precedences, precedence >= PRECEDENCE_ASSIGNMENT,
               f.fn = "grouping" => precedence = PRECEDENCE_ASSIGNMENT,
               frames' = ReplaceTop(<<TailFrame(Top.precedence, Top.height), f,
                                      HeadFrame(precedence, Top.height)>>),
               UNCHANGED <<status, chunk, gcObjects>>,
               token.type \notin {"NUMBER", "STRING"},
               AfterOperand(depth, token.type)
                 = Need("operand", IF f.fn = "grouping" THEN depth + 1 ELSE depth)
        PROVE  LanguageInv'
    <3>1. /\ frames'[Len(frames')].fn = "head" /\ PrecedencesOK(frames')
          /\ OpenParens(frames') = IF f.fn = "grouping" THEN OpenParens(frames) + 1
                                   ELSE OpenParens(frames)
      BY <1>1, <2>5, OperandCalled
    <3>2. ASSUME ~parser'.hadError
          PROVE  /\ Expects(source', frames')
                 /\ LoadsLiterals(chunk'.code, chunk'.constants, gcObjects', source', Len(source') - 1)
      <4>1. Expects(source', frames')
        BY <2>4, <2>5, <3>1, <3>2 DEF Expects, depth
      <4>2. /\ chunk'.code \in Seq(Instructions) /\ LoadsNothing(chunk.code, chunk'.code)
            /\ chunk'.constants = chunk.constants
        BY <1>1, <1>3, <2>5, RunningTypes DEF Begins, LoadsNothing
      <4> QED BY <1>1, <1>4, <2>4, <2>5, <3>2, <4>1, <4>2, StillLoaded
    <3> QED BY <1>1, <1>3, <2>2, <2>5, <3>1, <3>2, AssembleLanguage DEF ScannedOn
  <2>6. Top.height \in Nat /\ PRECEDENCE_ASSIGNMENT = 1
    BY <1>4 DEF FrameSet, PRECEDENCE_ASSIGNMENT
  <2>7. CASE Nud(token.type) = "compile_unary_expr"
    <3>1. /\ frames' = ReplaceTop(<<TailFrame(Top.precedence, Top.height),
                                    UnaryFrame(token.type, Top.height, parser.current),
                                    HeadFrame(PRECEDENCE_UNARY, Top.height)>>)
          /\ UNCHANGED <<status, chunk, gcObjects>>
      BY <1>2, <2>7, Zenon
    <3> DEFINE f == UnaryFrame(token.type, Top.height, parser.current)
    <3>2. f \in FrameSet /\ f.fn = "unary"
      <4>1. parser.current \in Nat
        BY <1>4
      <4> QED BY <1>7, <2>6, <4>1, OperatorFrames
    <3>3. PRECEDENCE_UNARY \in Precedences /\ PRECEDENCE_UNARY >= PRECEDENCE_ASSIGNMENT
      BY FrameTypes
    <3>4. AfterOperand(depth, token.type) = Need("operand", depth) /\ token.type \notin {"NUMBER", "STRING"}
      BY <2>7, AfterNud
    <3> HIDE DEF f
    <3> QED BY <2>5, <3>1, <3>2, <3>3, <3>4 DEF f
  <2>8. CASE Nud(token.type) = "compile_grouping_expr"
    <3>1. /\ frames' = ReplaceTop(<<TailFrame(Top.precedence, Top.height),
                                    GroupingFrame(Top.height),
                                    HeadFrame(PRECEDENCE_ASSIGNMENT, Top.height)>>)
          /\ UNCHANGED <<status, chunk, gcObjects>>
      BY <1>2, <2>8, Zenon
    <3> DEFINE f == GroupingFrame(Top.height)
    <3>2. f \in FrameSet /\ f.fn = "grouping"
      BY <1>7, <2>6, FrameTypes
    <3>3. PRECEDENCE_ASSIGNMENT \in Precedences /\ PRECEDENCE_ASSIGNMENT >= PRECEDENCE_ASSIGNMENT
      BY FrameTypes
    <3>4. AfterOperand(depth, token.type) = Need("operand", depth + 1) /\ token.type \notin {"NUMBER", "STRING"}
      BY <2>8, AfterNud
    <3> HIDE DEF f
    <3> QED BY <2>5, <3>1, <3>2, <3>3, <3>4 DEF f
  <2>9. CASE Nud(token.type) \in {"compile_invariable_literal", "compile_numeric_literal",
                                 "compile_string_literal"}
    <3>1. CompileLiteral(token, parser.current)
      BY <1>2, <2>9, Zenon
    <3>2. frames' = ReplaceTop(<<TailFrame(Top.precedence, Top.height)>>)
      BY <3>1 DEF CompileLiteral
    <3>3. status' \in {"running", "exit"}
      BY <1>1, <2>9, <3>1 DEF CompileLiteral, ConstantStatus
    <3>4. /\ frames'[Len(frames')].fn = "tail" /\ PrecedencesOK(frames')
          /\ OpenParens(frames') = depth
      BY <1>1, <3>2, HeadReplaced DEF depth
    <3>5. ASSUME ~parser'.hadError, status' = "running"
          PROVE  /\ Expects(source', frames')
                 /\ LoadsLiterals(chunk'.code, chunk'.constants, gcObjects', source', Len(source') - 1)
      <4>1. AfterOperand(depth, token.type) = Need("operator", depth)
        BY <2>9, AfterNud
      <4>2. Expects(source', frames')
        BY <2>4, <3>4, <3>5, <4>1 DEF Expects
      <4>3. CompileLiteral(token, Len(source))
        BY <1>4, <3>1
      <4> QED BY <1>1, <1>4, <2>4, <2>9, <3>5, <4>2, <4>3, LiteralCompiled
    <3> QED BY <1>3, <2>2, <3>3, <3>4, <3>5, AssembleLanguage DEF ScannedOn
  <2> QED BY <1>9, <2>7, <2>8, <2>9, AfterNud
<1> QED BY <1>8, <1>9

(* compiler_compile: nothing is compiled yet; malformed lexemes before the *)
(* first token are the error.                                              *)
LEMMA Started ==
  ASSUME CompilerInv, CompilerStart
  PROVE  LanguageInv'
<1>1. PICK n \in 0..MaxErrors, t \in Tokens \cup {EofToken} :
        /\ source' = Scan(n, t)
        /\ parser' = [InitialParser EXCEPT
                        !.current = Len(Scan(n, t)),
                        !.state = IF n > 0 THEN "PANIC" ELSE "OK",
                        !.hadError = n > 0,
                        !.report = IF n > 0 THEN [kind |-> "LEXICAL", pos |-> 1]
                                   ELSE NoReport]
  BY DEF CompilerStart
<1>2. /\ frames' = <<CompileFrame>> /\ status' = "running" /\ chunk' = [code |-> <<>>, constants |-> <<>>]
  BY DEF CompilerStart, EmptyChunk
<1>3. CompilerInv'
  BY StartStep
<1>4. /\ source' \in Seq(AllTokens) /\ Len(source') = n + 1 /\ n \in Nat
      /\ \A i \in 1..n : source'[i] = ErrorToken
      /\ source'[n + 1] # ErrorToken
  BY <1>1, ScanContents, BoundsAssumption
<1>5. /\ parser'.hadError <=> n > 0
      /\ n > 0 => parser'.state = "PANIC" /\ parser'.report = [kind |-> "LEXICAL", pos |-> 1]
  BY <1>1 DEF InitialParser
<1>6. PrecedencesOK(frames')
  <2>1. Len(frames') = 1 /\ frames'[1] = CompileFrame
    BY <1>2
  <2>2. CompileFrame.fn = "compile"
    BY DEF CompileFrame, Frame
  <2> QED BY <2>1, <2>2 DEF PrecedencesOK
<1>7. CASE n > 0
  <2>1. parser'.hadError /\ parser'.report.kind = "LEXICAL" /\ parser'.report.pos = 1
    BY <1>5, <1>7
  <2>2. LexicalReport(source', parser')
    BY <1>4, <1>5, <1>7, <2>1 DEF LexicalReport, NoErrorToken
  <2>3. Reported(source', parser')
    BY <1>4, <2>1, <2>2 DEF Reported
  <2> QED BY <1>2, <1>3, <1>6, <2>1, <2>3, AssembleLanguage
<1>8. CASE n = 0
  <2>1. ~parser'.hadError /\ Len(source') = 1 /\ Len(source') - 1 = 0
    BY <1>4, <1>5, <1>8
  <2>2. Reported(source', parser')
    <3>1. \A i \in 1..Len(source') : source'[i] # ErrorToken
      BY <1>4, <1>8, <2>1
    <3> QED BY <2>1, <3>1 DEF Reported, NoErrorToken
  <2>3. Expects(source', frames')
    <3>1. OutlookOf(source', 0) = Need("statement", 0)
      BY <1>4, OutlookOfFacts DEF TokenSequence
    <3>2. frames'[Len(frames')].fn = "compile"
      BY <1>2 DEF CompileFrame, Frame
    <3> QED BY <2>1, <3>1, <3>2 DEF Expects
  <2>4. LoadsLiterals(<<>>, <<>>, gcObjects', source', 0)
    <3>1. Literals(source', 0) = {} /\ Loads(<<>>) = {}
      BY DEF Literals, Loads
    <3>2. Cardinality({}) = 0
      BY FS_EmptySet
    <3> QED BY <3>1, <3>2 DEF LoadsLiterals
  <2>5. LoadsLiterals(chunk'.code, chunk'.constants, gcObjects', source', Len(source') - 1)
    BY <1>2, <2>1, <2>4
  <2> QED BY <1>2, <1>3, <1>6, <2>2, <2>3, <2>5, AssembleLanguage
<1> QED BY <1>4, <1>7, <1>8

(* LanguageInv is inductive.                                               *)
LEMMA InitLanguage == CompilerInit => LanguageInv
<1> SUFFICES ASSUME CompilerInit PROVE LanguageInv
  OBVIOUS
<1>1. /\ source = <<>> /\ frames = <<>> /\ status = "idle" /\ ~parser.hadError
  BY DEF CompilerInit, InitialParser
<1>2. CompilerInv
  BY InitInv
<1>3. Len(source) = 0 /\ Len(frames) = 0
  BY <1>1
<1>4. PrecedencesOK(frames)
  BY <1>3 DEF PrecedencesOK
<1>5. Reported(source, parser)
  BY <1>1, <1>3 DEF Reported, NoErrorToken
<1> QED BY <1>1, <1>2, <1>4, <1>5 DEF LanguageInv, Understood, Accepted, Finished

LEMMA StepLanguage == LanguageInv /\ CompilerStep => LanguageInv'
BY StatementCalled, Ended, HeadCompiled, OperatorTaken, ExpressionEnded, OperatorEmitted,
   GroupingClosed, StatementEnded DEF CompilerStep

LEMMA LanguageKept ==
  LanguageInv /\ UNCHANGED <<source, sourceId, parser, frames, status, chunk, gcObjects>>
    => LanguageInv'
<1> SUFFICES ASSUME LanguageInv,
                    UNCHANGED <<source, sourceId, parser, frames, status, chunk, gcObjects>>
             PROVE  LanguageInv'
  OBVIOUS
<1>1. CompilerInv'
  <2>1. ObjectsGrow
    BY DEF ObjectsGrow, LanguageInv, CompilerInv, TypeOK
  <2> QED BY <2>1, OthersInv DEF LanguageInv
<1> QED BY <1>1 DEF LanguageInv, Understood, Accepted, Finished, Loaded

LEMMA NextLanguage == LanguageInv /\ [Next]_vars => LanguageInv'
BY Started, StepLanguage, LanguageKept DEF Next, vars, compilerVars, LanguageInv

(* At every moment of every compilation the compiler knows where in the    *)
(* language it is, and the errors and constants are those of the source:   *)
(* the invariant from which the four theorems below follow.                *)
THEOREM CompilerLanguage == Spec => []LanguageInv
<1>1. Init => LanguageInv
  BY InitLanguage DEF Init
<1> QED BY <1>1, NextLanguage, PTL DEF Spec

-----------------------------------------------------------------------------
(* What has ended, and how.                                                *)

(* Nothing turns a prefix that is not viable into a program.               *)
LEMMA DeadIsNotCompletable ==
  ASSUME NEW types, NEW T, types \in Seq(T), Outlook(types).need = "dead"
  PROVE  ~Completable(types)
<1> SUFFICES ASSUME NEW operand \in {<<>>, <<"NIL">>}, NEW depth \in 0..Len(types),
                    IsProgram(types \o Ending(operand, depth))
             PROVE  FALSE
  BY DEF Completable, Completions
<1> DEFINE S == T \cup {"NIL", "CLOSE_PAREN", "SEMICOLON"}
           suffix == Ending(operand, depth)
           whole == types \o suffix
<1>1. types \in Seq(S) /\ Len(types) \in Nat /\ depth \in Nat /\ operand \in Seq(S)
  <2>1. Len(types) \in Nat /\ depth \in Nat /\ types \in Seq(S)
    OBVIOUS
  <2>2. <<>> \in Seq(S) /\ <<"NIL">> \in Seq(S)
    OBVIOUS
  <2> QED BY <2>1, <2>2
<1>2. suffix \in Seq(S)
  BY <1>1, EndingFacts
<1> HIDE DEF S, suffix
<1>3. Joins(whole, types, suffix, S)
  BY <1>1, <1>2, ConcatFacts
<1>4. /\ Len(whole) \in Nat /\ Len(types) <= Len(whole)
      /\ \A i \in 1..Len(types) : types[i] = whole[i]
  BY <1>3 DEF Joins
<1> HIDE DEF whole
<1>5. Outlooks(whole)[Len(types)].need = "dead"
  <2>1. \A i \in 0..Len(types) : Outlooks(types)[i] = Outlooks(whole)[i]
    BY <1>1, <1>4, OutlooksAgree
  <2>2. Len(types) \in 0..Len(types)
    BY <1>1
  <2> QED BY <2>1, <2>2 DEF Outlook
<1>6. Outlooks(whole)[Len(whole)].need = "dead"
  BY <1>1, <1>4, <1>5, DeadForGood
<1>7. IsProgram(whole)
  BY DEF whole, suffix
<1> QED BY <1>6, <1>7 DEF IsProgram, Outlook

(* The end of the source, and the error that was reported.                 *)
LEMMA AtTheEnd ==
  ASSUME LanguageInv, Finished
  PROVE  /\ TokenSequence(source) /\ source # <<>> /\ source[Len(source)] = EofToken
         /\ Len(source) \in Nat /\ Len(source) > 0
         /\ status = CompilerStatus(parser) /\ Reported(source, parser)
         /\ Outlook(Program) = OutlookOf(source, Len(source) - 1)
         /\ parser.hadError \in BOOLEAN
         /\ ~parser.hadError =>
              ~HasLexicalError /\ IsProgram(Program) /\ Loaded(Len(source) - 1)
         /\ parser.hadError =>
              \/ parser.report.kind = "LEXICAL" /\ parser.state = "PANIC" /\ HasLexicalError
              \/ /\ parser.report.kind = "SYNTAX" /\ parser.state = "UNEXPECTED_EOF"
                 /\ ~HasLexicalError /\ Outlook(Program).need \in {"operand", "operator"}
              \/ /\ parser.report.kind = "SYNTAX" /\ parser.state # "UNEXPECTED_EOF"
                 /\ Outlook(Program).need = "dead"
<1> DEFINE pos == parser.report.pos
<1>1. CompilerInv /\ Reported(source, parser) /\ Accepted
  BY DEF LanguageInv
<1>2. /\ source # <<>> /\ source[Len(source)] = EofToken /\ status = CompilerStatus(parser)
      /\ ~parser.hadError =>
           /\ OutlookOf(source, Len(source) - 1) = Need("statement", 0)
           /\ Loaded(Len(source) - 1)
  BY <1>1 DEF Accepted
<1>3. /\ TokenSequence(source) /\ Len(source) \in Nat /\ Len(source) > 0
      /\ parser.hadError \in BOOLEAN
  BY <1>1, <1>2 DEF CompilerInv, TypeOK, TokenSequence, ParserSet
<1>4. Outlook(Program) = OutlookOf(source, Len(source) - 1)
  BY <1>2, <1>3, OutlookOfProgram
<1>5. ASSUME ~parser.hadError
      PROVE  ~HasLexicalError /\ IsProgram(Program) /\ Loaded(Len(source) - 1)
  <2>1. ~HasLexicalError
    BY <1>1, <1>5 DEF Reported, NoErrorToken, HasLexicalError
  <2>2. IsProgram(Program)
    BY <1>2, <1>4, <1>5 DEF IsProgram, Need
  <2> QED BY <1>2, <1>5, <2>1, <2>2
<1>6. ASSUME parser.hadError
      PROVE  \/ parser.report.kind = "LEXICAL" /\ parser.state = "PANIC" /\ HasLexicalError
             \/ /\ parser.report.kind = "SYNTAX" /\ parser.state = "UNEXPECTED_EOF"
                /\ ~HasLexicalError /\ Outlook(Program).need \in {"operand", "operator"}
             \/ /\ parser.report.kind = "SYNTAX" /\ parser.state # "UNEXPECTED_EOF"
                /\ Outlook(Program).need = "dead"
  <2>1. /\ pos \in 1..Len(source)
        /\ SyntaxReport(source, parser) \/ LexicalReport(source, parser)
    BY <1>1, <1>6 DEF Reported
  <2>2. CASE LexicalReport(source, parser)
    <3>1. parser.report.kind = "LEXICAL" /\ parser.state = "PANIC" /\ source[pos] = ErrorToken
      BY <2>2 DEF LexicalReport
    <3> QED BY <2>1, <3>1 DEF HasLexicalError
  <2>3. CASE SyntaxReport(source, parser)
    <3>1. /\ parser.report.kind = "SYNTAX" /\ NoErrorToken(source, pos)
          /\ OutlookOf(source, pos - 1).need # "dead"
          /\ OutlookOf(source, pos).need = "dead"
          /\ IF parser.state = "UNEXPECTED_EOF"
             THEN /\ source[pos] = EofToken /\ pos = Len(source)
                  /\ OutlookOf(source, pos - 1).need # "statement"
             ELSE source[pos] # EofToken
      BY <2>3 DEF SyntaxReport
    <3>2. CASE parser.state = "UNEXPECTED_EOF"
      <4>1. pos = Len(source) /\ ~HasLexicalError
        BY <3>1, <3>2 DEF NoErrorToken, HasLexicalError
      <4>2. OutlookOf(source, Len(source) - 1) \in OutlookStates
        BY <1>3, OutlookOfFacts
      <4>3. Outlook(Program).need \in {"operand", "operator"}
        BY <1>4, <3>1, <3>2, <4>1, <4>2 DEF OutlookStates
      <4> QED BY <3>1, <3>2, <4>1, <4>3
    <3>3. CASE parser.state # "UNEXPECTED_EOF"
      <4>1. pos # Len(source)
        BY <1>2, <3>1, <3>3
      <4>2. pos \in Nat /\ Len(source) - 1 \in Nat /\ pos <= Len(source) - 1
        BY <1>3, <2>1, <4>1
      <4>3. OutlookOf(source, Len(source) - 1).need = "dead"
        BY <3>1, <4>2, DeadForGood DEF OutlookOf
      <4> QED BY <1>4, <3>1, <3>3, <4>3
    <3> QED BY <3>2, <3>3
  <2> QED BY <2>1, <2>2, <2>3
<1> QED BY <1>1, <1>2, <1>3, <1>4, <1>5, <1>6

(* What LanguageInv says of a compilation that has finished.               *)
LEMMA AcceptsAtTheEnd == LanguageInv => AcceptsThePrograms
<1> SUFFICES ASSUME LanguageInv, Finished
             PROVE  status = "success" <=> ~HasLexicalError /\ IsProgram(Program)
  BY DEF AcceptsThePrograms
<1>1. parser.hadError \in BOOLEAN /\ status = CompilerStatus(parser)
  BY AtTheEnd
<1>2. status = "success" <=> ~parser.hadError
  BY <1>1 DEF CompilerStatus
<1>3. ~parser.hadError => ~HasLexicalError /\ IsProgram(Program)
  BY AtTheEnd
<1>4. parser.hadError =>
        HasLexicalError \/ Outlook(Program).need \in {"operand", "operator", "dead"}
  BY AtTheEnd
<1> QED BY <1>2, <1>3, <1>4 DEF IsProgram

LEMMA EofAtTheEnd == LanguageInv => UnexpectedEofIffCompletable
<1> SUFFICES ASSUME LanguageInv, Finished
             PROVE  status = "unexpected_eof"
                      <=> ~HasLexicalError /\ ~IsProgram(Program) /\ Completable(Program)
  BY DEF UnexpectedEofIffCompletable
<1>1. /\ parser.hadError \in BOOLEAN /\ status = CompilerStatus(parser)
      /\ TokenSequence(source) /\ source # <<>> /\ source[Len(source)] = EofToken
      /\ Len(source) \in Nat /\ Len(source) > 0
  BY AtTheEnd
<1>2. status = "unexpected_eof" <=> parser.hadError /\ parser.state = "UNEXPECTED_EOF"
  BY <1>1 DEF CompilerStatus
<1>3. Program \in Seq(TokenTypes \cup {"EOF", "ERROR"})
  <2>1. /\ Len(Program) = Len(source) - 1
        /\ \A i \in 1..Len(source) - 1 : Program[i] = source[i].type
    BY <1>1, OutlookOfProgram
  <2>2. \A i \in 1..Len(source) - 1 : source[i].type \in TokenTypes \cup {"EOF", "ERROR"}
    <3>1. \A i \in 1..Len(source) - 1 : source[i] \in AllTokens
      BY <1>1 DEF TokenSequence
    <3> QED BY <3>1, EofAndError
  <2> DEFINE n == Len(source) - 1
             types == [i \in 1..n |-> source[i].type]
  <2>3. SubSeq(source, 1, n) \in Seq(AllTokens) /\ Len(SubSeq(source, 1, n)) = n
        /\ \A i \in 1..n : SubSeq(source, 1, n)[i] = source[i]
    <3>1. n \in Nat /\ n <= Len(source) /\ source \in Seq(AllTokens)
      BY <1>1 DEF TokenSequence
    <3> HIDE DEF n
    <3> QED BY <3>1
  <2>4. Program = types
    BY <1>1, <2>3 DEF Program, Types
  <2>5. n \in Nat
    BY <1>1
  <2> HIDE DEF n
  <2>6. types \in Seq(TokenTypes \cup {"EOF", "ERROR"})
    <3> DEFINE all == TokenTypes \cup {"EOF", "ERROR"}
    <3>1. \A i \in 1..n : source[i].type \in all
      BY <2>2 DEF n
    <3> HIDE DEF all
    <3> QED BY <2>5, <3>1 DEF all
  <2> QED BY <2>4, <2>6
<1>4. Outlook(Program).need \in {"operand", "operator"} => Completable(Program)
  BY <1>3, ViableIsCompletable
<1>5. Outlook(Program).need = "dead" => ~Completable(Program)
  BY <1>3, DeadIsNotCompletable
<1>6. ~parser.hadError => IsProgram(Program)
  BY AtTheEnd
<1>7. parser.hadError =>
        \/ parser.state = "PANIC" /\ HasLexicalError
        \/ /\ parser.state = "UNEXPECTED_EOF"
           /\ ~HasLexicalError /\ Outlook(Program).need \in {"operand", "operator"}
        \/ parser.state # "UNEXPECTED_EOF" /\ Outlook(Program).need = "dead"
  BY AtTheEnd
<1> QED BY <1>1, <1>2, <1>4, <1>5, <1>6, <1>7 DEF IsProgram

LEMMA FirstOffender == LanguageInv => ReportsFirstOffender
<1> DEFINE pos == parser.report.pos
<1> SUFFICES ASSUME LanguageInv, status = "failure"
             PROVE  CASE parser.report.kind = "SYNTAX" ->
                           /\ Viable(SubSeq(Program, 1, pos - 1))
                           /\ ~Viable(SubSeq(Program, 1, pos))
                      [] parser.report.kind = "LEXICAL" ->
                           /\ source[pos] = ErrorToken
                           /\ \A i \in 1..pos - 1 : source[i] # ErrorToken
                           /\ Viable(SubSeq(Program, 1, pos - 2))
                      [] OTHER -> FALSE
  BY Zenon DEF ReportsFirstOffender
<1>1. Finished
  BY DEF Finished
<1>2. /\ TokenSequence(source) /\ source # <<>> /\ source[Len(source)] = EofToken
      /\ Len(source) \in Nat /\ Len(source) > 0
      /\ status = CompilerStatus(parser) /\ Reported(source, parser)
  BY <1>1, AtTheEnd
<1>3. parser.hadError /\ parser.state # "UNEXPECTED_EOF"
  BY <1>2 DEF CompilerStatus
<1>4. /\ pos \in 1..Len(source)
      /\ SyntaxReport(source, parser) \/ LexicalReport(source, parser)
  BY <1>2, <1>3 DEF Reported
<1>5. \A n \in 0..Len(source) - 1 : Outlook(SubSeq(Program, 1, n)) = OutlookOf(source, n)
  BY <1>2, OutlookOfProgram
<1>6. source[pos] # EofToken => pos \in 0..Len(source) - 1 /\ pos - 1 \in 0..Len(source) - 1
  BY <1>2, <1>4
<1>7. CASE SyntaxReport(source, parser)
  <2>1. /\ parser.report.kind = "SYNTAX" /\ source[pos] # EofToken
        /\ OutlookOf(source, pos - 1).need # "dead"
        /\ OutlookOf(source, pos).need = "dead"
    BY <1>3, <1>7 DEF SyntaxReport
  <2>2. Viable(SubSeq(Program, 1, pos - 1)) /\ ~Viable(SubSeq(Program, 1, pos))
    BY <1>5, <1>6, <2>1 DEF Viable
  <2> QED BY <2>1, <2>2
<1>8. CASE LexicalReport(source, parser)
  <2>1. /\ parser.report.kind = "LEXICAL" /\ source[pos] = ErrorToken
        /\ NoErrorToken(source, pos - 1)
        /\ pos > 1 => OutlookOf(source, pos - 2).need # "dead"
    BY <1>8 DEF LexicalReport
  <2>2. \A i \in 1..pos - 1 : source[i] # ErrorToken
    BY <2>1 DEF NoErrorToken
  <2>3. Viable(SubSeq(Program, 1, pos - 2))
    <3>1. CASE pos > 1
      <4>1. pos - 2 \in 0..Len(source) - 1
        BY <1>2, <1>4, <3>1
      <4> QED BY <1>5, <2>1, <3>1, <4>1 DEF Viable
    <3>2. CASE pos = 1
      <4> DEFINE prefix == SubSeq(Program, 1, pos - 2)
      <4>1. Len(prefix) = 0
        <5>1. pos - 2 = -1
          BY <3>2
        <5>2. Len(SubSeq(Program, 1, -1)) = 0
          OBVIOUS
        <5> QED BY <5>1, <5>2
      <4> HIDE DEF prefix
      <4>2. Outlook(prefix) = Need("statement", 0)
        BY <4>1, OutlookSteps DEF Outlook
      <4> QED BY <4>2 DEF Viable, Need, prefix
    <3> QED BY <1>4, <3>1, <3>2
  <2> QED BY <2>1, <2>2, <2>3
<1> QED BY <1>4, <1>7, <1>8

LEMMA ConstantsAtTheEnd == LanguageInv => ConstantsInOrder
<1> SUFFICES ASSUME LanguageInv, status = "success"
             PROVE  LoadsLiterals(chunk.code, chunk.constants, gcObjects, source, Len(source))
  BY DEF ConstantsInOrder
<1> DEFINE n == Len(source) - 1
           m == Len(source)
<1>1. Finished /\ CompilerInv
  BY DEF Finished, LanguageInv
<1>2. /\ source[Len(source)] = EofToken /\ Len(source) \in Nat /\ Len(source) > 0
      /\ status = CompilerStatus(parser) /\ (~parser.hadError => Loaded(n))
  BY <1>1, AtTheEnd
<1>3. ~parser.hadError
  BY <1>2 DEF CompilerStatus
<1>4. LoadsLiterals(chunk.code, chunk.constants, gcObjects, source, n)
  BY <1>2, <1>3 DEF Loaded
<1>5. n \in Nat /\ m \in Nat /\ PassesNoLiteral(source, source, n, m)
  BY <1>2 DEF PassesNoLiteral, AgreeTo, EofToken
<1>6. chunk.code \in Seq(Instructions) /\ LoadsNothing(chunk.code, chunk.code)
  BY <1>1 DEF CompilerInv, TypeOK, ChunkSet, LoadsNothing, Begins
<1> HIDE DEF n, m
<1>7. LoadsLiterals(chunk.code, chunk.constants, gcObjects, source, m)
  BY <1>4, <1>5, <1>6, NothingLoaded
<1> QED BY <1>7 DEF m

(* compiler_compile succeeds on the programs of the grammar, whatever their*)
(* length and nesting, and on nothing else.                                *)
THEOREM CompilerAcceptsThePrograms == Spec => []AcceptsThePrograms
BY CompilerLanguage, AcceptsAtTheEnd, PTL

(* It returns COMPILER_UNEXPECTED_EOF exactly for the sources that more    *)
(* input can turn into a program, which is what the REPL asks more for.    *)
THEOREM CompilerUnexpectedEof == Spec => []UnexpectedEofIffCompletable
BY CompilerLanguage, EofAtTheEnd, PTL

(* The error it prints is the first one of the source.                     *)
THEOREM CompilerReportsFirstOffender == Spec => []ReportsFirstOffender
BY CompilerLanguage, FirstOffender, PTL

(* The constants of a chunk are its source's literals, each loaded once, in*)
(* their order.                                                            *)
THEOREM CompilerConstantsInOrder == Spec => []ConstantsInOrder
BY CompilerLanguage, ConstantsAtTheEnd, PTL

-----------------------------------------------------------------------------
(* The order of evaluation.  What is inductive says where in the source the*)
(* operators are whose operand is being compiled: those of the frames, from*)
(* the outermost to the innermost, none of whose operands has ended, except*)
(* that the one on top may end before the current token.  Everything else  *)
(* that has been read is emitted.                                          *)
Operator(f) == f.fn \in {"unary", "binary"}
(* How many parentheses are open at the frames up to the i-th.             *)
Depth(fs, i) == Cardinality({j \in 1..i : fs[j].fn = "grouping"})
Required(f) ==
  IF f.fn = "unary" THEN PRECEDENCE_UNARY ELSE RightOperandPrecedence(f.operator)

PendingAt(tokens, f, depth) ==
  /\ f.token \in 1..Len(tokens) - 1
  /\ tokens[f.token].type = f.operator
  /\ IF f.fn = "unary" THEN IsPrefixOp(tokens, f.token) ELSE IsInfixOp(tokens, f.token)
  /\ OutlookOf(tokens, f.token - 1).depth = depth
  /\ \A k \in f.token + 1..Len(tokens) - 1 : ~EndsOperandOf(tokens, f.token, k)
Pending(tokens, fs) ==
  \A i \in 1..Len(fs) : Operator(fs[i]) => PendingAt(tokens, fs[i], Depth(fs, i))
TokensAscend(fs) ==
  \A i, j \in 1..Len(fs) :
    i < j /\ Operator(fs[i]) /\ Operator(fs[j]) => fs[i].token < fs[j].token
Tight(fs) ==
  \A i, j \in 1..Len(fs) :
    i < j /\ Operator(fs[i]) /\ fs[j].fn \in {"head", "tail"} =>
      /\ (\A m \in i + 1..j : fs[m].fn # "grouping") => fs[j].precedence >= Required(fs[i])
      /\ j = i + 1 => fs[j].precedence = Required(fs[i])
TopEnds(tokens, fs) ==
  LET f == fs[Len(fs)] IN Operator(f) => EndsOperandOf(tokens, f.token, Len(tokens))

InFrames(p, fs) == \E i \in 1..Len(fs) : Operator(fs[i]) /\ fs[i].token = p
Emitted(tokens, fs) == {e \in Evaluations(tokens) : ~InFrames(e.token, fs)}
NoneLost(tokens, fs) ==
  \A p \in 1..Len(tokens) - 1 :
    IsPrefixOp(tokens, p) \/ IsInfixOp(tokens, p) =>
      InFrames(p, fs) \/ \E e \in Evaluations(tokens) : e.token = p
InnermostFirst(tokens, fs) ==
  \A e \in Emitted(tokens, fs), i \in 1..Len(fs) :
    Operator(fs[i]) /\ e.after = Len(tokens) - 1 => e.token > fs[i].token
Statement(tokens, fs) ==
  /\ Len(fs) > 1 => (fs[2].operator = "PRINT" <=> EndsPrint(tokens, Len(tokens)))
  /\ Len(fs) = 1 => ~EndsPrint(tokens, Len(tokens))

FramesPlaced(tokens, fs) == Pending(tokens, fs) /\ TokensAscend(fs) /\ Tight(fs)

Performed(code, tokens, fs) ==
  /\ NoneLost(tokens, fs)
  /\ InnermostFirst(tokens, fs)
  /\ Performs(code, tokens, Emitted(tokens, fs))

Evaluating ==
  /\ parser.previous = Len(source) - 1
  /\ FramesPlaced(source, frames)
  /\ TopEnds(source, frames)
  /\ Statement(source, frames)
  /\ Performed(chunk.code, source, frames)
EvaluationInv ==
  /\ status = "running" /\ ~parser.hadError => Evaluating
  /\ EvaluatesInOrder

(* The left operand of an infix operator whose right operand is being      *)
(* compiled stays where it is, under all that is computed since.           *)
Waits(code, f) ==
  \E left \in 1..Len(code) :
    /\ code[left].pos < f.token
    /\ Leaves(code[left]) = f.height + 1
    /\ \A k \in left + 1..Len(code) :
         code[k].pos >= f.token /\ Leaves(code[k]) >= f.height + 2
LeftOperandsWait(code, fs) ==
  \A i \in 1..Len(fs) : fs[i].fn = "binary" => Waits(code, fs[i])
OperandsInv ==
  status = "running" /\ ~parser.hadError => LeftOperandsWait(chunk.code, frames)

Positions == [token : Nat, after : Nat]

LEMMA PrecedesOrders ==
  ASSUME NEW d \in Positions, NEW e \in Positions
  PROVE  /\ ~Precedes(e, e)
         /\ ~(Precedes(d, e) /\ Precedes(e, d))
BY DEF Precedes, Positions

(* One more evaluation after the others: it comes last and the others keep *)
(* their places.                                                           *)
LEMMA RankAdded ==
  ASSUME NEW E \in SUBSET Positions, IsFiniteSet(E), NEW e \in Positions,
         \A d \in E : Precedes(d, e)
  PROVE  LET F == E \cup {e} IN
         /\ IsFiniteSet(F) /\ Cardinality(E) \in Nat
         /\ Cardinality(F) = Cardinality(E) + 1
         /\ Rank(e, F) = Cardinality(E) + 1
         /\ \A d \in E : Rank(d, F) = Rank(d, E) /\ Rank(d, E) \in 1..Cardinality(E)
<1> DEFINE F == E \cup {e}
           before(d, G) == {b \in G : Precedes(b, d)}
<1>1. e \notin E
  BY PrecedesOrders
<1>2. IsFiniteSet(F) /\ Cardinality(F) = Cardinality(E) + 1 /\ Cardinality(E) \in Nat
  BY <1>1, FS_AddElement, FS_CardinalityType
<1>3. before(e, F) = E
  BY PrecedesOrders
<1>4. ASSUME NEW d \in E
      PROVE  before(d, F) = before(d, E) /\ Cardinality(before(d, E)) \in 0..Cardinality(E) - 1
  <2>1. ~Precedes(e, d)
    BY PrecedesOrders
  <2>2. before(d, F) = before(d, E)
    BY <2>1
  <2>3. d \notin before(d, E) /\ before(d, E) \subseteq E
    BY PrecedesOrders
  <2>4. before(d, E) \subseteq E \ {d} /\ IsFiniteSet(E \ {d})
        /\ Cardinality(E \ {d}) = Cardinality(E) - 1
    BY <2>3, FS_RemoveElement
  <2>5. Cardinality(before(d, E)) <= Cardinality(E \ {d}) /\ IsFiniteSet(before(d, E))
    BY <2>4, FS_Subset
  <2>6. Cardinality(before(d, E)) \in Nat
    BY <2>5, FS_CardinalityType
  <2> QED BY <1>2, <2>2, <2>4, <2>5, <2>6
<1>5. /\ Rank(e, F) = 1 + Cardinality(before(e, F))
      /\ \A d \in E : Rank(d, F) = 1 + Cardinality(before(d, F))
                      /\ Rank(d, E) = 1 + Cardinality(before(d, E))
  BY DEF Rank
<1> HIDE DEF before, F
<1>6. Rank(e, F) = Cardinality(E) + 1
  BY <1>2, <1>3, <1>5
<1>7. ASSUME NEW d \in E
      PROVE  Rank(d, F) = Rank(d, E) /\ Rank(d, E) \in 1..Cardinality(E)
  <2>1. /\ before(d, F) = before(d, E)
        /\ Cardinality(before(d, E)) \in 0..Cardinality(E) - 1
    BY <1>4
  <2> QED BY <1>2, <1>5, <2>1
<1> USE DEF F
<1> QED BY <1>2, <1>6, <1>7

(* What an instruction leaves.                                             *)
LEMMA LeavesFacts ==
  ASSUME NEW instruction \in Instructions
  PROVE  /\ instruction.height \in Int /\ Leaves(instruction) \in Int
         /\ instruction.op \in UnaryOps => Leaves(instruction) = instruction.height
         /\ instruction.op \in BinaryOps => Leaves(instruction) = instruction.height - 1
         /\ instruction.op \in ConstantOps \cup InvariableOps =>
              Leaves(instruction) = instruction.height + 1
         /\ instruction.op \in DiscardOps => Leaves(instruction) = instruction.height - 1
<1>1. instruction.height \in Int /\ instruction.op \in Opcodes
  BY DEF Instructions
<1> QED BY <1>1 DEF Leaves, Pops, Pushes, BinaryOps, UnaryOps, ConstantOps, InvariableOps,
                    DiscardOps

(* Instructions that follow do not change where the earlier ones find their*)
(* operands.                                                               *)
LEMMA FindsKept ==
  ASSUME NEW code \in Seq(Instructions), NEW more \in Seq(Instructions),
         \A i \in 1..Len(code) : more[i] = code[i],
         NEW i \in 1..Len(code), NEW tokens, NEW p, FindsOperands(code, i, tokens, p)
  PROVE  FindsOperands(more, i, tokens, p)
<1>1. more[i] = code[i]
  OBVIOUS
<1>2. ASSUME FindsLeftOperand(code, i, p) PROVE FindsLeftOperand(more, i, p)
  <2>1. PICK left \in 1..i - 1 :
          /\ code[left].pos < p
          /\ Leaves(code[left]) = code[i].height - 1
          /\ \A k \in left + 1..i - 1 :
               code[k].pos >= p /\ Leaves(code[k]) >= code[i].height
    BY <1>2 DEF FindsLeftOperand
  <2>2. left \in 1..Len(code) /\ \A k \in left + 1..i - 1 : k \in 1..Len(code)
    OBVIOUS
  <2>3. more[left] = code[left] /\ \A k \in left + 1..i - 1 : more[k] = code[k]
    BY <2>2
  <2> QED BY <1>1, <2>1, <2>3 DEF FindsLeftOperand
<1> QED BY <1>1, <1>2 DEF FindsOperands

(* An instruction that performs one more evaluation.                       *)
LEMMA PerformsMore ==
  ASSUME NEW E \in SUBSET Positions, IsFiniteSet(E), NEW e \in Positions,
         \A d \in E : Precedes(d, e),
         NEW code \in Seq(Instructions), NEW more \in Seq(Instructions), NEW tokens,
         Performs(code, tokens, E),
         Len(more) = Len(code) + 1, \A i \in 1..Len(code) : more[i] = code[i],
         more[Len(code) + 1].op \in Operations(tokens, e.token),
         more[Len(code) + 1].pos = e.after,
         FindsOperands(more, Len(code) + 1, tokens, e.token)
  PROVE  Performs(more, tokens, E \cup {e})
<1> DEFINE F == E \cup {e}
<1>1. /\ Cardinality(F) = Cardinality(E) + 1
      /\ Rank(e, F) = Cardinality(E) + 1
      /\ \A d \in E : Rank(d, F) = Rank(d, E) /\ Rank(d, E) \in 1..Cardinality(E)
  BY RankAdded
<1>2. Len(code) = Cardinality(E)
  BY DEF Performs
<1>3. ASSUME NEW d \in F
      PROVE  /\ more[Rank(d, F)].op \in Operations(tokens, d.token)
             /\ more[Rank(d, F)].pos = d.after
             /\ FindsOperands(more, Rank(d, F), tokens, d.token)
  <2>1. CASE d = e
    BY <1>1, <1>2, <2>1
  <2>2. CASE d \in E
    <3>1. more[Rank(d, F)] = code[Rank(d, E)]
      BY <1>1, <1>2, <2>2
    <3>2. /\ code[Rank(d, E)].op \in Operations(tokens, d.token)
          /\ code[Rank(d, E)].pos = d.after
          /\ FindsOperands(code, Rank(d, E), tokens, d.token)
      BY <2>2 DEF Performs
    <3>3. Rank(d, F) = Rank(d, E) /\ Rank(d, E) \in 1..Len(code)
      BY <1>1, <1>2, <2>2
    <3>4. FindsOperands(more, Rank(d, F), tokens, d.token)
      BY <3>2, <3>3, FindsKept
    <3> QED BY <3>1, <3>2, <3>4
  <2> QED BY <2>1, <2>2
<1>4. Len(more) = Cardinality(F)
  BY <1>1, <1>2
<1> HIDE DEF F
<1>5. Performs(more, tokens, F)
  BY <1>3, <1>4 DEF Performs
<1> QED BY <1>5 DEF F

-----------------------------------------------------------------------------
(* What is said of tokens before the last one stays true as scanning goes  *)
(* on.                                                                     *)
LEMMA OrderKept ==
  ASSUME NEW tokens, NEW longer, TokenSequence(tokens), TokenSequence(longer),
         Begins(tokens, longer), NEW p \in 1..Len(tokens)
  PROVE  /\ longer[p] = tokens[p] /\ OutlookOf(longer, p - 1) = OutlookOf(tokens, p - 1)
         /\ IsPrefixOp(longer, p) <=> IsPrefixOp(tokens, p)
         /\ IsInfixOp(longer, p) <=> IsInfixOp(tokens, p)
         /\ EndsPrint(longer, p) <=> EndsPrint(tokens, p)
         /\ Operations(longer, p) = Operations(tokens, p)
         /\ \A k \in 1..Len(tokens) :
              EndsOperandOf(longer, p, k) <=> EndsOperandOf(tokens, p, k)
         /\ \A last \in 1..Len(tokens) - 1 :
              EvaluatedAfter(longer, p, last) <=> EvaluatedAfter(tokens, p, last)
<1>1. Len(tokens) \in Nat
  BY DEF TokenSequence
<1>2. \A k \in 1..Len(tokens) :
        longer[k] = tokens[k] /\ OutlookOf(longer, k - 1) = OutlookOf(tokens, k - 1)
  <2>1. ASSUME NEW k \in 1..Len(tokens)
        PROVE  longer[k] = tokens[k] /\ OutlookOf(longer, k - 1) = OutlookOf(tokens, k - 1)
    <3>1. k - 1 \in 0..Len(tokens)
      BY <1>1
    <3>2. OutlookOf(longer, k - 1) = OutlookOf(tokens, k - 1)
      BY <3>1, OutlookKept
    <3> QED BY <3>2 DEF Begins
  <2> QED BY <2>1
<1>3. /\ IsPrefixOp(longer, p) <=> IsPrefixOp(tokens, p)
      /\ IsInfixOp(longer, p) <=> IsInfixOp(tokens, p)
  BY <1>2 DEF IsPrefixOp, IsInfixOp
<1>4. EndsPrint(longer, p) <=> EndsPrint(tokens, p)
  <2>1. \A k \in 1..p - 1 : longer[k] = tokens[k]
    BY <1>1, <1>2
  <2>2. \A q \in 1..p - 1 : \A k \in q..p - 1 : k \in 1..p - 1
    BY <1>1
  <2> QED BY <2>1, <2>2 DEF EndsPrint
<1>5. Operations(longer, p) = Operations(tokens, p)
  <2>1. longer[p] = tokens[p]
    BY <1>2
  <2> QED BY <1>3, <1>4, <2>1 DEF Operations
<1>6. ASSUME NEW k \in 1..Len(tokens)
      PROVE  EndsOperandOf(longer, p, k) <=> EndsOperandOf(tokens, p, k)
  BY <1>2, <1>3 DEF EndsOperandOf
<1>7. ASSUME NEW last \in 1..Len(tokens) - 1
      PROVE  EvaluatedAfter(longer, p, last) <=> EvaluatedAfter(tokens, p, last)
  <2>1. last + 1 \in 1..Len(tokens) /\ \A k \in p + 1..last : k \in 1..Len(tokens)
    BY <1>1
  <2>2. longer[p] = tokens[p]
    BY <1>2
  <2>3. EndsOperandOf(longer, p, last + 1) <=> EndsOperandOf(tokens, p, last + 1)
    BY <1>6, <2>1
  <2>4. \A k \in p + 1..last : EndsOperandOf(longer, p, k) <=> EndsOperandOf(tokens, p, k)
    BY <1>6, <2>1
  <2> QED BY <1>3, <2>2, <2>3, <2>4 DEF EvaluatedAfter
<1> QED BY <1>2, <1>3, <1>4, <1>5, <1>6, <1>7

(* Evaluations are of tokens, and end where tokens do.                     *)
LEMMA EvaluationsFacts ==
  ASSUME NEW tokens, TokenSequence(tokens), Len(tokens) > 0
  PROVE  /\ IsFiniteSet(Evaluations(tokens))
         /\ Evaluations(tokens) \subseteq Positions
         /\ \A p, last : [token |-> p, after |-> last] \in Evaluations(tokens)
              <=> /\ p \in 1..Len(tokens) - 1 /\ last \in 1..Len(tokens) - 1
                  /\ EvaluatedAfter(tokens, p, last)
         /\ \A e \in Evaluations(tokens) :
              /\ e = [token |-> e.token, after |-> e.after]
              /\ e.token \in 1..Len(tokens) - 1 /\ e.after \in 1..Len(tokens) - 1
              /\ EvaluatedAfter(tokens, e.token, e.after)
<1> DEFINE n == Len(tokens) - 1
           pairs == [token : 1..n, after : 1..n]
<1>1. n \in Nat
  BY DEF TokenSequence
<1> HIDE DEF n
<1>2. IsFiniteSet(pairs)
  <2> DEFINE product == (1..n) \X (1..n)
             pair == [q \in product |-> [token |-> q[1], after |-> q[2]]]
  <2>1. IsFiniteSet(1..n)
    BY <1>1, FS_Interval
  <2>2. IsFiniteSet(product)
    BY <2>1, FS_Product
  <2>3. pair \in [product -> pairs]
    OBVIOUS
  <2>4. \A e \in pairs : \E q \in product : pair[q] = e
    <3>1. ASSUME NEW e \in pairs PROVE \E q \in product : pair[q] = e
      <4>1. <<e.token, e.after>> \in product /\ pair[<<e.token, e.after>>] = e
        OBVIOUS
      <4> QED BY <4>1
    <3> QED BY <3>1
  <2> HIDE DEF pair, pairs, product
  <2>5. pair \in Surjection(product, pairs)
    BY <2>3, <2>4 DEF Surjection
  <2> QED BY <2>2, <2>5, FS_Surjection
<1>3. Evaluations(tokens) = {e \in pairs : EvaluatedAfter(tokens, e.token, e.after)}
  BY DEF Evaluations, n
<1>4. IsFiniteSet(Evaluations(tokens))
  BY <1>2, <1>3, FS_Subset
<1>5. pairs \subseteq Positions
  BY <1>1 DEF Positions
<1>6. \A p, last : [token |-> p, after |-> last] \in pairs <=> p \in 1..n /\ last \in 1..n
  OBVIOUS
<1>7. \A e \in pairs : e = [token |-> e.token, after |-> e.after]
                       /\ e.token \in 1..n /\ e.after \in 1..n
  OBVIOUS
<1> HIDE DEF pairs
<1>8. \A p, last : [token |-> p, after |-> last] \in Evaluations(tokens)
         <=> p \in 1..n /\ last \in 1..n /\ EvaluatedAfter(tokens, p, last)
  BY <1>3, <1>6
<1> QED BY <1>3, <1>4, <1>5, <1>7, <1>8 DEF n

(* The types of operators, of literals and of the ends of statements.      *)
Completes(type) == type \in LiteralTypes \cup {"SEMICOLON"}

LEMMA TypesApart ==
  \A tokens, p :
    IsPrefixOp(tokens, p) \/ IsInfixOp(tokens, p) => ~Completes(tokens[p].type)
<1>1. \A type : type \in InfixTypes \cup PrefixTypes => ~Completes(type)
  <2>1. \A type \in InfixTypes : ~Completes(type)
    <3>1. \A l \in 1..Len(Levels) : \A type \in Levels[l] : ~Completes(type)
      BY DEF Levels, Completes, LiteralTypes
    <3> QED BY <3>1 DEF InfixTypes
  <2> QED BY <2>1 DEF PrefixTypes, Completes, LiteralTypes
<1> QED BY <1>1 DEF IsPrefixOp, IsInfixOp

-----------------------------------------------------------------------------
(* The source one token longer.                                            *)
OneLonger(tokens, longer) ==
  /\ TokenSequence(tokens) /\ TokenSequence(longer) /\ Begins(tokens, longer)
  /\ Len(tokens) > 0 /\ Len(longer) = Len(tokens) + 1

OperatorAt(tokens, p) == IsPrefixOp(tokens, p) \/ IsInfixOp(tokens, p)

(* An operator that is passed is remembered in a frame, and no other.      *)
Remembers(tokens, fs, gs) ==
  \A p : InFrames(p, gs) <=>
           InFrames(p, fs) \/ (p = Len(tokens) /\ OperatorAt(tokens, Len(tokens)))

LEMMA LastNotInFrames ==
  ASSUME NEW tokens, TokenSequence(tokens), NEW fs, FramesPlaced(tokens, fs)
  PROVE  \A p : InFrames(p, fs) => p \in 1..Len(tokens) - 1 /\ p # Len(tokens)
<1>1. Len(tokens) \in Nat
  BY DEF TokenSequence
<1>2. \A i \in 1..Len(fs) : Operator(fs[i]) => fs[i].token \in 1..Len(tokens) - 1
  BY DEF FramesPlaced, Pending, PendingAt
<1> QED BY <1>1, <1>2 DEF InFrames

(* What is evaluated is, with one more token, what was evaluated and what  *)
(* the token completes.                                                    *)
LEMMA EvaluationsLonger ==
  ASSUME NEW tokens, NEW longer, OneLonger(tokens, longer)
  PROVE  LET c == Len(tokens) IN
         /\ Evaluations(tokens) \subseteq Evaluations(longer)
         /\ \A e \in Evaluations(longer) :
              \/ e \in Evaluations(tokens)
              \/ e.after = c /\ EvaluatedAfter(longer, e.token, c) /\ e.token \in 1..c
         /\ \A e \in Evaluations(tokens) : e.after < c
<1> DEFINE c == Len(tokens)
<1>1. /\ TokenSequence(tokens) /\ TokenSequence(longer) /\ Begins(tokens, longer)
      /\ c \in Nat /\ c > 0 /\ Len(longer) = c + 1 /\ Len(longer) - 1 = c /\ Len(longer) > 0
  BY DEF OneLonger, TokenSequence
<1>2. ASSUME NEW e \in Evaluations(tokens)
      PROVE  e \in Evaluations(longer) /\ e.after < c
  <2>1. /\ e = [token |-> e.token, after |-> e.after]
        /\ e.token \in 1..c - 1 /\ e.after \in 1..c - 1
        /\ EvaluatedAfter(tokens, e.token, e.after)
    BY <1>1, EvaluationsFacts
  <2>2. e.token \in 1..c /\ e.after \in 1..c /\ e.after < c
    BY <1>1, <2>1
  <2>3. EvaluatedAfter(longer, e.token, e.after)
    BY <1>1, <2>1, <2>2, OrderKept
  <2>4. [token |-> e.token, after |-> e.after] \in Evaluations(longer)
    BY <1>1, <2>2, <2>3, EvaluationsFacts
  <2> QED BY <2>1, <2>2, <2>4
<1>3. ASSUME NEW e \in Evaluations(longer), e \notin Evaluations(tokens)
      PROVE  e.after = c /\ EvaluatedAfter(longer, e.token, c) /\ e.token \in 1..c
  <2>1. /\ e = [token |-> e.token, after |-> e.after]
        /\ e.token \in 1..c /\ e.after \in 1..c
        /\ EvaluatedAfter(longer, e.token, e.after)
    BY <1>1, EvaluationsFacts
  <2>2. ASSUME e.after # c PROVE FALSE
    <3>1. e.after \in 1..c - 1
      BY <1>1, <2>1, <2>2
    <3>2. EvaluatedAfter(tokens, e.token, e.after)
      BY <1>1, <2>1, <3>1, OrderKept
    <3>3. e.token <= e.after
      BY <2>1, <3>2 DEF EvaluatedAfter
    <3>4. e.token \in 1..c - 1
      BY <1>1, <2>1, <3>1, <3>3
    <3>5. [token |-> e.token, after |-> e.after] \in Evaluations(tokens)
      BY <1>1, <3>1, <3>2, <3>4, EvaluationsFacts
    <3> QED BY <1>3, <2>1, <3>5
  <2> QED BY <2>1, <2>2
<1> QED BY <1>2, <1>3

(* Passing a token emits what it completes alone, and that comes last.     *)
LEMMA EmittedLonger ==
  ASSUME NEW tokens, NEW longer, OneLonger(tokens, longer), NEW fs, NEW gs,
         FramesPlaced(tokens, fs), NoneLost(tokens, fs), Remembers(tokens, fs, gs)
  PROVE  LET c == Len(tokens) IN
         /\ NoneLost(longer, gs)
         /\ Emitted(longer, gs)
              = IF Completes(tokens[c].type)
                THEN Emitted(tokens, fs) \cup {[token |-> c, after |-> c]}
                ELSE Emitted(tokens, fs)
<1> DEFINE c == Len(tokens)
           new == [token |-> c, after |-> c]
<1>1. /\ TokenSequence(tokens) /\ TokenSequence(longer) /\ Begins(tokens, longer)
      /\ c \in Nat /\ c > 0 /\ Len(longer) = c + 1 /\ Len(longer) - 1 = c /\ Len(longer) > 0
      /\ c \in 1..c
  BY DEF OneLonger, TokenSequence
<1>2. \A p : InFrames(p, gs) <=> InFrames(p, fs) \/ (p = c /\ OperatorAt(tokens, c))
  BY DEF Remembers
<1>3. \A p : InFrames(p, fs) => p \in 1..c - 1 /\ p # c
  BY <1>1, LastNotInFrames
<1>4. /\ Evaluations(tokens) \subseteq Evaluations(longer)
      /\ \A e \in Evaluations(longer) :
           \/ e \in Evaluations(tokens)
           \/ e.after = c /\ EvaluatedAfter(longer, e.token, c) /\ e.token \in 1..c
      /\ \A e \in Evaluations(tokens) : e.after < c
  BY EvaluationsLonger
<1>5. /\ \A e \in Evaluations(tokens) :
           /\ e.token \in 1..c - 1 /\ e.after \in 1..c - 1
           /\ EvaluatedAfter(tokens, e.token, e.after)
      /\ \A e \in Evaluations(longer) : e = [token |-> e.token, after |-> e.after]
  BY <1>1, EvaluationsFacts
<1>6. \A p \in 1..c : /\ longer[p] = tokens[p]
                      /\ (OperatorAt(longer, p) <=> OperatorAt(tokens, p))
                      /\ \A k \in 1..c : EndsOperandOf(longer, p, k) <=> EndsOperandOf(tokens, p, k)
  BY <1>1, OrderKept DEF OperatorAt
<1>7. \A p : OperatorAt(tokens, p) => ~Completes(tokens[p].type)
  BY TypesApart DEF OperatorAt
<1>8. NoneLost(longer, gs)
  <2>1. ASSUME NEW p \in 1..c, OperatorAt(longer, p)
        PROVE  InFrames(p, gs) \/ \E e \in Evaluations(longer) : e.token = p
    <3>1. CASE p = c
      BY <1>2, <1>6, <2>1, <3>1
    <3>2. CASE p # c
      <4>3. p \in 1..c - 1
        <5>1. c \in Nat /\ p \in 1..c /\ p # c
          BY <1>1, <3>2
        <5> HIDE DEF c
        <5> QED BY <5>1
      <4>4. OperatorAt(tokens, p)
        BY <1>6, <2>1
      <4>1. p \in 1..c - 1 /\ OperatorAt(tokens, p)
        BY <4>3, <4>4
      <4>2. InFrames(p, fs) \/ \E e \in Evaluations(tokens) : e.token = p
        BY <4>1 DEF NoneLost, OperatorAt
      <4> QED BY <1>2, <1>4, <4>2
    <3> QED BY <3>1, <3>2
  <2> QED BY <1>1, <2>1 DEF NoneLost, OperatorAt
<1>9. ASSUME NEW e \in Emitted(tokens, fs)
      PROVE  e \in Emitted(longer, gs)
  <2>1. e \in Evaluations(tokens) /\ ~InFrames(e.token, fs)
    BY DEF Emitted
  <2>2. e.token # c
    BY <1>1, <1>5, <2>1
  <2> QED BY <1>2, <1>4, <2>1, <2>2 DEF Emitted
<1>10. ASSUME NEW e \in Emitted(longer, gs)
       PROVE  e \in Emitted(tokens, fs) \/ (e = new /\ Completes(tokens[c].type))
  <2>1. e \in Evaluations(longer) /\ ~InFrames(e.token, gs) /\ ~InFrames(e.token, fs)
    BY <1>2 DEF Emitted
  <2>2. CASE e \in Evaluations(tokens)
    BY <2>1, <2>2 DEF Emitted
  <2>3. CASE e.after = c /\ EvaluatedAfter(longer, e.token, c) /\ e.token \in 1..c
    <3>1. CASE OperatorAt(longer, e.token)
      <4>1. OperatorAt(tokens, e.token) /\ ~Completes(longer[e.token].type)
        BY <1>6, <1>7, <2>3, <3>1
      <4>2. \A k \in e.token + 1..c : ~EndsOperandOf(longer, e.token, k)
        BY <2>3, <4>1 DEF EvaluatedAfter, Completes
      <4>3. e.token # c
        BY <1>2, <2>1, <4>1
      <4>4. e.token \in 1..c - 1
        BY <1>1, <2>3, <4>3
      <4>5. PICK d \in Evaluations(tokens) : d.token = e.token
        BY <2>1, <4>1, <4>4 DEF NoneLost, OperatorAt
      <4>6. EvaluatedAfter(tokens, e.token, d.after) /\ d.after \in 1..c - 1
        BY <1>5, <4>5
      <4>7. ~Completes(tokens[e.token].type)
        BY <1>7, <4>1
      <4>8. EndsOperandOf(tokens, e.token, d.after + 1) /\ d.after >= e.token
        BY <4>6, <4>7 DEF EvaluatedAfter, Completes
      <4>9. d.after + 1 \in e.token + 1..c /\ d.after + 1 \in 1..c
        BY <1>1, <4>4, <4>6, <4>8
      <4>10. EndsOperandOf(longer, e.token, d.after + 1)
        BY <1>6, <2>3, <4>8, <4>9
      <4> QED BY <4>2, <4>9, <4>10
    <3>2. CASE ~OperatorAt(longer, e.token)
      <4>1. c = e.token /\ Completes(longer[e.token].type)
        BY <2>3, <3>2 DEF EvaluatedAfter, OperatorAt, Completes
      <4>2. e = new
        BY <1>5, <2>1, <2>3, <4>1
      <4> QED BY <1>1, <1>6, <4>1, <4>2
    <3> QED BY <3>1, <3>2
  <2> QED BY <1>4, <2>1, <2>2, <2>3
<1>11. ASSUME Completes(tokens[c].type) PROVE new \in Emitted(longer, gs)
  <2>1. longer[c].type \in LiteralTypes \cup {"SEMICOLON"}
    BY <1>1, <1>6, <1>11 DEF Completes
  <2>2. EvaluatedAfter(longer, c, c)
    BY <2>1 DEF EvaluatedAfter
  <2>3. new \in Evaluations(longer)
    BY <1>1, <2>2, EvaluationsFacts
  <2>4. ~InFrames(c, gs)
    BY <1>2, <1>3, <1>7, <1>11
  <2> QED BY <2>3, <2>4 DEF Emitted
<1> HIDE DEF c, new
<1>12. Emitted(longer, gs) = IF Completes(tokens[c].type) THEN Emitted(tokens, fs) \cup {new}
                             ELSE Emitted(tokens, fs)
  BY <1>9, <1>10, <1>11
<1> QED BY <1>8, <1>12 DEF c, new

-----------------------------------------------------------------------------
(* What was performed is performed whatever is scanned next.               *)
LEMMA PerformsKept ==
  ASSUME NEW tokens, NEW longer, OneLonger(tokens, longer),
         NEW E \in SUBSET Evaluations(tokens), NEW code, Performs(code, tokens, E)
  PROVE  Performs(code, longer, E)
<1>1. /\ TokenSequence(tokens) /\ TokenSequence(longer) /\ Begins(tokens, longer)
      /\ Len(tokens) \in Nat /\ Len(tokens) > 0
  BY DEF OneLonger, TokenSequence
<1>2. ASSUME NEW e \in E
      PROVE  /\ Operations(longer, e.token) = Operations(tokens, e.token)
             /\ IsInfixOp(longer, e.token) <=> IsInfixOp(tokens, e.token)
  <2>1. e.token \in 1..Len(tokens) - 1
    BY <1>1, EvaluationsFacts
  <2>2. e.token \in 1..Len(tokens)
    BY <1>1, <2>1
  <2> QED BY <1>1, <2>2, OrderKept
<1> QED BY <1>2 DEF Performs, FindsOperands

LEMMA EmittedFacts ==
  ASSUME NEW tokens, TokenSequence(tokens), Len(tokens) > 0, NEW fs
  PROVE  /\ Emitted(tokens, fs) \subseteq Evaluations(tokens)
         /\ Emitted(tokens, fs) \subseteq Positions
         /\ IsFiniteSet(Emitted(tokens, fs))
<1>1. Emitted(tokens, fs) \subseteq Evaluations(tokens)
  BY DEF Emitted
<1> QED BY <1>1, EvaluationsFacts, FS_Subset

(* Passing a token and emitting what it completes, if it does.             *)
LEMMA TokenPassed ==
  ASSUME NEW tokens, NEW longer, OneLonger(tokens, longer), NEW fs, NEW gs,
         FramesPlaced(tokens, fs), NoneLost(tokens, fs), Remembers(tokens, fs, gs),
         NEW code \in Seq(Instructions), NEW more \in Seq(Instructions),
         Performs(code, tokens, Emitted(tokens, fs)),
         IF Completes(tokens[Len(tokens)].type)
         THEN /\ Len(more) = Len(code) + 1
              /\ \A i \in 1..Len(code) : more[i] = code[i]
              /\ more[Len(code) + 1].op \in Operations(tokens, Len(tokens))
              /\ more[Len(code) + 1].pos = Len(tokens)
              /\ more[Len(code) + 1].op \in DiscardOps => Leaves(more[Len(code) + 1]) = 0
         ELSE more = code
  PROVE  /\ NoneLost(longer, gs)
         /\ InnermostFirst(longer, gs)
         /\ Performs(more, longer, Emitted(longer, gs))
<1> DEFINE c == Len(tokens)
           new == [token |-> c, after |-> c]
           E == Emitted(tokens, fs)
<1>1. /\ TokenSequence(tokens) /\ TokenSequence(longer) /\ Begins(tokens, longer)
      /\ c \in Nat /\ c > 0 /\ Len(longer) - 1 = c /\ c \in 1..c
  BY DEF OneLonger, TokenSequence
<1>2. /\ NoneLost(longer, gs)
      /\ Emitted(longer, gs) = IF Completes(tokens[c].type) THEN E \cup {new} ELSE E
  BY EmittedLonger
<1>3. E \in SUBSET Evaluations(tokens) /\ E \in SUBSET Positions /\ IsFiniteSet(E)
  BY <1>1, EmittedFacts
<1>4. \A d \in E : d.after < c
  BY <1>3, EvaluationsLonger
<1>5. Performs(code, longer, E)
  BY <1>3, PerformsKept
<1>6. Performs(more, longer, Emitted(longer, gs))
  <2>1. CASE Completes(tokens[c].type)
    <3>1. new \in Positions /\ new.token = c /\ new.after = c
      BY <1>1 DEF Positions
    <3>2. \A d \in E : Precedes(d, new)
      BY <1>4, <3>1 DEF Precedes
    <3>3. Operations(longer, c) = Operations(tokens, c)
      BY <1>1, OrderKept
    <3>4. /\ Len(more) = Len(code) + 1
          /\ \A i \in 1..Len(code) : more[i] = code[i]
          /\ more[Len(code) + 1].op \in Operations(longer, new.token)
          /\ more[Len(code) + 1].pos = new.after
          /\ more[Len(code) + 1].op \in DiscardOps => Leaves(more[Len(code) + 1]) = 0
      BY <2>1, <3>1, <3>3
    <3>5. ~IsInfixOp(longer, new.token)
      <4>1. longer[c] = tokens[c]
        BY <1>1 DEF Begins
      <4> QED BY <2>1, <3>1, <4>1, TypesApart
    <3>6. FindsOperands(more, Len(code) + 1, longer, new.token)
      BY <3>4, <3>5 DEF FindsOperands
    <3> HIDE DEF E, new
    <3>7. Performs(more, longer, E \cup {new})
      BY <1>3, <1>5, <3>1, <3>2, <3>4, <3>6, PerformsMore
    <3> QED BY <1>2, <2>1, <3>7
  <2>2. CASE ~Completes(tokens[c].type)
    BY <1>2, <1>5, <2>2
  <2> QED BY <2>1, <2>2
<1>7. InnermostFirst(longer, gs)
  <2>1. SUFFICES ASSUME NEW e \in Emitted(longer, gs), NEW i \in 1..Len(gs),
                        Operator(gs[i]), e.after = c
                 PROVE  e.token > gs[i].token
    BY <1>1 DEF InnermostFirst
  <2>2. e = new /\ Completes(tokens[c].type)
    BY <1>2, <1>4, <2>1
  <2>3. InFrames(gs[i].token, gs)
    BY <2>1 DEF InFrames
  <2>4. ~OperatorAt(tokens, c)
    BY <2>2, TypesApart DEF OperatorAt
  <2>5. InFrames(gs[i].token, fs)
    BY <2>3, <2>4 DEF Remembers
  <2>6. gs[i].token \in 1..c - 1
    BY <1>1, <2>5, LastNotInFrames
  <2>7. e.token = c
    BY <2>2
  <2> QED BY <1>1, <2>6, <2>7
<1> QED BY <1>2, <1>6, <1>7

LEMMA CallersAgree ==
  ASSUME NEW fs \in Seq(FrameSet), fs # <<>>
  PROVE  LET rest == SubSeq(fs, 1, Len(fs) - 1) IN
         /\ rest \in Seq(FrameSet) /\ Len(rest) = Len(fs) - 1 /\ Len(fs) \in Nat /\ Len(fs) > 0
         /\ \A i \in 1..Len(fs) - 1 : rest[i] = fs[i]
<1> DEFINE f == fs[Len(fs)]
           rest == SubSeq(fs, 1, Len(fs) - 1)
<1>1. rest \in Seq(FrameSet) /\ f \in FrameSet /\ fs = Append(rest, f)
  BY FramePopped
<1> HIDE DEF f, rest
<1>2. /\ Len(Append(rest, f)) = Len(rest) + 1 /\ Len(rest) \in Nat
      /\ \A i \in 1..Len(rest) : Append(rest, f)[i] = rest[i]
  BY <1>1
<1>3. Len(rest) = Len(fs) - 1 /\ Len(fs) \in Nat /\ Len(fs) > 0
  BY <1>1, <1>2
<1>4. \A i \in 1..Len(rest) : fs[i] = rest[i]
  BY <1>1, <1>2
<1> QED BY <1>1, <1>3, <1>4 DEF rest

(* The operator on top is performed: its operand ends before the current   *)
(* token, that of no other frame is its own, and what is emitted already   *)
(* comes before.                                                           *)
LEMMA OperatorPassed ==
  ASSUME NEW tokens, TokenSequence(tokens), Len(tokens) > 0,
         NEW fs \in Seq(FrameSet), fs # <<>>, Operator(fs[Len(fs)]),
         FramesPlaced(tokens, fs), TopEnds(tokens, fs),
         NoneLost(tokens, fs), InnermostFirst(tokens, fs),
         NEW rest, rest = SubSeq(fs, 1, Len(fs) - 1),
         NEW code \in Seq(Instructions), NEW more \in Seq(Instructions),
         Performs(code, tokens, Emitted(tokens, fs)),
         Len(more) = Len(code) + 1,
         \A i \in 1..Len(code) : more[i] = code[i],
         more[Len(code) + 1].op \in Operations(tokens, fs[Len(fs)].token),
         more[Len(code) + 1].pos = Len(tokens) - 1,
         FindsOperands(more, Len(code) + 1, tokens, fs[Len(fs)].token)
  PROVE  /\ NoneLost(tokens, rest)
         /\ InnermostFirst(tokens, rest)
         /\ Performs(more, tokens, Emitted(tokens, rest))
<1> DEFINE n == Len(fs)
           c == Len(tokens)
           t == fs[n].token
           new == [token |-> t, after |-> c - 1]
           E == Emitted(tokens, fs)
<1>1. n \in Nat /\ n > 0 /\ n \in 1..n /\ c \in Nat /\ c > 0
  BY DEF TokenSequence
<1>2. /\ Len(rest) = n - 1 /\ \A i \in 1..n - 1 : rest[i] = fs[i]
  BY CallersAgree
<1>3. /\ t \in 1..c - 1 /\ OperatorAt(tokens, t)
      /\ \A k \in t + 1..c - 1 : ~EndsOperandOf(tokens, t, k)
  BY <1>1 DEF FramesPlaced, Pending, PendingAt, OperatorAt
<1>4. EndsOperandOf(tokens, t, c)
  BY DEF TopEnds
<1>5. \A i \in 1..n - 1 : Operator(fs[i]) => fs[i].token < t
  <2>1. \A i \in 1..n - 1 : i \in 1..n /\ i < n
    BY <1>1
  <2> QED BY <1>1, <2>1 DEF FramesPlaced, TokensAscend
<1>6. \A i \in 1..n - 1 : Operator(fs[i]) => fs[i].token \in 1..c - 1
  <2>1. \A i \in 1..n - 1 : i \in 1..n
    BY <1>1
  <2> QED BY <2>1 DEF FramesPlaced, Pending, PendingAt
<1>7. ~InFrames(t, rest)
  <2>1. SUFFICES ASSUME NEW i \in 1..n - 1, Operator(fs[i]), fs[i].token = t PROVE FALSE
    BY <1>2 DEF InFrames
  <2>2. fs[i].token < t
    BY <1>5, <2>1
  <2> QED BY <1>3, <2>1, <2>2
<1>8. \A p : InFrames(p, fs) <=> InFrames(p, rest) \/ p = t
  <2>1. \A i \in 1..n : i \in 1..n - 1 \/ i = n
    BY <1>1
  <2>2. \A i \in 1..n - 1 : i \in 1..n
    BY <1>1
  <2> QED BY <1>1, <1>2, <2>1, <2>2 DEF InFrames
<1>9. t <= c - 1 /\ EvaluatedAfter(tokens, t, c - 1) /\ ~Completes(tokens[t].type)
  <2>1. (c - 1) + 1 = c /\ c - 1 >= t
    BY <1>1, <1>3
  <2>2. ~Completes(tokens[t].type)
    BY <1>3, TypesApart DEF OperatorAt
  <2> QED BY <1>1, <1>3, <1>4, <2>1, <2>2 DEF EvaluatedAfter, OperatorAt
<1>10. new \in Evaluations(tokens) /\ new.token = t /\ new.after = c - 1
  <2>1. t \in 1..c - 1 /\ c - 1 \in 1..c - 1
    BY <1>1, <1>3
  <2> QED BY <1>9, <2>1, EvaluationsFacts
<1>11. ASSUME NEW e \in Evaluations(tokens), e.token = t PROVE e = new
  <2>1. /\ e = [token |-> e.token, after |-> e.after]
        /\ e.after \in 1..c - 1 /\ EvaluatedAfter(tokens, t, e.after)
    BY <1>11, EvaluationsFacts
  <2>2. e.after >= t /\ EndsOperandOf(tokens, t, e.after + 1)
    BY <1>9, <2>1 DEF EvaluatedAfter, Completes
  <2>3. e.after = c - 1
    <3>1. e.after # c - 1 => e.after + 1 \in t + 1..c - 1
      BY <1>1, <1>3, <2>1, <2>2
    <3> QED BY <1>3, <2>2, <3>1
  <2> QED BY <1>11, <2>1, <2>3
<1> HIDE DEF new
<1>12. Emitted(tokens, rest) = E \cup {new}
  BY <1>7, <1>8, <1>10, <1>11 DEF Emitted
<1>13. E \in SUBSET Evaluations(tokens) /\ E \in SUBSET Positions /\ IsFiniteSet(E)
  BY EmittedFacts
<1>14. ASSUME NEW d \in E PROVE Precedes(d, new)
  <2>1. d.after \in 1..c - 1 /\ d.token \in 1..c - 1
    BY <1>13, EvaluationsFacts
  <2>2. d.after = c - 1 => d.token > t
    BY <1>1 DEF InnermostFirst
  <2>3. d.after < c - 1 \/ d.after = c - 1
    BY <1>1, <2>1
  <2> QED BY <1>10, <2>2, <2>3 DEF Precedes
<1>15. Performs(more, tokens, Emitted(tokens, rest))
  <2>1. new \in Positions
    BY <1>10, EvaluationsFacts
  <2>2. /\ more[Len(code) + 1].op \in Operations(tokens, new.token)
        /\ more[Len(code) + 1].pos = new.after
        /\ FindsOperands(more, Len(code) + 1, tokens, new.token)
    BY <1>10
  <2> HIDE DEF E
  <2>3. Performs(code, tokens, E)
    BY DEF E
  <2>4. Performs(more, tokens, E \cup {new})
    BY <1>13, <1>14, <2>1, <2>2, <2>3, PerformsMore
  <2> QED BY <1>12, <2>4
<1>16. InnermostFirst(tokens, rest)
  <2>1. SUFFICES ASSUME NEW e \in Emitted(tokens, rest), NEW i \in 1..n - 1,
                        Operator(fs[i]), e.after = c - 1
                 PROVE  e.token > fs[i].token
    BY <1>2 DEF InnermostFirst
  <2>2. CASE e \in E
    <3>1. i \in 1..n
      BY <1>1
    <3> QED BY <2>1, <2>2, <3>1 DEF InnermostFirst
  <2>3. CASE e = new
    <3>1. e.token = t /\ fs[i].token < t
      BY <1>5, <1>10, <2>1, <2>3
    <3> QED BY <1>3, <1>6, <2>1, <3>1
  <2> QED BY <1>12, <2>2, <2>3
<1>17. NoneLost(tokens, rest)
  BY <1>8, <1>10 DEF NoneLost
<1> QED BY <1>15, <1>16, <1>17

-----------------------------------------------------------------------------
(* Parentheses open at a frame.                                            *)
LEMMA DepthFacts ==
  ASSUME NEW fs \in Seq(FrameSet)
  PROVE  /\ Depth(fs, Len(fs)) = OpenParens(fs)
         /\ \A i \in 1..Len(fs) : Depth(fs, i) \in Nat /\ Depth(fs, i) <= OpenParens(fs)
         /\ \A i \in 1..Len(fs) : Depth(fs, i) = OpenParens(fs) <=>
              \A m \in i + 1..Len(fs) : fs[m].fn # "grouping"
<1> DEFINE n == Len(fs)
           upTo(i) == {j \in 1..i : fs[j].fn = "grouping"}
<1>1. n \in Nat /\ IsFiniteSet(1..n)
  BY FS_Interval
<1>2. /\ Groupings(fs) \subseteq 1..n /\ IsFiniteSet(Groupings(fs))
      /\ OpenParens(fs) \in Nat
  <2>1. Groupings(fs) \subseteq 1..n
    BY DEF Groupings
  <2>2. IsFiniteSet(Groupings(fs))
    BY <1>1, <2>1, FS_Subset
  <2> QED BY <2>1, <2>2, FS_CardinalityType DEF OpenParens
<1>3. \A i \in 1..n : upTo(i) \subseteq Groupings(fs)
  BY <1>1 DEF Groupings
<1>4. \A i : Depth(fs, i) = Cardinality(upTo(i))
  BY DEF Depth
<1>5. upTo(n) = Groupings(fs)
  BY DEF Groupings
<1>6. \A i \in 1..n, m \in Groupings(fs) : m \in upTo(i) <=> m <= i
  BY <1>1 DEF Groupings
<1>7. \A m : m \in Groupings(fs) <=> m \in 1..n /\ fs[m].fn = "grouping"
  BY DEF Groupings
<1> HIDE DEF upTo
<1>8. ASSUME NEW i \in 1..n
      PROVE  /\ Depth(fs, i) \in Nat /\ Depth(fs, i) <= OpenParens(fs)
             /\ Depth(fs, i) = OpenParens(fs) <=> upTo(i) = Groupings(fs)
  <2>1. IsFiniteSet(upTo(i)) /\ Cardinality(upTo(i)) <= Cardinality(Groupings(fs))
        /\ (Cardinality(upTo(i)) = Cardinality(Groupings(fs)) => upTo(i) = Groupings(fs))
    BY <1>2, <1>3, FS_Subset
  <2>2. Cardinality(upTo(i)) \in Nat
    BY <2>1, FS_CardinalityType
  <2> QED BY <1>4, <2>1, <2>2 DEF OpenParens
<1>9. ASSUME NEW i \in 1..n
      PROVE  upTo(i) = Groupings(fs) <=> \A m \in i + 1..n : fs[m].fn # "grouping"
  <2>1. ASSUME upTo(i) = Groupings(fs), NEW m \in i + 1..n, fs[m].fn = "grouping" PROVE FALSE
    <3>1. m \in 1..n /\ ~(m <= i)
      BY <1>1
    <3>2. m \in Groupings(fs)
      BY <1>7, <2>1, <3>1
    <3> QED BY <1>6, <2>1, <3>1, <3>2
  <2>2. ASSUME \A m \in i + 1..n : fs[m].fn # "grouping", NEW m \in Groupings(fs)
        PROVE  m \in upTo(i)
    <3>1. m \in 1..n /\ fs[m].fn = "grouping"
      BY <1>7
    <3>2. m <= i \/ m \in i + 1..n
      BY <1>1, <3>1
    <3> QED BY <1>6, <2>2, <3>1, <3>2
  <2> QED BY <1>3, <2>1, <2>2
<1>10. Depth(fs, n) = OpenParens(fs)
  BY <1>4, <1>5 DEF OpenParens
<1> QED BY <1>8, <1>9, <1>10

(* Frames that agree up to the i-th have the same depth there.             *)
LEMMA DepthAgrees ==
  ASSUME NEW fs, NEW gs, NEW i \in Nat, \A j \in 1..i : fs[j] = gs[j]
  PROVE  Depth(fs, i) = Depth(gs, i)
BY DEF Depth

-----------------------------------------------------------------------------
(* Frames return and are called.                                           *)

(* A precedence that the operators in the same parentheses ask for.        *)
Asks(fs, precedence) ==
  \A i \in 1..Len(fs) : Operator(fs[i]) =>
    /\ (\A m \in i + 1..Len(fs) : fs[m].fn # "grouping") => precedence >= Required(fs[i])
    /\ i = Len(fs) => precedence = Required(fs[i])

LEMMA PlacedPopped ==
  ASSUME NEW tokens, NEW fs \in Seq(FrameSet), fs # <<>>, FramesPlaced(tokens, fs)
  PROVE  LET rest == SubSeq(fs, 1, Len(fs) - 1) IN
         /\ FramesPlaced(tokens, rest)
         /\ fs[Len(fs)].fn \in {"head", "tail"} => Asks(rest, fs[Len(fs)].precedence)
<1> DEFINE rest == SubSeq(fs, 1, Len(fs) - 1)
           n == Len(fs)
<1>1. /\ rest \in Seq(FrameSet) /\ Len(rest) = n - 1 /\ n \in Nat /\ n > 0
      /\ \A i \in 1..n - 1 : rest[i] = fs[i]
  BY CallersAgree
<1> HIDE DEF rest
<1>2. \A i \in 1..n - 1 : i \in 1..n /\ i < n /\ n \in 1..n
  BY <1>1
<1>3. Pending(tokens, rest)
  <2>1. SUFFICES ASSUME NEW i \in 1..n - 1, Operator(fs[i])
                 PROVE  PendingAt(tokens, fs[i], Depth(rest, i))
    BY <1>1 DEF Pending
  <2>2. i \in Nat /\ \A j \in 1..i : j \in 1..n - 1
    BY <1>1
  <2>3. \A j \in 1..i : rest[j] = fs[j]
    BY <1>1, <2>2
  <2>4. Depth(rest, i) = Depth(fs, i)
    BY <2>2, <2>3, DepthAgrees
  <2> QED BY <1>2, <2>1, <2>4 DEF FramesPlaced, Pending
<1>4. TokensAscend(rest)
  BY <1>1, <1>2 DEF FramesPlaced, TokensAscend
<1>5. Tight(rest)
  <2>1. SUFFICES ASSUME NEW i \in 1..n - 1, NEW j \in 1..n - 1, i < j, Operator(fs[i]),
                        fs[j].fn \in {"head", "tail"}
                 PROVE  /\ (\A m \in i + 1..j : rest[m].fn # "grouping") =>
                             fs[j].precedence >= Required(fs[i])
                        /\ j = i + 1 => fs[j].precedence = Required(fs[i])
    BY <1>1 DEF Tight
  <2>2. \A m \in i + 1..j : m \in 1..n - 1
    BY <1>1
  <2>3. (\A m \in i + 1..j : rest[m].fn # "grouping") => \A m \in i + 1..j : fs[m].fn # "grouping"
    BY <1>1, <2>2
  <2>4. /\ (\A m \in i + 1..j : fs[m].fn # "grouping") =>
              fs[j].precedence >= Required(fs[i])
        /\ j = i + 1 => fs[j].precedence = Required(fs[i])
    BY <1>2, <2>1 DEF FramesPlaced, Tight
  <2> QED BY <2>3, <2>4
<1>6. ASSUME fs[n].fn \in {"head", "tail"} PROVE Asks(rest, fs[n].precedence)
  <2>1. SUFFICES ASSUME NEW i \in 1..n - 1, Operator(fs[i])
                 PROVE  /\ (\A m \in i + 1..n - 1 : rest[m].fn # "grouping") =>
                             fs[n].precedence >= Required(fs[i])
                        /\ i = n - 1 => fs[n].precedence = Required(fs[i])
    BY <1>1 DEF Asks
  <2>2. \A m \in i + 1..n : (m \in 1..n - 1 /\ m \in i + 1..n - 1) \/ m = n
    <3>1. i \in 1..n - 1 /\ n \in Nat
      BY <1>1
    <3> HIDE DEF n
    <3> QED BY <3>1
  <2>3. (\A m \in i + 1..n - 1 : rest[m].fn # "grouping") => \A m \in i + 1..n : fs[m].fn # "grouping"
    BY <1>1, <1>6, <2>2
  <2>4. /\ (\A m \in i + 1..n : fs[m].fn # "grouping") =>
              fs[n].precedence >= Required(fs[i])
        /\ n = i + 1 => fs[n].precedence = Required(fs[i])
    BY <1>2, <1>6, <2>1 DEF FramesPlaced, Tight
  <2>5. i = n - 1 => n = i + 1
    BY <1>1
  <2> QED BY <2>3, <2>4, <2>5
<1> QED BY <1>3, <1>4, <1>5, <1>6 DEF rest, FramesPlaced

LEMMA PlacedPushed ==
  ASSUME NEW tokens, NEW fs \in Seq(FrameSet), NEW f \in FrameSet, FramesPlaced(tokens, fs),
         Operator(f) =>
           /\ PendingAt(tokens, f, OpenParens(fs))
           /\ \A i \in 1..Len(fs) : Operator(fs[i]) => fs[i].token < f.token,
         f.fn \in {"head", "tail"} => Asks(fs, f.precedence)
  PROVE  FramesPlaced(tokens, Append(fs, f))
<1> DEFINE gs == Append(fs, f)
           n == Len(fs)
<1>1. /\ gs \in Seq(FrameSet) /\ Len(gs) = n + 1 /\ gs[n + 1] = f /\ n \in Nat
      /\ \A i \in 1..n : gs[i] = fs[i]
  OBVIOUS
<1>2. OpenParens(gs) = IF f.fn = "grouping" THEN OpenParens(fs) + 1 ELSE OpenParens(fs)
  BY FramePushed
<1> HIDE DEF gs
<1>3. \A i \in 1..n + 1 : i \in 1..n \/ i = n + 1
  BY <1>1
<1>4. Pending(tokens, gs)
  <2>1. SUFFICES ASSUME NEW i \in 1..n + 1, Operator(gs[i])
                 PROVE  PendingAt(tokens, gs[i], Depth(gs, i))
    BY <1>1 DEF Pending
  <2>2. CASE i \in 1..n
    <3>1. i \in Nat /\ \A j \in 1..i : j \in 1..n
      BY <1>1, <2>2
    <3>2. \A j \in 1..i : gs[j] = fs[j]
      BY <1>1, <3>1
    <3>3. Depth(gs, i) = Depth(fs, i)
      BY <3>1, <3>2, DepthAgrees
    <3>4. Operator(fs[i]) /\ gs[i] = fs[i]
      BY <1>1, <2>1, <2>2
    <3> QED BY <2>2, <3>3, <3>4 DEF FramesPlaced, Pending
  <2>3. CASE i = n + 1
    <3>1. Operator(f) /\ gs[i] = f
      BY <1>1, <2>1, <2>3
    <3>2. f.fn # "grouping"
      BY <3>1 DEF Operator
    <3>3. Depth(gs, i) = OpenParens(fs)
      BY <1>1, <1>2, <2>3, <3>2, DepthFacts
    <3> QED BY <3>1, <3>3
  <2> QED BY <1>3, <2>2, <2>3
<1>5. TokensAscend(gs)
  <2>1. SUFFICES ASSUME NEW i \in 1..n + 1, NEW j \in 1..n + 1, i < j,
                        Operator(gs[i]), Operator(gs[j])
                 PROVE  gs[i].token < gs[j].token
    BY <1>1 DEF TokensAscend
  <2>2. i \in 1..n
    BY <1>1, <2>1
  <2>3. CASE j \in 1..n
    BY <1>1, <2>1, <2>2, <2>3 DEF FramesPlaced, TokensAscend
  <2>4. CASE j = n + 1
    BY <1>1, <2>1, <2>2, <2>4
  <2> QED BY <1>3, <2>3, <2>4
<1>6. Tight(gs)
  <2>1. SUFFICES ASSUME NEW i \in 1..n + 1, NEW j \in 1..n + 1, i < j, Operator(gs[i]),
                        gs[j].fn \in {"head", "tail"}
                 PROVE  /\ (\A m \in i + 1..j : gs[m].fn # "grouping") =>
                             gs[j].precedence >= Required(gs[i])
                        /\ j = i + 1 => gs[j].precedence = Required(gs[i])
    BY <1>1 DEF Tight
  <2>2. i \in 1..n /\ gs[i] = fs[i] /\ Operator(fs[i])
    BY <1>1, <2>1
  <2>3. CASE j \in 1..n
    <3>1. \A m \in i + 1..j : m \in 1..n
      BY <1>1, <2>3
    <3>2. (\A m \in i + 1..j : gs[m].fn # "grouping") => \A m \in i + 1..j : fs[m].fn # "grouping"
      BY <1>1, <3>1
    <3>3. gs[j] = fs[j]
      BY <1>1, <2>3
    <3>4. /\ (\A m \in i + 1..j : fs[m].fn # "grouping") =>
                fs[j].precedence >= Required(fs[i])
          /\ j = i + 1 => fs[j].precedence = Required(fs[i])
      BY <2>1, <2>2, <2>3, <3>3 DEF FramesPlaced, Tight
    <3> QED BY <2>2, <3>2, <3>3, <3>4
  <2>4. CASE j = n + 1
    <3>1. \A m \in i + 1..n : m \in 1..n /\ m \in i + 1..j
      BY <1>1, <2>4
    <3>2. (\A m \in i + 1..j : gs[m].fn # "grouping") => \A m \in i + 1..n : fs[m].fn # "grouping"
      BY <1>1, <3>1
    <3>3. gs[j] = f
      BY <1>1, <2>4
    <3>4. /\ (\A m \in i + 1..n : fs[m].fn # "grouping") => f.precedence >= Required(fs[i])
          /\ i = n => f.precedence = Required(fs[i])
      BY <2>1, <2>2, <3>3 DEF Asks
    <3>5. j = i + 1 => i = n
      BY <1>1, <2>4
    <3> QED BY <2>2, <3>2, <3>3, <3>4, <3>5
  <2> QED BY <1>3, <2>3, <2>4
<1> QED BY <1>4, <1>5, <1>6 DEF FramesPlaced, gs

-----------------------------------------------------------------------------
(* Frames as the source gets longer.                                       *)
LEMMA PlacedLonger ==
  ASSUME NEW tokens, NEW longer, OneLonger(tokens, longer),
         NEW fs \in Seq(FrameSet), FramesPlaced(tokens, fs),
         \A i \in 1..Len(fs) : Operator(fs[i]) =>
           ~EndsOperandOf(tokens, fs[i].token, Len(tokens))
  PROVE  FramesPlaced(longer, fs)
<1> DEFINE c == Len(tokens)
<1>1. /\ TokenSequence(tokens) /\ TokenSequence(longer) /\ Begins(tokens, longer)
      /\ c \in Nat /\ c > 0 /\ Len(longer) - 1 = c
  BY DEF OneLonger, TokenSequence
<1>2. ASSUME NEW i \in 1..Len(fs), Operator(fs[i])
      PROVE  PendingAt(longer, fs[i], Depth(fs, i))
  <2> DEFINE p == fs[i].token
             depth == Depth(fs, i)
  <2>1. /\ p \in 1..c - 1 /\ tokens[p].type = fs[i].operator
        /\ IF fs[i].fn = "unary" THEN IsPrefixOp(tokens, p) ELSE IsInfixOp(tokens, p)
        /\ OutlookOf(tokens, p - 1).depth = depth
        /\ \A k \in p + 1..c - 1 : ~EndsOperandOf(tokens, p, k)
    BY <1>2 DEF FramesPlaced, Pending, PendingAt
  <2>2. ~EndsOperandOf(tokens, p, c)
    BY <1>2
  <2> HIDE DEF p, depth
  <2>3. p \in 1..c
    BY <1>1, <2>1
  <2>4. /\ longer[p] = tokens[p] /\ OutlookOf(longer, p - 1) = OutlookOf(tokens, p - 1)
        /\ IsPrefixOp(longer, p) <=> IsPrefixOp(tokens, p)
        /\ IsInfixOp(longer, p) <=> IsInfixOp(tokens, p)
        /\ \A k \in 1..c : EndsOperandOf(longer, p, k) <=> EndsOperandOf(tokens, p, k)
    BY <1>1, <2>3, OrderKept
  <2>5. \A k \in p + 1..c : k \in 1..c /\ (k \in p + 1..c - 1 \/ k = c)
    BY <1>1, <2>3
  <2>6. \A k \in p + 1..c : ~EndsOperandOf(longer, p, k)
    BY <2>1, <2>2, <2>4, <2>5
  <2>7. IF fs[i].fn = "unary" THEN IsPrefixOp(longer, p) ELSE IsInfixOp(longer, p)
    BY <2>1, <2>4
  <2>8. /\ p \in 1..Len(longer) - 1 /\ longer[p].type = fs[i].operator
        /\ OutlookOf(longer, p - 1).depth = depth
        /\ \A k \in p + 1..Len(longer) - 1 : ~EndsOperandOf(longer, p, k)
    BY <1>1, <2>1, <2>3, <2>4, <2>6
  <2> QED BY <2>7, <2>8 DEF PendingAt, p, depth
<1> QED BY <1>2 DEF FramesPlaced, Pending

(* What the frames remember, as one returns or is called.                  *)
LEMMA RememberedPushed ==
  ASSUME NEW fs \in Seq(FrameSet), NEW f \in FrameSet
  PROVE  \A p : InFrames(p, Append(fs, f)) <=> InFrames(p, fs) \/ (Operator(f) /\ f.token = p)
<1> DEFINE gs == Append(fs, f)
           n == Len(fs)
<1>1. /\ Len(gs) = n + 1 /\ gs[n + 1] = f /\ n \in Nat /\ n + 1 \in 1..n + 1
      /\ \A i \in 1..n : gs[i] = fs[i]
  OBVIOUS
<1> HIDE DEF gs
<1>2. /\ \A i \in 1..n + 1 : i \in 1..n \/ i = n + 1
      /\ \A i \in 1..n : i \in 1..n + 1
  BY <1>1
<1>3. \A p : InFrames(p, gs) <=> InFrames(p, fs) \/ (Operator(f) /\ f.token = p)
  BY <1>1, <1>2 DEF InFrames
<1> QED BY <1>3 DEF gs

LEMMA RememberedPopped ==
  ASSUME NEW fs \in Seq(FrameSet), fs # <<>>, ~Operator(fs[Len(fs)])
  PROVE  \A p : InFrames(p, fs) <=> InFrames(p, SubSeq(fs, 1, Len(fs) - 1))
<1> DEFINE rest == SubSeq(fs, 1, Len(fs) - 1)
           f == fs[Len(fs)]
<1>1. rest \in Seq(FrameSet) /\ f \in FrameSet /\ fs = Append(rest, f)
  BY FramePopped
<1> HIDE DEF rest
<1>2. ~Operator(f)
  OBVIOUS
<1> HIDE DEF f
<1>3. \A p : InFrames(p, Append(rest, f)) <=> InFrames(p, rest) \/ (Operator(f) /\ f.token = p)
  BY <1>1, RememberedPushed
<1>4. \A p : InFrames(p, fs) <=> InFrames(p, rest)
  BY <1>1, <1>2, <1>3
<1> QED BY <1>4 DEF rest

-----------------------------------------------------------------------------
(* The precedences of the parse rules are the levels of the grammar.       *)
LEMMA Tighter ==
  ASSUME NEW operator \in InfixTypes, NEW type
  PROVE  BindsTighter(type, operator) <=> PrecedenceOf(type) >= RightOperandPrecedence(operator)
<1>1. Len(Levels) = 5 /\ 1..Len(Levels) = {1, 2, 3, 4, 5}
  BY DEF Levels
<1>2. /\ Levels[1] = {"EQUAL_EQUAL", "BANG_EQUAL"}
      /\ Levels[2] = {"LESS", "LESS_EQUAL", "GREATER", "GREATER_EQUAL"}
      /\ Levels[3] = {"DOT_DOT"} /\ Levels[4] = {"PLUS", "MINUS"}
      /\ Levels[5] = {"STAR", "SLASH", "PERCENT"}
  BY DEF Levels
<1>3. \A t : t \in InfixTypes <=> \E l \in {1, 2, 3, 4, 5} : t \in Levels[l]
  BY <1>1 DEF InfixTypes
<1>4. ASSUME NEW t, NEW l \in {1, 2, 3, 4, 5}, t \in Levels[l]
      PROVE  /\ PrecedenceOf(t) = l + 3
             /\ RightOperandPrecedence(t) = IF l = 3 THEN 6 ELSE l + 4
             /\ t \in RightAssociative <=> l = 3
             /\ \A m \in {1, 2, 3, 4, 5} : t \in Levels[m] => m = l
  <2>1. PrecedenceOf(t) = l + 3
    BY <1>2, <1>4 DEF PrecedenceOf, PRECEDENCE_NONE, PRECEDENCE_EQUALITY, PRECEDENCE_COMPARISON,
              PRECEDENCE_CONCATENATION, PRECEDENCE_TERM, PRECEDENCE_FACTOR
  <2>2. t = "DOT_DOT" <=> l = 3
    BY <1>2, <1>4
  <2>3. \A m \in {1, 2, 3, 4, 5} : t \in Levels[m] => m = l
    BY <1>2, <1>4
  <2> QED BY <2>1, <2>2, <2>3 DEF RightOperandPrecedence, RightAssociative
<1>5. PICK m \in {1, 2, 3, 4, 5} : operator \in Levels[m]
  BY <1>3
<1>6. /\ RightOperandPrecedence(operator) = IF m = 3 THEN 6 ELSE m + 4
      /\ operator \in RightAssociative <=> m = 3
      /\ \A i \in {1, 2, 3, 4, 5} : operator \in Levels[i] => i = m
  BY <1>4, <1>5
<1>7. CASE type \in InfixTypes
  <2>1. PICK l \in {1, 2, 3, 4, 5} : type \in Levels[l]
    BY <1>3, <1>7
  <2>2. PrecedenceOf(type) = l + 3 /\ \A i \in {1, 2, 3, 4, 5} : type \in Levels[i] => i = l
    BY <1>4, <2>1
  <2>3. BindsTighter(type, operator) <=> l > m \/ (l = m /\ operator \in RightAssociative)
    BY <1>1, <1>5, <1>6, <2>1, <2>2 DEF BindsTighter
  <2> QED BY <1>6, <2>2, <2>3
<1>8. CASE type \notin InfixTypes
  <2>1. ~BindsTighter(type, operator)
    BY <1>1, <1>3, <1>8 DEF BindsTighter
  <2>2. PrecedenceOf(type) \in Nat /\ ~(PrecedenceOf(type) > 0)
    BY <1>8, InfixPrecedence
  <2>3. RightOperandPrecedence(operator) > 0
    BY <1>6
  <2> QED BY <1>6, <2>1, <2>2, <2>3
<1> QED BY <1>7, <1>8

(* No infix operator is as tight as a prefix one.                          *)
LEMMA PrefixTightest ==
  \A type : PrecedenceOf(type) < PRECEDENCE_UNARY
BY DEF PrecedenceOf, PRECEDENCE_NONE, PRECEDENCE_EQUALITY, PRECEDENCE_COMPARISON,
       PRECEDENCE_CONCATENATION, PRECEDENCE_TERM, PRECEDENCE_FACTOR, PRECEDENCE_UNARY

(* Whether the current token ends the operand of a frame's operator.       *)
LEMMA FrameEnds ==
  ASSUME NEW tokens, NEW fs, FramesPlaced(tokens, fs), NEW i \in 1..Len(fs), Operator(fs[i]),
         NEW depth,
         OutlookOf(tokens, Len(tokens) - 1) = Need("operator", depth)
  PROVE  EndsOperandOf(tokens, fs[i].token, Len(tokens)) <=>
           /\ Depth(fs, i) = depth
           /\ ~(PrecedenceOf(tokens[Len(tokens)].type) >= Required(fs[i]))
<1> DEFINE p == fs[i].token
           type == tokens[Len(tokens)].type
<1>1. /\ tokens[p].type = fs[i].operator
      /\ IF fs[i].fn = "unary" THEN IsPrefixOp(tokens, p) ELSE IsInfixOp(tokens, p)
      /\ OutlookOf(tokens, p - 1).depth = Depth(fs, i)
  BY DEF FramesPlaced, Pending, PendingAt
<1>2. Need("operator", depth) = Need("operator", OutlookOf(tokens, p - 1).depth)
        <=> Depth(fs, i) = depth
  BY <1>1 DEF Need
<1>3. IsInfixOp(tokens, p) /\ BindsTighter(type, tokens[p].type)
        <=> PrecedenceOf(type) >= Required(fs[i])
  <2>1. CASE fs[i].fn = "unary"
    <3>1. ~IsInfixOp(tokens, p)
      BY <1>1, <2>1 DEF IsPrefixOp, IsInfixOp
    <3>2. PrecedenceOf(type) < PRECEDENCE_UNARY /\ PrecedenceOf(type) \in Nat
      BY PrefixTightest, InfixPrecedence
    <3>3. ~(PrecedenceOf(type) >= Required(fs[i]))
      BY <2>1, <3>2 DEF Required, PRECEDENCE_UNARY
    <3> QED BY <3>1, <3>3
  <2>2. CASE fs[i].fn # "unary"
    <3>1. IsInfixOp(tokens, p) /\ fs[i].operator \in InfixTypes
      BY <1>1, <2>2 DEF IsInfixOp
    <3>2. BindsTighter(type, fs[i].operator)
            <=> PrecedenceOf(type) >= RightOperandPrecedence(fs[i].operator)
      BY <3>1, Tighter
    <3> QED BY <1>1, <2>2, <3>1, <3>2 DEF Required
  <2> QED BY <2>1, <2>2
<1> QED BY <1>2, <1>3 DEF EndsOperandOf

-----------------------------------------------------------------------------
(* What a step that ends nothing has to establish.                         *)
LEMMA AssembleEvaluation ==
  ASSUME status' \in {"running", "exit"}, ~parser'.hadError /\ status' = "running" => Evaluating'
  PROVE  EvaluationInv'
BY DEF EvaluationInv, EvaluatesInOrder

LEMMA EvaluatingNow ==
  ASSUME LanguageInv, EvaluationInv, status = "running", ~parser.hadError
  PROVE  /\ parser.previous = Len(source) - 1
         /\ FramesPlaced(source, frames) /\ TopEnds(source, frames)
         /\ Statement(source, frames) /\ Performed(chunk.code, source, frames)
         /\ chunk.code \in Seq(Instructions)
<1>1. chunk.code \in Seq(Instructions)
  BY RunningTypes DEF LanguageInv
<1> QED BY <1>1 DEF EvaluationInv, Evaluating

(* A scan that reports nothing makes the source one token longer.          *)
LEMMA ScannedOneMore ==
  ASSUME LanguageInv, status = "running", ScannedOn, Advanced, ~parser'.hadError, ~AtEof
  PROVE  /\ OneLonger(source, source') /\ ~parser.hadError
         /\ parser'.previous = Len(source') - 1
<1>1. /\ TokenSequence(source) /\ Len(source) \in Nat /\ Len(source) > 0
      /\ parser.current = Len(source)
  BY Situation
<1>2. /\ TokenSequence(source') /\ Begins(source, source') /\ ~parser.hadError
      /\ Len(source') = Len(source) + 1
  BY DEF ScannedOn
<1>3. parser'.previous = parser.current
  BY DEF Advanced
<1> QED BY <1>1, <1>2, <1>3 DEF OneLonger

(* What follows from who calls whom.                                       *)
LEMMA CallNames ==
  ASSUME NEW f \in FrameSet, NEW g \in FrameSet, Calls(f, g)
  PROVE  /\ f.fn = "compile" => g.fn = "stmt"
         /\ g.fn = "stmt" => f.fn = "compile"
         /\ g.fn # "compile"
<1>1. f.fn \in {"compile", "stmt", "head", "tail", "unary", "binary", "grouping"}
  BY DEF FrameSet
<1> QED BY <1>1 DEF Calls

(* How many frames there are.                                              *)
LEMMA FrameCount ==
  ASSUME CompilerInv, status = "running"
  PROVE  /\ Top.fn = "compile" => Len(frames) = 1
         /\ Top.fn = "stmt" => Len(frames) = 2
         /\ Top.fn \notin {"compile", "stmt"} => Len(frames) > 2
         /\ frames[1].fn = "compile"
<1>1. frames \in Seq(FrameSet) /\ frames # <<>> /\ CallChain(frames) /\ Top \in FrameSet
  BY RunningTypes
<1>2. Len(frames) \in Nat /\ Len(frames) > 0
  BY <1>1
<1>3. frames[1].fn = "compile" /\ 1 \in 1..Len(frames)
  BY <1>1, <1>2 DEF CallChain, CompileFrame, Frame
<1>4. ASSUME NEW i \in 1..Len(frames) - 1
      PROVE  /\ frames[i].fn = "compile" => frames[i + 1].fn = "stmt"
             /\ frames[i + 1].fn = "stmt" => frames[i].fn = "compile"
             /\ frames[i + 1].fn # "compile"
  <2>1. Calls(frames[i], frames[i + 1])
    BY <1>1 DEF CallChain
  <2>2. i \in 1..Len(frames) /\ i + 1 \in 1..Len(frames)
    BY <1>2
  <2>3. frames[i] \in FrameSet /\ frames[i + 1] \in FrameSet
    BY <1>1, <2>2
  <2> QED BY <2>1, <2>3, CallNames
<1>5. ASSUME Len(frames) > 1 PROVE frames[2].fn = "stmt" /\ Top.fn # "compile"
  <2>1. 1 \in 1..Len(frames) - 1 /\ Len(frames) - 1 \in 1..Len(frames) - 1
        /\ (Len(frames) - 1) + 1 = Len(frames)
    BY <1>2, <1>5
  <2>2. frames[1 + 1].fn = "stmt"
    BY <1>3, <1>4, <2>1
  <2>3. frames[Len(frames)].fn # "compile"
    BY <1>4, <2>1
  <2> QED BY <2>2, <2>3 DEF Top
<1>6. ASSUME Len(frames) > 2 PROVE Top.fn # "stmt"
  <2>1. /\ Len(frames) - 1 \in 1..Len(frames) - 1 /\ (Len(frames) - 1) + 1 = Len(frames)
        /\ Len(frames) - 2 \in 1..Len(frames) - 1 /\ (Len(frames) - 2) + 1 = Len(frames) - 1
    BY <1>2, <1>6
  <2>2. frames[Len(frames) - 1].fn # "compile"
    BY <1>4, <2>1
  <2> QED BY <1>4, <2>1, <2>2 DEF Top
<1>7. Len(frames) = 1 => Top.fn = "compile"
  BY <1>3 DEF Top
<1>8. Len(frames) = 2 => Top.fn = "stmt"
  BY <1>5 DEF Top
<1>9. Len(frames) = 1 \/ Len(frames) = 2 \/ Len(frames) > 2
  <2> DEFINE n == Len(frames)
  <2>1. n \in Nat /\ n > 0
    BY <1>2
  <2> HIDE DEF n
  <2>2. n = 1 \/ n = 2 \/ n > 2
    BY <2>1
  <2> QED BY <2>2 DEF n
<1>10. Top.fn = "compile" => Len(frames) = 1
  <2>1. ~(Len(frames) > 1) => Len(frames) = 1
    BY <1>9
  <2> QED BY <1>5, <2>1
<1>11. Top.fn = "stmt" => Len(frames) = 2
  BY <1>6, <1>7, <1>9
<1> QED BY <1>3, <1>7, <1>8, <1>9, <1>10, <1>11

(* Whether a semicolon would end a print statement, one token further.     *)
LEMMA EndsPrintNext ==
  ASSUME NEW tokens, NEW longer, OneLonger(tokens, longer)
  PROVE  EndsPrint(longer, Len(longer)) <=>
           \/ tokens[Len(tokens)].type = "PRINT"
           \/ EndsPrint(tokens, Len(tokens)) /\ tokens[Len(tokens)].type # "SEMICOLON"
<1> DEFINE c == Len(tokens)
<1>1. /\ c \in Nat /\ c > 0 /\ Len(longer) - 1 = c /\ \A k \in 1..c : longer[k] = tokens[k]
  BY DEF OneLonger, TokenSequence, Begins
<1>2. EndsPrint(longer, Len(longer)) <=>
        \E p \in 1..c : /\ longer[p].type = "PRINT"
                        /\ \A k \in p..c : longer[k].type # "SEMICOLON"
  BY <1>1 DEF EndsPrint
<1>3. EndsPrint(tokens, c) <=>
        \E p \in 1..c - 1 : /\ tokens[p].type = "PRINT"
                            /\ \A k \in p..c - 1 : tokens[k].type # "SEMICOLON"
  BY DEF EndsPrint
<1> HIDE DEF c
<1>4. ASSUME NEW p \in 1..c, longer[p].type = "PRINT", \A k \in p..c : longer[k].type # "SEMICOLON",
             tokens[c].type # "PRINT"
      PROVE  EndsPrint(tokens, c) /\ tokens[c].type # "SEMICOLON"
  <2>1. p # c
    BY <1>1, <1>4
  <2>2. p \in 1..c - 1 /\ c \in p..c /\ \A k \in p..c - 1 : k \in p..c /\ k \in 1..c
    BY <1>1, <2>1
  <2> QED BY <1>1, <1>3, <1>4, <2>2
<1>5. ASSUME tokens[c].type = "PRINT"
      PROVE  \E p \in 1..c : longer[p].type = "PRINT" /\ \A k \in p..c : longer[k].type # "SEMICOLON"
  <2>1. c \in 1..c /\ \A k \in c..c : k = c
    BY <1>1
  <2> QED BY <1>1, <1>5, <2>1
<1>6. ASSUME EndsPrint(tokens, c), tokens[c].type # "SEMICOLON"
      PROVE  \E p \in 1..c : longer[p].type = "PRINT" /\ \A k \in p..c : longer[k].type # "SEMICOLON"
  <2>1. PICK p \in 1..c - 1 : /\ tokens[p].type = "PRINT"
                              /\ \A k \in p..c - 1 : tokens[k].type # "SEMICOLON"
    BY <1>3, <1>6
  <2>2. p \in 1..c /\ \A k \in p..c : k \in 1..c /\ (k = c \/ k \in p..c - 1)
    BY <1>1
  <2>3. longer[p].type = "PRINT"
    BY <1>1, <2>1, <2>2
  <2>4. \A k \in p..c : longer[k].type # "SEMICOLON"
    BY <1>1, <1>6, <2>1, <2>2
  <2> QED BY <2>2, <2>3, <2>4
<1> QED BY <1>2, <1>4, <1>5, <1>6 DEF c

LEMMA StatementGoesOn ==
  ASSUME NEW tokens, NEW longer, OneLonger(tokens, longer), NEW fs, NEW gs,
         Len(fs) \in Nat, Len(gs) \in Nat, Len(fs) > 1, Len(gs) > 1, gs[2] = fs[2],
         Statement(tokens, fs), tokens[Len(tokens)].type \notin {"PRINT", "SEMICOLON"}
  PROVE  Statement(longer, gs)
BY EndsPrintNext DEF Statement

(* The same operators are remembered.                                      *)
LEMMA SameRemembered ==
  ASSUME NEW tokens, NEW fs, NEW gs, NEW code, \A p : InFrames(p, fs) <=> InFrames(p, gs),
         Performed(code, tokens, fs)
  PROVE  Performed(code, tokens, gs)
<1>1. Emitted(tokens, gs) = Emitted(tokens, fs)
  BY DEF Emitted
<1>2. NoneLost(tokens, gs)
  BY DEF Performed, NoneLost
<1>3. InnermostFirst(tokens, gs)
  <2>1. SUFFICES ASSUME NEW e \in Emitted(tokens, fs), NEW i \in 1..Len(gs),
                        Operator(gs[i]), e.after = Len(tokens) - 1
                 PROVE  e.token > gs[i].token
    BY <1>1 DEF InnermostFirst
  <2>2. InFrames(gs[i].token, fs)
    BY <2>1 DEF InFrames
  <2>3. PICK j \in 1..Len(fs) : Operator(fs[j]) /\ fs[j].token = gs[i].token
    BY <2>2 DEF InFrames
  <2>4. e.token > fs[j].token
    BY <2>1, <2>3 DEF Performed, InnermostFirst
  <2> QED BY <2>3, <2>4
<1> QED BY <1>1, <1>2, <1>3 DEF Performed

(* Passing a token that completes nothing.                                 *)
LEMMA NothingCompleted ==
  ASSUME NEW tokens, NEW longer, OneLonger(tokens, longer), NEW fs, NEW gs,
         FramesPlaced(tokens, fs), Remembers(tokens, fs, gs),
         NEW code \in Seq(Instructions), Performed(code, tokens, fs),
         ~Completes(tokens[Len(tokens)].type)
  PROVE  Performed(code, longer, gs)
BY TokenPassed DEF Performed

(* A statement ends with nothing but the value of its expression.          *)
LEMMA StatementHeight ==
  ASSUME CompilerInv, status = "running", ~parser.hadError, Top.fn = "stmt"
  PROVE  HeightAfter(chunk.code) = 1
<1>1. frames \in Seq(FrameSet) /\ frames # <<>> /\ CallChain(frames) /\ Len(frames) = 2
  BY RunningTypes, FrameCount
<1>2. 1 \in 1..Len(frames) - 1 /\ 1 + 1 = 2
  BY <1>1
<1>3. frames[1] = CompileFrame /\ Calls(frames[1], frames[2])
  BY <1>1, <1>2 DEF CallChain
<1>4. Top.height = 0
  BY <1>1, <1>3 DEF Calls, CompileFrame, Frame, Top
<1> QED BY <1>4, HeightNow DEF HeightOnResume

(* No operator is remembered outside of the expressions.                   *)
LEMMA NoOperators ==
  ASSUME CompilerInv, status = "running", Top.fn \in {"compile", "stmt"}
  PROVE  \A i \in 1..Len(frames) : ~Operator(frames[i])
<1>1. Len(frames) \in {1, 2} /\ frames[1].fn = "compile"
  BY FrameCount
<1>2. \A i \in 1..Len(frames) : i = 1 \/ i = Len(frames)
  <2> DEFINE n == Len(frames)
  <2>1. n \in {1, 2}
    BY <1>1
  <2> HIDE DEF n
  <2>2. \A i \in 1..n : i = 1 \/ i = n
    BY <2>1
  <2> QED BY <2>2 DEF n
<1>3. ~Operator(frames[1]) /\ ~Operator(frames[Len(frames)])
  BY <1>1 DEF Operator, Top
<1> QED BY <1>2, <1>3

-----------------------------------------------------------------------------
(* One lemma for each function of the compiler, again.                     *)

LEMMA MoreCode ==
  ASSUME NEW code \in Seq(Instructions), NEW op \in Opcodes, NEW arg \in Nat, NEW pos \in Nat,
         NEW more, more = Emit(code, op, arg, pos)
  PROVE  /\ more \in Seq(Instructions) /\ Len(more) = Len(code) + 1
         /\ \A i \in 1..Len(code) : more[i] = code[i]
         /\ more[Len(code) + 1].op = op /\ more[Len(code) + 1].pos = pos
         /\ more[Len(code) + 1].height = HeightAfter(code)
<1>1. /\ more \in Seq(Instructions) /\ Len(more) = Len(code) + 1
      /\ \A i \in 1..Len(code) : more[i] = code[i]
      /\ more[Len(code) + 1] = [op |-> op, arg |-> arg, pos |-> pos,
                                height |-> HeightAfter(code)]
  BY EmitFacts
<1>2. /\ more[Len(code) + 1].op = op /\ more[Len(code) + 1].pos = pos
      /\ more[Len(code) + 1].height = HeightAfter(code)
  BY <1>1
<1> QED BY <1>1, <1>2

LEMMA CodeLonger ==
  ASSUME LanguageInv, status = "running", NEW op \in Opcodes, NEW pos \in Nat,
         chunk' = [chunk EXCEPT !.code = Emit(@, op, 0, pos)]
  PROVE  /\ chunk.code \in Seq(Instructions) /\ chunk'.code \in Seq(Instructions)
         /\ Len(chunk'.code) = Len(chunk.code) + 1
         /\ \A i \in 1..Len(chunk.code) : chunk'.code[i] = chunk.code[i]
         /\ chunk'.code[Len(chunk.code) + 1].op = op
         /\ chunk'.code[Len(chunk.code) + 1].pos = pos
         /\ chunk'.code[Len(chunk.code) + 1].height = HeightAfter(chunk.code)
<1>1. chunk \in ChunkSet(Len(gcObjects)) /\ chunk.code \in Seq(Instructions)
  BY RunningTypes DEF LanguageInv
<1> DEFINE code == chunk.code
           more == chunk'.code
           zero == 0
<1>2. more = Emit(code, op, zero, pos) /\ code \in Seq(Instructions) /\ zero \in Nat
  BY <1>1 DEF ChunkSet
<1> HIDE DEF code, more, zero
<1>3. /\ more \in Seq(Instructions) /\ Len(more) = Len(code) + 1
      /\ \A i \in 1..Len(code) : more[i] = code[i]
      /\ more[Len(code) + 1].op = op /\ more[Len(code) + 1].pos = pos
      /\ more[Len(code) + 1].height = HeightAfter(code)
  BY <1>2, MoreCode
<1> QED BY <1>2, <1>3 DEF code, more

(* No operand ends at what may begin one.                                  *)
LEMMA NoneEnds ==
  ASSUME NEW tokens, OutlookOf(tokens, Len(tokens) - 1).need # "operator"
  PROVE  \A p : ~EndsOperandOf(tokens, p, Len(tokens))
BY DEF EndsOperandOf, Need

(* The loop of compile_precedence_expr ends: the operand of the operator   *)
(* that called for the expression does.                                    *)
LEMMA ExpressionEvaluated ==
  ASSUME LanguageInv, EvaluationInv, CompileTailEnd
  PROVE  EvaluationInv'
<1>1. /\ status = "running" /\ Top.fn = "tail" /\ PrecedenceOf(CurrentType) < Top.precedence
      /\ UNCHANGED <<source, parser, status, chunk, gcObjects>> /\ frames' = Callers
  BY DEF CompileTailEnd, Running
<1> SUFFICES ASSUME ~parser'.hadError PROVE Evaluating'
  BY <1>1, AssembleEvaluation
<1>2. /\ ~parser.hadError /\ parser.previous = Len(source) - 1
      /\ FramesPlaced(source, frames)
      /\ Statement(source, frames) /\ Performed(chunk.code, source, frames)
  BY <1>1, EvaluatingNow
<1>3. /\ frames \in Seq(FrameSet) /\ frames # <<>> /\ Top = frames[Len(frames)]
      /\ Top \in FrameSet /\ CurrentType = source[Len(source)].type
      /\ Expects(source, frames)
  BY <1>1, <1>2, Situation
<1>4. OutlookOf(source, Len(source) - 1) = Need("operator", OpenParens(frames))
  BY <1>1, <1>3 DEF Expects
<1>5. Len(frames) > 2 /\ Len(frames) \in Nat
  <2>1. Len(frames) > 2
    BY <1>1, FrameCount DEF LanguageInv
  <2> QED BY <1>3, <2>1
<1>6. /\ Callers \in Seq(FrameSet) /\ Len(Callers) = Len(frames) - 1
      /\ \A i \in 1..Len(frames) - 1 : Callers[i] = frames[i]
  BY <1>3, CallersAgree DEF Callers
<1>7. FramesPlaced(source, Callers) /\ Asks(Callers, Top.precedence)
  <2>1. Top.fn \in {"head", "tail"}
    BY <1>1
  <2> QED BY <1>2, <1>3, <2>1, PlacedPopped DEF Callers
<1>8. OpenParens(Callers) = OpenParens(frames)
  <2>1. Top.fn # "grouping"
    BY <1>1
  <2> QED BY <1>3, <2>1, FramePopped DEF Callers
<1> DEFINE m == Len(Callers)
<1>9. m \in 1..m
  BY <1>5, <1>6
<1>10. TopEnds(source, Callers)
  <2>1. SUFFICES ASSUME Operator(Callers[m])
                 PROVE  EndsOperandOf(source, Callers[m].token, Len(source))
    BY DEF TopEnds
  <2>2. Depth(Callers, m) = OpenParens(frames)
    BY <1>6, <1>8, DepthFacts
  <2>3. Top.precedence = Required(Callers[m])
    BY <1>7, <1>9, <2>1 DEF Asks
  <2>4. ~(PrecedenceOf(CurrentType) >= Required(Callers[m]))
    <3>1. PrecedenceOf(CurrentType) \in Nat /\ Top.precedence \in Nat
      BY <1>3, InfixPrecedence DEF FrameSet, Precedences
    <3> QED BY <1>1, <2>3, <3>1
  <2>5. EndsOperandOf(source, Callers[m].token, Len(source)) <=>
           /\ Depth(Callers, m) = OpenParens(frames)
           /\ ~(PrecedenceOf(source[Len(source)].type) >= Required(Callers[m]))
    <3> HIDE DEF m
    <3> QED BY <1>4, <1>7, <1>9, <2>1, FrameEnds DEF m
  <2> QED BY <1>3, <2>2, <2>4, <2>5
<1>11. Statement(source, Callers)
  <2>1. Len(Callers) > 1 /\ Callers[2] = frames[2] /\ Len(frames) > 1
    BY <1>5, <1>6
  <2> QED BY <1>2, <1>5, <1>6, <2>1 DEF Statement
<1>12. Performed(chunk.code, source, Callers)
  <2>1. ~Operator(frames[Len(frames)])
    BY <1>1, <1>3 DEF Operator
  <2>2. \A p : InFrames(p, frames) <=> InFrames(p, Callers)
    BY <1>3, <2>1, RememberedPopped DEF Callers
  <2> QED BY <1>2, <2>2, SameRemembered
<1> QED BY <1>1, <1>2, <1>7, <1>10, <1>11, <1>12 DEF Evaluating

(* What performs an operator.                                              *)
LEMMA PerformsOperator ==
  ASSUME NEW tokens, NEW f, NEW depth, Operator(f), PendingAt(tokens, f, depth)
  PROVE  (IF f.fn = "unary" THEN UnaryOpOf(f.operator) ELSE BinaryOpOf(f.operator))
           \in Operations(tokens, f.token)
<1> DEFINE type == tokens[f.token].type
<1>1. /\ type = f.operator
      /\ IF f.fn = "unary" THEN IsPrefixOp(tokens, f.token) ELSE IsInfixOp(tokens, f.token)
  BY DEF PendingAt
<1>2. IsPrefixOp(tokens, f.token) => ~IsInfixOp(tokens, f.token)
  BY DEF IsPrefixOp, IsInfixOp
<1>3. type \notin {"NUMBER", "STRING", "SEMICOLON"}
  BY <1>1, TypesApart DEF Completes, LiteralTypes
<1>4. CASE f.fn = "unary"
  <2>1. Operations(tokens, f.token) = {UnaryOpOf(type)}
    BY <1>1, <1>2, <1>3, <1>4 DEF Operations
  <2> QED BY <1>1, <1>4, <2>1
<1>5. CASE f.fn # "unary"
  <2>1. Operations(tokens, f.token) = {BinaryOpOf(type)}
    BY <1>1, <1>2, <1>3, <1>5 DEF Operations
  <2> QED BY <1>1, <1>5, <2>1
<1> QED BY <1>4, <1>5

(* The left operand is where the instruction that is emitted looks for it. *)
LEMMA LeftOperandFound ==
  ASSUME NEW code \in Seq(Instructions), NEW more \in Seq(Instructions),
         \A i \in 1..Len(code) : more[i] = code[i],
         NEW f \in FrameSet, Waits(code, f), more[Len(code) + 1].height = f.height + 2
  PROVE  FindsLeftOperand(more, Len(code) + 1, f.token)
<1> DEFINE i == Len(code) + 1
<1>1. PICK left \in 1..Len(code) :
        /\ code[left].pos < f.token
        /\ Leaves(code[left]) = f.height + 1
        /\ \A k \in left + 1..Len(code) :
             code[k].pos >= f.token /\ Leaves(code[k]) >= f.height + 2
  BY DEF Waits
<1>2. Len(code) \in Nat /\ f.height \in Nat /\ i - 1 = Len(code)
  BY DEF FrameSet
<1>3. more[left] = code[left] /\ \A k \in left + 1..i - 1 : more[k] = code[k]
  BY <1>2
<1>4. f.height + 1 = more[i].height - 1 /\ f.height + 2 = more[i].height
  BY <1>2
<1>5. left \in 1..i - 1
  BY <1>2
<1> HIDE DEF i
<1>6. /\ more[left].pos < f.token
      /\ Leaves(more[left]) = more[i].height - 1
      /\ \A k \in left + 1..i - 1 :
           more[k].pos >= f.token /\ Leaves(more[k]) >= more[i].height
  BY <1>1, <1>2, <1>3, <1>4
<1>7. FindsLeftOperand(more, i, f.token)
  BY <1>5, <1>6 DEF FindsLeftOperand
<1> QED BY <1>7 DEF i

(* The operator is emitted where its operand has ended.                    *)
LEMMA OperatorEvaluated ==
  ASSUME LanguageInv, EvaluationInv, OperandsInv, CompileOperator
  PROVE  EvaluationInv'
<1> DEFINE op == IF Top.fn = "unary" THEN UnaryOpOf(Top.operator) ELSE BinaryOpOf(Top.operator)
           pos == parser.previous
<1>1. /\ status = "running" /\ Top.fn \in {"unary", "binary"}
      /\ chunk' = [chunk EXCEPT !.code = Emit(@, op, 0, pos)]
      /\ UNCHANGED <<source, parser, status, gcObjects>> /\ frames' = Callers
  BY DEF CompileOperator, Running
<1> SUFFICES ASSUME ~parser'.hadError PROVE Evaluating'
  BY <1>1, AssembleEvaluation
<1>2. /\ ~parser.hadError /\ parser.previous = Len(source) - 1
      /\ FramesPlaced(source, frames) /\ TopEnds(source, frames)
      /\ Statement(source, frames) /\ Performed(chunk.code, source, frames)
  BY <1>1, EvaluatingNow
<1>3. /\ frames \in Seq(FrameSet) /\ frames # <<>> /\ Top = frames[Len(frames)]
      /\ TokenSequence(source) /\ Len(source) \in Nat /\ Len(source) > 0
      /\ Top \in FrameSet
  BY <1>1, Situation
<1>4. Operator(Top)
  BY <1>1 DEF Operator
<1>5. op \in Operations(source, Top.token)
  <2>1. Len(frames) \in 1..Len(frames)
    BY <1>3
  <2>2. PendingAt(source, Top, Depth(frames, Len(frames)))
    BY <1>2, <1>3, <1>4, <2>1 DEF FramesPlaced, Pending
  <2> QED BY <1>4, <2>2, PerformsOperator
<1>6. op \in Opcodes /\ pos \in Nat /\ op \notin DiscardOps
  BY <1>2, <1>3 DEF UnaryOpOf, BinaryOpOf, Opcodes, UnaryOps, BinaryOps, DiscardOps
<1> HIDE DEF op, pos
<1>7. /\ chunk.code \in Seq(Instructions) /\ chunk'.code \in Seq(Instructions)
      /\ Len(chunk'.code) = Len(chunk.code) + 1
      /\ \A i \in 1..Len(chunk.code) : chunk'.code[i] = chunk.code[i]
      /\ chunk'.code[Len(chunk.code) + 1].op = op
      /\ chunk'.code[Len(chunk.code) + 1].pos = pos
      /\ chunk'.code[Len(chunk.code) + 1].height = HeightAfter(chunk.code)
  BY <1>1, <1>6, CodeLonger
<1>8. Performed(chunk'.code, source, Callers)
  <2> DEFINE code == chunk.code
             more == chunk'.code
             last == frames[Len(frames)]
  <2>1. /\ code \in Seq(Instructions) /\ more \in Seq(Instructions)
        /\ Len(more) = Len(code) + 1 /\ \A i \in 1..Len(code) : more[i] = code[i]
        /\ more[Len(code) + 1].op \in Operations(source, last.token)
        /\ more[Len(code) + 1].pos = Len(source) - 1
        /\ Operator(last) /\ more[Len(code) + 1].op \notin DiscardOps
    BY <1>2, <1>3, <1>4, <1>5, <1>6, <1>7 DEF pos
  <2>2. /\ NoneLost(source, frames) /\ InnermostFirst(source, frames)
        /\ Performs(code, source, Emitted(source, frames))
    BY <1>2 DEF Performed
  <2>3. Callers = SubSeq(frames, 1, Len(frames) - 1)
    BY DEF Callers
  <2>4. ASSUME IsInfixOp(source, last.token)
        PROVE  FindsLeftOperand(more, Len(code) + 1, last.token)
    <3>1. last.fn = "binary" /\ Waits(code, last) /\ last \in FrameSet
      <4>1. Len(frames) \in 1..Len(frames)
        BY <1>3
      <4>2. PendingAt(source, last, Depth(frames, Len(frames)))
        BY <1>2, <1>3, <1>4, <4>1 DEF FramesPlaced, Pending
      <4>3. last.fn = "binary"
        BY <1>1, <1>3, <2>4, <4>2 DEF PendingAt, IsPrefixOp, IsInfixOp
      <4> QED BY <1>1, <1>2, <1>3, <4>1, <4>3 DEF OperandsInv, LeftOperandsWait
    <3>2. more[Len(code) + 1].height = last.height + 2
      BY <1>1, <1>2, <1>3, <1>7, <3>1, HeightNow DEF HeightOnResume, LanguageInv
    <3> HIDE DEF code, more, last
    <3> QED BY <2>1, <3>1, <3>2, LeftOperandFound
  <2>5. FindsOperands(more, Len(code) + 1, source, last.token)
    BY <2>1, <2>4 DEF FindsOperands
  <2> HIDE DEF code, more
  <2>6. /\ NoneLost(source, Callers) /\ InnermostFirst(source, Callers)
        /\ Performs(more, source, Emitted(source, Callers))
    BY <1>2, <1>3, <2>1, <2>2, <2>3, <2>5, OperatorPassed
  <2> QED BY <2>6 DEF Performed, more
<1>9. FramesPlaced(source, Callers)
  BY <1>2, <1>3, PlacedPopped DEF Callers
<1>10. /\ Callers \in Seq(FrameSet) /\ Len(Callers) = Len(frames) - 1
       /\ \A i \in 1..Len(frames) - 1 : Callers[i] = frames[i]
  BY <1>3, CallersAgree DEF Callers
<1>11. TopEnds(source, Callers)
  <2>1. Callers[Len(Callers)].fn = "tail"
    BY <1>1, ReturnsTo DEF LanguageInv
  <2> QED BY <2>1 DEF TopEnds, Operator
<1>12. Statement(source, Callers)
  <2>1. Len(frames) > 2 /\ Len(frames) \in Nat
    BY <1>1, <1>3, FrameCount DEF LanguageInv
  <2>2. Len(Callers) > 1 /\ Callers[2] = frames[2] /\ Len(frames) > 1
    BY <1>10, <2>1
  <2> QED BY <1>2, <1>10, <2>1, <2>2 DEF Statement
<1> QED BY <1>1, <1>2, <1>8, <1>9, <1>11, <1>12 DEF Evaluating

(* compile_grouping_expr: the parenthesis ends no operand outside of it.   *)
LEMMA GroupingEvaluated ==
  ASSUME LanguageInv, EvaluationInv, CompileGroupingEnd,
         ScannedOn, Advanced, ~parser'.hadError => CurrentType = "CLOSE_PAREN"
  PROVE  EvaluationInv'
<1>1. /\ status = "running" /\ Top.fn = "grouping"
      /\ UNCHANGED <<status, chunk, gcObjects>> /\ frames' = Callers
  BY DEF CompileGroupingEnd, Running
<1> SUFFICES ASSUME ~parser'.hadError PROVE Evaluating'
  BY <1>1, AssembleEvaluation
<1>2. /\ frames \in Seq(FrameSet) /\ frames # <<>> /\ Top = frames[Len(frames)]
      /\ CurrentType = source[Len(source)].type /\ (AtEof <=> CurrentType = "EOF")
  BY <1>1, Situation
<1>3. CurrentType = "CLOSE_PAREN" /\ ~AtEof
  BY <1>2
<1>4. OneLonger(source, source') /\ ~parser.hadError /\ parser'.previous = Len(source') - 1
  BY <1>1, <1>3, ScannedOneMore
<1>5. /\ FramesPlaced(source, frames) /\ chunk.code \in Seq(Instructions)
      /\ Statement(source, frames) /\ Performed(chunk.code, source, frames)
  BY <1>1, <1>4, EvaluatingNow
<1>6. OutlookOf(source, Len(source) - 1) = Need("operator", OpenParens(frames))
  <2>1. Expects(source, frames)
    BY <1>1, <1>4, Situation
  <2> QED BY <1>1, <1>2, <2>1 DEF Expects
<1>7. ASSUME NEW i \in 1..Len(frames), Operator(frames[i])
      PROVE  ~EndsOperandOf(source, frames[i].token, Len(source))
  <2>1. i # Len(frames)
    BY <1>1, <1>2, <1>7 DEF Operator
  <2>2. Len(frames) \in i + 1..Len(frames)
    BY <1>2, <2>1
  <2>3. Depth(frames, i) # OpenParens(frames)
    BY <1>1, <1>2, <2>2, DepthFacts
  <2> QED BY <1>5, <1>6, <1>7, <2>3, FrameEnds
<1>8. FramesPlaced(source', frames)
  BY <1>2, <1>4, <1>5, <1>7, PlacedLonger
<1>9. FramesPlaced(source', Callers)
  BY <1>2, <1>8, PlacedPopped DEF Callers
<1>10. /\ Callers \in Seq(FrameSet) /\ Len(Callers) = Len(frames) - 1
       /\ \A i \in 1..Len(frames) - 1 : Callers[i] = frames[i]
  BY <1>2, CallersAgree DEF Callers
<1>11. TopEnds(source', Callers)
  <2>1. Callers[Len(Callers)].fn = "tail"
    BY <1>1, ReturnsTo DEF LanguageInv
  <2> QED BY <2>1 DEF TopEnds, Operator
<1>12. Statement(source', Callers)
  <2>1. Len(frames) > 2 /\ Len(frames) \in Nat
    BY <1>1, <1>2, FrameCount DEF LanguageInv
  <2>2. Len(Callers) > 1 /\ Callers[2] = frames[2] /\ Len(frames) > 1 /\ Len(Callers) \in Nat
    BY <1>10, <2>1
  <2>3. source[Len(source)].type \notin {"PRINT", "SEMICOLON"}
    BY <1>2, <1>3
  <2> QED BY <1>4, <1>5, <2>1, <2>2, <2>3, StatementGoesOn
<1>13. Performed(chunk.code, source', Callers)
  <2>1. ~Operator(frames[Len(frames)])
    BY <1>1, <1>2 DEF Operator
  <2>2. \A p : InFrames(p, frames) <=> InFrames(p, Callers)
    BY <1>2, <2>1, RememberedPopped DEF Callers
  <2>3. ~OperatorAt(source, Len(source))
    <3>1. CurrentType \notin InfixTypes
      BY <1>3, InfixPrecedence
    <3> QED BY <1>2, <1>3, <3>1 DEF OperatorAt, IsPrefixOp, IsInfixOp, PrefixTypes
  <2>4. Remembers(source, frames, Callers)
    BY <2>2, <2>3 DEF Remembers
  <2>5. ~Completes(source[Len(source)].type)
    BY <1>2, <1>3 DEF Completes, LiteralTypes
  <2> QED BY <1>4, <1>5, <2>4, <2>5, NothingCompleted
<1> QED BY <1>1, <1>4, <1>9, <1>11, <1>12, <1>13 DEF Evaluating

-----------------------------------------------------------------------------
(* The semicolon: the statement's instruction is emitted at it.            *)
LEMMA StatementEvaluated ==
  ASSUME LanguageInv, EvaluationInv, CompileStatementEnd,
         ScannedOn, Advanced, ~parser'.hadError => CurrentType = "SEMICOLON"
  PROVE  EvaluationInv'
<1> DEFINE op == IF Top.operator = "PRINT" THEN "PRINT" ELSE "POP"
           pos == parser.current
<1>1. /\ status = "running" /\ Top.fn = "stmt"
      /\ chunk' = [chunk EXCEPT !.code = Emit(@, op, 0, pos)]
      /\ UNCHANGED <<status, gcObjects>> /\ frames' = Callers
  BY DEF CompileStatementEnd, Running
<1> SUFFICES ASSUME ~parser'.hadError PROVE Evaluating'
  BY <1>1, AssembleEvaluation
<1>2. /\ frames \in Seq(FrameSet) /\ frames # <<>> /\ Top = frames[Len(frames)]
      /\ CurrentType = source[Len(source)].type /\ (AtEof <=> CurrentType = "EOF")
      /\ parser.current = Len(source) /\ Len(source) \in Nat
  BY <1>1, Situation
<1>3. CurrentType = "SEMICOLON" /\ ~AtEof
  BY <1>2
<1>4. OneLonger(source, source') /\ ~parser.hadError /\ parser'.previous = Len(source') - 1
  BY <1>1, <1>3, ScannedOneMore
<1>5. /\ FramesPlaced(source, frames) /\ chunk.code \in Seq(Instructions)
      /\ Statement(source, frames) /\ Performed(chunk.code, source, frames)
  BY <1>1, <1>4, EvaluatingNow
<1>6. Len(frames) = 2 /\ Top = frames[2] /\ \A i \in 1..Len(frames) : ~Operator(frames[i])
  BY <1>1, <1>2, FrameCount, NoOperators DEF LanguageInv
<1>7. FramesPlaced(source', frames)
  BY <1>2, <1>4, <1>5, <1>6, PlacedLonger
<1>8. FramesPlaced(source', Callers)
  BY <1>2, <1>7, PlacedPopped DEF Callers
<1>9. /\ Callers \in Seq(FrameSet) /\ Len(Callers) = 1 /\ Callers[1].fn = "compile"
  <2>1. /\ Callers \in Seq(FrameSet) /\ Len(Callers) = Len(frames) - 1
        /\ \A i \in 1..Len(frames) - 1 : Callers[i] = frames[i]
    BY <1>2, CallersAgree DEF Callers
  <2>2. Len(Callers) = 1 /\ Callers[1] = frames[1]
    BY <1>6, <2>1
  <2> QED BY <1>1, <2>1, <2>2, FrameCount DEF LanguageInv
<1>10. TopEnds(source', Callers)
  BY <1>9 DEF TopEnds, Operator
<1>11. Statement(source', Callers)
  <2>1. ~EndsPrint(source', Len(source'))
    BY <1>2, <1>3, <1>4, EndsPrintNext
  <2> QED BY <1>9, <2>1 DEF Statement
<1>12. op \in Operations(source, Len(source)) /\ op \in Opcodes /\ pos \in Nat
  <2>1. Operations(source, Len(source)) = {IF EndsPrint(source, Len(source)) THEN "PRINT" ELSE "POP"}
    <3>1. Completes(source[Len(source)].type)
      BY <1>2, <1>3 DEF Completes
    <3>2. ~IsPrefixOp(source, Len(source)) /\ ~IsInfixOp(source, Len(source))
      BY <3>1, TypesApart
    <3> QED BY <1>2, <1>3, <3>2 DEF Operations
  <2>2. Top.operator = "PRINT" <=> EndsPrint(source, Len(source))
    BY <1>5, <1>6 DEF Statement
  <2> QED BY <1>2, <2>1, <2>2 DEF Opcodes, DiscardOps
<1> HIDE DEF op, pos
<1>13. /\ chunk.code \in Seq(Instructions) /\ chunk'.code \in Seq(Instructions)
       /\ Len(chunk'.code) = Len(chunk.code) + 1
       /\ \A i \in 1..Len(chunk.code) : chunk'.code[i] = chunk.code[i]
       /\ chunk'.code[Len(chunk.code) + 1].op = op
       /\ chunk'.code[Len(chunk.code) + 1].pos = pos
       /\ chunk'.code[Len(chunk.code) + 1].height = HeightAfter(chunk.code)
  BY <1>1, <1>12, CodeLonger
<1>14. Performed(chunk'.code, source', Callers)
  <2>1. ~Operator(frames[Len(frames)])
    BY <1>1, <1>2 DEF Operator
  <2>2. \A p : InFrames(p, frames) <=> InFrames(p, Callers)
    BY <1>2, <2>1, RememberedPopped DEF Callers
  <2>3. Completes(source[Len(source)].type)
    BY <1>2, <1>3 DEF Completes
  <2>4. ~OperatorAt(source, Len(source))
    BY <2>3, TypesApart DEF OperatorAt
  <2>5. Remembers(source, frames, Callers)
    BY <2>2, <2>4 DEF Remembers
  <2> DEFINE code == chunk.code
             more == chunk'.code
             rest == Callers
             longer == source'
  <2>6. /\ code \in Seq(Instructions) /\ more \in Seq(Instructions)
        /\ Len(more) = Len(code) + 1 /\ \A i \in 1..Len(code) : more[i] = code[i]
        /\ more[Len(code) + 1].op \in Operations(source, Len(source))
        /\ more[Len(code) + 1].pos = Len(source)
        /\ more[Len(code) + 1].op \in DiscardOps => Leaves(more[Len(code) + 1]) = 0
    <3>1. HeightAfter(chunk.code) = 1
      BY <1>1, <1>4, <1>6, StatementHeight DEF LanguageInv
    <3>2. Len(chunk.code) + 1 \in 1..Len(chunk'.code)
      BY <1>13
    <3>3. chunk'.code[Len(chunk.code) + 1] \in Instructions
      BY <1>13, <3>2
    <3>4. chunk'.code[Len(chunk.code) + 1].op \in DiscardOps =>
            Leaves(chunk'.code[Len(chunk.code) + 1]) = 0
      BY <1>13, <3>1, <3>3, LeavesFacts
    <3> QED BY <1>2, <1>12, <1>13, <3>4 DEF pos
  <2>7. /\ NoneLost(source, frames) /\ Performs(code, source, Emitted(source, frames))
        /\ OneLonger(source, longer) /\ Remembers(source, frames, rest)
    BY <1>4, <1>5, <2>5 DEF Performed
  <2> HIDE DEF code, more, rest, longer
  <2>8. /\ NoneLost(longer, rest) /\ InnermostFirst(longer, rest)
        /\ Performs(more, longer, Emitted(longer, rest))
    BY <1>5, <2>3, <2>6, <2>7, TokenPassed
  <2> QED BY <2>8 DEF Performed, more, rest, longer
<1> QED BY <1>1, <1>4, <1>8, <1>10, <1>11, <1>14 DEF Evaluating

(* The loop of compile_precedence_expr takes an operator: it ends no       *)
(* operand, since it is at least as tight as the loop asks for, and that   *)
(* at least as tight as the operators in the same parentheses do.          *)
LEMMA OperatorRemembered ==
  ASSUME LanguageInv, EvaluationInv, CompileTail, ScannedOn, Advanced, CompilerInv'
  PROVE  EvaluationInv'
<1> DEFINE type == CurrentType
           binary == BinaryFrame(type, Top.height, parser.current)
           precedence == RightOperandPrecedence(type)
           head == HeadFrame(precedence, Top.height + 1)
<1>1. /\ status = "running" /\ Top.fn = "tail" /\ PrecedenceOf(type) >= Top.precedence
      /\ UNCHANGED <<status, chunk, gcObjects>>
      /\ frames' = frames \o <<binary, head>>
  BY DEF CompileTail, Running
<1> SUFFICES ASSUME ~parser'.hadError PROVE Evaluating'
  BY <1>1, AssembleEvaluation
<1>2. /\ frames \in Seq(FrameSet) /\ frames # <<>> /\ Top = frames[Len(frames)]
      /\ Top \in FrameSet /\ PrecedencesOK(frames) /\ Len(source) \in Nat /\ Len(source) > 0
      /\ parser.current = Len(source) /\ source[Len(source)] \in AllTokens
      /\ type = source[Len(source)].type /\ (AtEof <=> type = "EOF")
  BY <1>1, Situation
<1>3. /\ Top.precedence \in Nat /\ Top.precedence >= 1 /\ Top.height \in Nat
  <2>1. PrecedencesOK(frames) =>
             (Top.fn \in {"head", "tail"} => Top.precedence >= PRECEDENCE_ASSIGNMENT)
    BY <1>2, FramePopped
  <2> QED BY <1>1, <1>2, <2>1 DEF FrameSet, Precedences, PRECEDENCE_ASSIGNMENT
<1>4. /\ type \in InfixTypes /\ type # "EOF" /\ PrecedenceOf(type) \in Nat
      /\ precedence \in Precedences /\ precedence \in Nat /\ precedence >= PrecedenceOf(type)
  <2>1. PrecedenceOf(type) \in Nat /\ (PrecedenceOf(type) > 0 <=> type \in InfixTypes)
    BY InfixPrecedence
  <2>2. type \in InfixTypes
    BY <1>1, <1>3, <2>1
  <2>3. precedence \in Precedences
    BY DEF RightOperandPrecedence, PrecedenceOf, Precedences, PRECEDENCE_NONE,
           PRECEDENCE_EQUALITY, PRECEDENCE_COMPARISON, PRECEDENCE_CONCATENATION,
           PRECEDENCE_TERM, PRECEDENCE_FACTOR
  <2>4. precedence >= PrecedenceOf(type)
    BY <2>1 DEF RightOperandPrecedence
  <2> QED BY <2>1, <2>2, <2>3, <2>4, InfixPrecedence DEF Precedences
<1>5. /\ binary \in FrameSet /\ binary.fn = "binary" /\ binary.token = Len(source)
      /\ binary.operator = type
  <2>1. type \in TokenTypes \cup {"EOF", "ERROR"}
    BY <1>2, EofAndError
  <2>2. parser.current \in Nat
    BY <1>2
  <2> HIDE DEF type, head, precedence
  <2>3. /\ binary \in FrameSet /\ binary.fn = "binary" /\ binary.token = parser.current
        /\ binary.operator = type
    BY <1>3, <2>1, <2>2, OperatorFrames
  <2> QED BY <1>2, <2>3
<1>6. head \in FrameSet /\ head.fn = "head" /\ head.precedence = precedence
  <2>1. Top.height + 1 \in Nat
    BY <1>3
  <2> QED BY <1>4, <2>1, FrameTypes
<1>7. OneLonger(source, source') /\ ~parser.hadError /\ parser'.previous = Len(source') - 1
  BY <1>1, <1>2, <1>4, ScannedOneMore
<1>8. /\ FramesPlaced(source, frames) /\ chunk.code \in Seq(Instructions)
      /\ Statement(source, frames) /\ Performed(chunk.code, source, frames)
  BY <1>1, <1>7, EvaluatingNow
<1>9. OutlookOf(source, Len(source) - 1) = Need("operator", OpenParens(frames))
  <2>1. Expects(source, frames)
    BY <1>1, <1>7, Situation
  <2> QED BY <1>1, <1>2, <2>1 DEF Expects
<1> DEFINE n == Len(frames)
           c == Len(source)
<1>10. n \in Nat /\ n \in 1..n
  BY <1>2
<1>11. ASSUME NEW i \in 1..n, Operator(frames[i]), \A m \in i + 1..n : frames[m].fn # "grouping"
       PROVE  PrecedenceOf(type) >= Required(frames[i]) /\ i # n
  <2>1. i # n
    BY <1>1, <1>2, <1>11 DEF Operator
  <2>2. i < n
    BY <1>10, <2>1
  <2>3. Top.precedence >= Required(frames[i])
    BY <1>1, <1>2, <1>8, <1>10, <1>11, <2>2 DEF FramesPlaced, Tight
  <2>4. Required(frames[i]) \in Nat
    BY InfixPrecedence DEF Required, RightOperandPrecedence, PRECEDENCE_UNARY
  <2> QED BY <1>1, <1>3, <1>4, <2>1, <2>3, <2>4
<1>12. ASSUME NEW i \in 1..n, Operator(frames[i])
       PROVE  ~EndsOperandOf(source, frames[i].token, c)
  <2>1. Depth(frames, i) = OpenParens(frames) =>
          \A m \in i + 1..n : frames[m].fn # "grouping"
    BY <1>2, DepthFacts
  <2>2. Depth(frames, i) = OpenParens(frames) =>
          PrecedenceOf(source[Len(source)].type) >= Required(frames[i])
    BY <1>2, <1>11, <1>12, <2>1
  <2> QED BY <1>8, <1>9, <1>12, <2>2, FrameEnds
<1>13. FramesPlaced(source', frames)
  BY <1>2, <1>7, <1>8, <1>12, PlacedLonger
<1> HIDE DEF binary, head, precedence
<1> DEFINE inner == Append(frames, binary)
<1>14. frames' = Append(inner, head)
  BY <1>1, <1>2, <1>5, <1>6, TwoMore
<1>15. /\ IsInfixOp(source, c) /\ c \in 1..c /\ c > 0
       /\ ~Completes(source[c].type)
  <2>1. IsInfixOp(source, c)
    BY <1>2, <1>4, <1>9 DEF IsInfixOp, Need
  <2> QED BY <1>2, <2>1, TypesApart
<1>16. PendingAt(source', binary, OpenParens(frames))
  <2>1. /\ TokenSequence(source) /\ TokenSequence(source') /\ Begins(source, source')
        /\ Len(source') - 1 = c
    BY <1>2, <1>7 DEF OneLonger
  <2>2. /\ source'[c] = source[c] /\ OutlookOf(source', c - 1) = OutlookOf(source, c - 1)
        /\ IsInfixOp(source', c) <=> IsInfixOp(source, c)
    BY <1>15, <2>1, OrderKept
  <2>3. OutlookOf(source', c - 1).depth = OpenParens(frames)
    BY <1>9, <2>2 DEF Need
  <2>4. \A k \in c + 1..c : FALSE
    BY <1>2
  <2> QED BY <1>2, <1>5, <1>15, <2>1, <2>2, <2>3, <2>4 DEF PendingAt
<1>17. FramesPlaced(source', inner)
  <2>1. \A i \in 1..n : Operator(frames[i]) => frames[i].token < binary.token
    <3>1. \A i \in 1..n : Operator(frames[i]) => frames[i].token \in 1..c - 1
      BY <1>8 DEF FramesPlaced, Pending, PendingAt
    <3>2. \A k \in 1..c - 1 : k < c
      BY <1>2
    <3> QED BY <1>5, <3>1, <3>2
  <2>2. binary.fn \notin {"head", "tail"}
    BY <1>5
  <2> QED BY <1>2, <1>5, <1>13, <1>16, <2>1, <2>2, PlacedPushed
<1>18. /\ inner \in Seq(FrameSet) /\ Len(inner) = n + 1 /\ inner[n + 1] = binary
       /\ \A i \in 1..n : inner[i] = frames[i]
  <2> HIDE DEF n
  <2>1. n = Len(frames)
    BY DEF n
  <2> QED BY <1>2, <1>5, <2>1
<1> HIDE DEF inner
<1>19. Asks(inner, precedence)
  <2>1. SUFFICES ASSUME NEW i \in 1..n + 1, Operator(inner[i])
                 PROVE  /\ (\A m \in i + 1..n + 1 : inner[m].fn # "grouping") =>
                             precedence >= Required(inner[i])
                        /\ i = n + 1 => precedence = Required(inner[i])
    BY <1>18 DEF Asks
  <2>2. Required(binary) = precedence
    BY <1>5 DEF Required, precedence
  <2>3. CASE i = n + 1
    BY <1>4, <1>18, <2>2, <2>3
  <2>4. CASE i # n + 1
    <3>1. i \in 1..n /\ \A m \in i + 1..n : m \in i + 1..n + 1 /\ m \in 1..n
      BY <1>10, <2>4
    <3>2. inner[i] = frames[i] /\ Operator(frames[i])
      BY <1>18, <2>1, <3>1
    <3>3. (\A m \in i + 1..n + 1 : inner[m].fn # "grouping") =>
            \A m \in i + 1..n : frames[m].fn # "grouping"
      BY <1>18, <3>1
    <3>4. (\A m \in i + 1..n : frames[m].fn # "grouping") =>
            PrecedenceOf(type) >= Required(frames[i])
      BY <1>11, <3>1, <3>2
    <3>5. Required(frames[i]) \in Nat
      BY InfixPrecedence DEF Required, RightOperandPrecedence, PRECEDENCE_UNARY
    <3>6. PrecedenceOf(type) >= Required(frames[i]) => precedence >= Required(frames[i])
      BY <1>4, <3>5
    <3> QED BY <2>4, <3>2, <3>3, <3>4, <3>6
  <2> QED BY <2>3, <2>4
<1>20. FramesPlaced(source', frames')
  <2>1. ~Operator(head)
    BY <1>6 DEF Operator
  <2> QED BY <1>6, <1>14, <1>17, <1>18, <1>19, <2>1, PlacedPushed
<1>21. /\ Len(frames') = n + 2 /\ frames'[n + 2] = head /\ \A i \in 1..n : frames'[i] = frames[i]
  <2>1. /\ Len(Append(inner, head)) = Len(inner) + 1 /\ Append(inner, head)[Len(inner) + 1] = head
        /\ \A i \in 1..Len(inner) : Append(inner, head)[i] = inner[i]
    BY <1>6, <1>18
  <2>2. Len(inner) + 1 = n + 2 /\ \A i \in 1..n : i \in 1..Len(inner)
    BY <1>10, <1>18
  <2> QED BY <1>14, <1>18, <2>1, <2>2
<1>22. TopEnds(source', frames')
  BY <1>6, <1>21 DEF TopEnds, Operator
<1>23. Statement(source', frames')
  <2>1. n > 2
    BY <1>1, FrameCount DEF LanguageInv
  <2>2. Len(frames') > 1 /\ frames'[2] = frames[2] /\ n > 1 /\ Len(frames') \in Nat
    BY <1>10, <1>21, <2>1
  <2>3. source[Len(source)].type \notin {"PRINT", "SEMICOLON"}
    <3>1. type \notin {"PRINT", "SEMICOLON"}
      BY <1>4, InfixPrecedence DEF PrecedenceOf, PRECEDENCE_NONE
    <3> QED BY <1>2, <3>1
  <2> QED BY <1>7, <1>8, <1>10, <2>2, <2>3, StatementGoesOn
<1>24. Performed(chunk.code, source', frames')
  <2>1. \A p : InFrames(p, inner) <=> InFrames(p, frames) \/ (Operator(binary) /\ binary.token = p)
    BY <1>2, <1>5, RememberedPushed DEF inner
  <2>2. \A p : InFrames(p, Append(inner, head)) <=> InFrames(p, inner) \/ (Operator(head) /\ head.token = p)
    BY <1>6, <1>18, RememberedPushed
  <2>3. Operator(binary) /\ ~Operator(head)
    BY <1>5, <1>6 DEF Operator
  <2>4. \A p : InFrames(p, frames') <=> InFrames(p, frames) \/ p = c
    BY <1>5, <1>14, <2>1, <2>2, <2>3
  <2>5. Remembers(source, frames, frames')
    BY <1>15, <2>4 DEF Remembers, OperatorAt
  <2> QED BY <1>7, <1>8, <1>15, <2>5, NothingCompleted
<1> QED BY <1>1, <1>7, <1>20, <1>22, <1>23, <1>24 DEF Evaluating

-----------------------------------------------------------------------------
(* What the first token of an expression calls asks nothing new.           *)
LEMMA UnaryAsks ==
  ASSUME NEW fs \in Seq(FrameSet), NEW f \in FrameSet, f.fn = "unary"
  PROVE  Asks(Append(fs, f), PRECEDENCE_UNARY)
<1> DEFINE gs == Append(fs, f)
           n == Len(gs)
<1>1. gs[n] = f /\ Required(f) = PRECEDENCE_UNARY
  BY DEF Required
<1>2. ASSUME NEW g PROVE PRECEDENCE_UNARY >= Required(g)
  BY DEF Required, RightOperandPrecedence, PrecedenceOf, PRECEDENCE_UNARY, PRECEDENCE_NONE,
         PRECEDENCE_EQUALITY, PRECEDENCE_COMPARISON, PRECEDENCE_CONCATENATION,
         PRECEDENCE_TERM, PRECEDENCE_FACTOR
<1> HIDE DEF gs
<1> QED BY <1>1, <1>2 DEF Asks, gs

LEMMA GroupingAsks ==
  ASSUME NEW fs \in Seq(FrameSet), NEW f \in FrameSet, f.fn = "grouping", NEW precedence
  PROVE  Asks(Append(fs, f), precedence)
<1> DEFINE gs == Append(fs, f)
           n == Len(gs)
<1>1. gs[n] = f /\ ~Operator(f) /\ n \in Nat
  BY DEF Operator
<1> HIDE DEF gs
<1>2. ASSUME NEW i \in 1..n, Operator(gs[i])
      PROVE  i # n /\ ~(\A m \in i + 1..n : gs[m].fn # "grouping")
  <2>1. i # n
    BY <1>1, <1>2
  <2>2. n \in i + 1..n
    BY <1>1, <2>1
  <2> QED BY <1>1, <2>1, <2>2
<1> QED BY <1>2 DEF Asks, gs

(* The first token of an expression: it ends no operand, and its place is  *)
(* the same as that of the loop which continues the expression.            *)
LEMMA HeadPassed ==
  ASSUME LanguageInv, EvaluationInv, status = "running", Top.fn = "head", ~parser.hadError,
         OneLonger(source, source'),
         NEW base, base = ReplaceTop(<<TailFrame(Top.precedence, Top.height)>>)
  PROVE  /\ base \in Seq(FrameSet) /\ FramesPlaced(source', base)
         /\ \A p : InFrames(p, base) <=> InFrames(p, frames)
         /\ OpenParens(base) = OpenParens(frames)
         /\ Len(base) = Len(frames) /\ Len(frames) \in Nat /\ Len(frames) > 2
         /\ base[2] = frames[2] /\ base[Len(base)].fn = "tail"
<1> DEFINE tail == TailFrame(Top.precedence, Top.height)
<1>1. /\ base = Append(Callers, tail) /\ base \in Seq(FrameSet)
      /\ base[Len(base)] = tail /\ tail.fn = "tail" /\ tail \in FrameSet
      /\ Callers \in Seq(FrameSet) /\ OpenParens(base) = OpenParens(frames)
      /\ Top.precedence \in Precedences /\ Top.height \in Nat
  BY HeadReplaced
<1>2. tail.precedence = Top.precedence
  BY <1>1, FrameTypes
<1> HIDE DEF tail
<1>3. /\ frames \in Seq(FrameSet) /\ frames # <<>> /\ Top = frames[Len(frames)]
      /\ Expects(source, frames)
  BY Situation
<1>4. OutlookOf(source, Len(source) - 1).need # "operator"
  BY <1>3 DEF Expects, Need
<1>5. FramesPlaced(source, frames)
  BY EvaluatingNow
<1>6. FramesPlaced(source', frames)
  <2>1. \A i \in 1..Len(frames) : Operator(frames[i]) =>
           ~EndsOperandOf(source, frames[i].token, Len(source))
    BY <1>4, NoneEnds
  <2> QED BY <1>3, <1>5, <2>1, PlacedLonger
<1>7. FramesPlaced(source', Callers) /\ Asks(Callers, tail.precedence)
  <2>1. Top.fn \in {"head", "tail"}
    OBVIOUS
  <2> QED BY <1>2, <1>3, <1>6, <2>1, PlacedPopped DEF Callers
<1>8. ~Operator(tail) /\ ~Operator(Top)
  BY <1>1 DEF Operator
<1>9. FramesPlaced(source', base)
  BY <1>1, <1>7, <1>8, PlacedPushed
<1>10. \A p : InFrames(p, base) <=> InFrames(p, frames)
  <2>1. \A p : InFrames(p, frames) <=> InFrames(p, Callers)
    BY <1>3, <1>8, RememberedPopped DEF Callers
  <2>2. \A p : InFrames(p, Append(Callers, tail)) <=>
                 InFrames(p, Callers) \/ (Operator(tail) /\ tail.token = p)
    BY <1>1, RememberedPushed
  <2> QED BY <1>1, <1>8, <2>1, <2>2
<1>11. /\ Len(Callers) = Len(frames) - 1 /\ Len(frames) \in Nat
       /\ \A i \in 1..Len(frames) - 1 : Callers[i] = frames[i]
  BY <1>3, CallersAgree DEF Callers
<1>12. Len(frames) > 2
  BY FrameCount DEF LanguageInv
<1>13. Callers[2] = frames[2] /\ 2 \in 1..Len(Callers)
  BY <1>11, <1>12
<1>14. Len(base) = Len(Callers) + 1 /\ base[2] = Callers[2]
  BY <1>1, <1>13
<1> QED BY <1>1, <1>9, <1>10, <1>11, <1>12, <1>13, <1>14

LEMMA SecondFrame ==
  ASSUME NEW fs \in Seq(FrameSet), NEW f \in FrameSet, Len(fs) > 1
  PROVE  LET gs == Append(fs, f) IN
         /\ gs \in Seq(FrameSet) /\ Len(gs) \in Nat /\ Len(gs) > 1 /\ gs[2] = fs[2]
         /\ gs[Len(gs)] = f
OBVIOUS

(* What an expression may begin with.                                      *)
LEMMA HeadOutlook ==
  ASSUME LanguageInv, status = "running", Top.fn = "head", ~parser.hadError
  PROVE  LET outlook == OutlookOf(source, Len(source) - 1) IN
         outlook.need \in {"statement", "operand"} /\ outlook.depth = OpenParens(frames)
BY Situation DEF Expects, Need

(* compile_unary_expr remembers its operator.                              *)
LEMMA UnaryRemembered ==
  ASSUME LanguageInv, EvaluationInv, status = "running", Top.fn = "head", ~parser.hadError,
         OneLonger(source, source'), Nud(CurrentType) = "compile_unary_expr",
         frames' = ReplaceTop(<<TailFrame(Top.precedence, Top.height),
                                UnaryFrame(CurrentType, Top.height, parser.current),
                                HeadFrame(PRECEDENCE_UNARY, Top.height)>>)
  PROVE  /\ FramesPlaced(source', frames')
         /\ \A p : InFrames(p, frames') <=> InFrames(p, frames) \/ p = Len(source)
         /\ IsPrefixOp(source, Len(source))
         /\ Len(frames') \in Nat /\ Len(frames') > 1 /\ frames'[2] = frames[2]
         /\ frames'[Len(frames')].fn = "head"
<1> DEFINE tail == TailFrame(Top.precedence, Top.height)
           base == Append(Callers, tail)
           f == UnaryFrame(CurrentType, Top.height, parser.current)
           head == HeadFrame(PRECEDENCE_UNARY, Top.height)
           c == Len(source)
<1>1. /\ base = ReplaceTop(<<tail>>) /\ tail \in FrameSet
      /\ Callers \in Seq(FrameSet) /\ Top.height \in Nat
  BY HeadReplaced
<1>2. /\ base \in Seq(FrameSet) /\ FramesPlaced(source', base)
      /\ \A p : InFrames(p, base) <=> InFrames(p, frames)
      /\ OpenParens(base) = OpenParens(frames)
      /\ Len(base) = Len(frames) /\ Len(frames) \in Nat /\ Len(frames) > 2
      /\ base[2] = frames[2]
  BY <1>1, HeadPassed
<1>3. /\ c \in Nat /\ c > 0 /\ parser.current = c /\ source[c] \in AllTokens
      /\ CurrentType = source[c].type /\ TokenSequence(source)
  BY Situation
<1>4. f \in FrameSet /\ f.fn = "unary" /\ f.operator = source[c].type /\ f.token = c
  <2>1. CurrentType \in TokenTypes \cup {"EOF", "ERROR"} /\ parser.current \in Nat
    BY <1>3, EofAndError
  <2> DEFINE type == CurrentType
             height == Top.height
             position == parser.current
  <2>2. type \in TokenTypes \cup {"EOF", "ERROR"} /\ height \in Nat /\ position \in Nat
    BY <1>1, <2>1
  <2> HIDE DEF type, height, position
  <2>3. LET g == UnaryFrame(type, height, position) IN
        /\ g \in FrameSet /\ g.fn = "unary" /\ g.operator = type /\ g.token = position
    BY <2>2, OperatorFrames
  <2>4. /\ f \in FrameSet /\ f.fn = "unary" /\ f.operator = CurrentType
        /\ f.token = parser.current
    BY <2>3 DEF type, height, position
  <2> QED BY <1>3, <2>4
<1>5. head \in FrameSet /\ head.fn = "head" /\ head.precedence = PRECEDENCE_UNARY
  BY <1>1, FrameTypes
<1>6. frames' = Callers \o <<tail, f, head>>
  BY DEF ReplaceTop
<1> HIDE DEF tail, head, f
<1> DEFINE inner == Append(base, f)
<1>7. frames' = Append(inner, head)
  BY <1>1, <1>4, <1>5, <1>6, ThreeMore
<1> HIDE DEF base
<1>8. IsPrefixOp(source, c) /\ OutlookOf(source, c - 1).depth = OpenParens(frames)
  <2>1. source[c].type \in PrefixTypes
    BY <1>3 DEF Nud, PrefixTypes
  <2> QED BY <2>1, HeadOutlook DEF IsPrefixOp
<1>9. PendingAt(source', f, OpenParens(base))
  <2>1. /\ TokenSequence(source') /\ Begins(source, source') /\ Len(source') - 1 = c
    BY <1>3 DEF OneLonger
  <2>2. c \in 1..c
    BY <1>3
  <2>3. /\ source'[c] = source[c] /\ OutlookOf(source', c - 1) = OutlookOf(source, c - 1)
        /\ IsPrefixOp(source', c) <=> IsPrefixOp(source, c)
    BY <1>3, <2>1, <2>2, OrderKept
  <2>4. \A k \in c + 1..c : FALSE
    BY <1>3
  <2> QED BY <1>2, <1>3, <1>4, <1>8, <2>1, <2>2, <2>3, <2>4 DEF PendingAt
<1>10. ASSUME NEW i \in 1..Len(base), Operator(base[i])
       PROVE  base[i].token < f.token
  <2>1. InFrames(base[i].token, base)
    BY <1>10 DEF InFrames
  <2>2. base[i].token \in 1..c - 1
    BY <1>2, <1>3, <2>1, EvaluatingNow, LastNotInFrames
  <2> QED BY <1>3, <1>4, <2>2
<1>11. FramesPlaced(source', inner)
  <2>1. f.fn \notin {"head", "tail"}
    BY <1>4
  <2> QED BY <1>2, <1>4, <1>9, <1>10, <2>1, PlacedPushed
<1>12. /\ inner \in Seq(FrameSet) /\ Len(inner) > 1 /\ inner[2] = base[2]
  <2>1. Len(base) > 1
    BY <1>2
  <2> QED BY <1>2, <1>4, <2>1, SecondFrame
<1>13. FramesPlaced(source', frames')
  <2>1. Asks(inner, head.precedence)
    BY <1>2, <1>4, <1>5, UnaryAsks
  <2>2. ~Operator(head)
    BY <1>5 DEF Operator
  <2> HIDE DEF inner
  <2> QED BY <1>5, <1>7, <1>11, <1>12, <2>1, <2>2, PlacedPushed
<1>14. \A p : InFrames(p, frames') <=> InFrames(p, frames) \/ p = c
  <2>1. \A p : InFrames(p, inner) <=> InFrames(p, base) \/ (Operator(f) /\ f.token = p)
    BY <1>2, <1>4, RememberedPushed
  <2> HIDE DEF inner
  <2>2. \A p : InFrames(p, Append(inner, head)) <=> InFrames(p, inner) \/ (Operator(head) /\ head.token = p)
    BY <1>5, <1>12, RememberedPushed
  <2>3. Operator(f) /\ ~Operator(head)
    BY <1>4, <1>5 DEF Operator
  <2> QED BY <1>2, <1>4, <1>7, <2>1, <2>2, <2>3
<1> HIDE DEF inner
<1>15. /\ Len(frames') \in Nat /\ Len(frames') > 1 /\ frames'[2] = inner[2]
       /\ frames'[Len(frames')] = head
  <2>1. LET gs == Append(inner, head) IN
        /\ Len(gs) \in Nat /\ Len(gs) > 1 /\ gs[2] = inner[2] /\ gs[Len(gs)] = head
    BY <1>5, <1>12, SecondFrame
  <2> QED BY <1>7, <2>1
<1> QED BY <1>2, <1>5, <1>8, <1>12, <1>13, <1>14, <1>15

(* compile_grouping_expr: what the operators outside ask for ends there.   *)
LEMMA GroupingRemembered ==
  ASSUME LanguageInv, EvaluationInv, status = "running", Top.fn = "head", ~parser.hadError,
         OneLonger(source, source'),
         frames' = ReplaceTop(<<TailFrame(Top.precedence, Top.height),
                                GroupingFrame(Top.height),
                                HeadFrame(PRECEDENCE_ASSIGNMENT, Top.height)>>)
  PROVE  /\ FramesPlaced(source', frames')
         /\ \A p : InFrames(p, frames') <=> InFrames(p, frames)
         /\ Len(frames') \in Nat /\ Len(frames') > 1 /\ frames'[2] = frames[2]
         /\ frames'[Len(frames')].fn = "head"
<1> DEFINE tail == TailFrame(Top.precedence, Top.height)
           base == Append(Callers, tail)
           f == GroupingFrame(Top.height)
           head == HeadFrame(PRECEDENCE_ASSIGNMENT, Top.height)
<1>1. /\ base = ReplaceTop(<<tail>>) /\ tail \in FrameSet
      /\ Callers \in Seq(FrameSet) /\ Top.height \in Nat
  BY HeadReplaced
<1>2. /\ base \in Seq(FrameSet) /\ FramesPlaced(source', base)
      /\ \A p : InFrames(p, base) <=> InFrames(p, frames)
      /\ Len(base) = Len(frames) /\ Len(frames) \in Nat /\ Len(frames) > 2
      /\ base[2] = frames[2]
  BY <1>1, HeadPassed
<1>3. f \in FrameSet /\ f.fn = "grouping"
  BY <1>1, FrameTypes
<1>4. head \in FrameSet /\ head.fn = "head" /\ head.precedence = PRECEDENCE_ASSIGNMENT
  BY <1>1, FrameTypes
<1>5. frames' = Callers \o <<tail, f, head>>
  BY DEF ReplaceTop
<1> HIDE DEF tail, head, f
<1> DEFINE inner == Append(base, f)
<1>6. frames' = Append(inner, head)
  BY <1>1, <1>3, <1>4, <1>5, ThreeMore
<1> HIDE DEF base
<1>7. ~Operator(f) /\ ~Operator(head) /\ f.fn \notin {"head", "tail"}
  BY <1>3, <1>4 DEF Operator
<1>8. FramesPlaced(source', inner) /\ Asks(inner, head.precedence)
  BY <1>2, <1>3, <1>7, PlacedPushed, GroupingAsks
<1>9. inner \in Seq(FrameSet) /\ Len(inner) > 1 /\ inner[2] = base[2]
  <2>1. Len(base) > 1
    BY <1>2
  <2> QED BY <1>2, <1>3, <2>1, SecondFrame
<1>10. \A p : InFrames(p, inner) <=> InFrames(p, base)
  BY <1>2, <1>3, <1>7, RememberedPushed
<1> HIDE DEF inner
<1>11. FramesPlaced(source', frames')
  BY <1>4, <1>6, <1>7, <1>8, <1>9, PlacedPushed
<1>12. \A p : InFrames(p, frames') <=> InFrames(p, frames)
  <2>1. \A p : InFrames(p, Append(inner, head)) <=> InFrames(p, inner) \/ (Operator(head) /\ head.token = p)
    BY <1>4, <1>9, RememberedPushed
  <2> QED BY <1>2, <1>6, <1>7, <1>10, <2>1
<1>13. /\ Len(frames') \in Nat /\ Len(frames') > 1 /\ frames'[2] = inner[2]
       /\ frames'[Len(frames')] = head
  <2>1. LET gs == Append(inner, head) IN
        /\ Len(gs) \in Nat /\ Len(gs) > 1 /\ gs[2] = inner[2] /\ gs[Len(gs)] = head
    BY <1>4, <1>9, SecondFrame
  <2> QED BY <1>6, <2>1
<1> QED BY <1>2, <1>4, <1>9, <1>11, <1>12, <1>13

-----------------------------------------------------------------------------
(* The instruction of a literal.                                           *)
LEMMA LiteralPerformed ==
  ASSUME LanguageInv, status = "running", NEW token, token = source[Len(source)],
         Nud(token.type) \in {"compile_invariable_literal", "compile_numeric_literal",
                              "compile_string_literal"},
         CompileLiteral(token, Len(source)), status' = "running"
  PROVE  /\ Completes(token.type)
         /\ chunk.code \in Seq(Instructions) /\ chunk'.code \in Seq(Instructions)
         /\ Len(chunk'.code) = Len(chunk.code) + 1
         /\ \A i \in 1..Len(chunk.code) : chunk'.code[i] = chunk.code[i]
         /\ chunk'.code[Len(chunk.code) + 1].op \in Operations(source, Len(source))
         /\ chunk'.code[Len(chunk.code) + 1].pos = Len(source)
         /\ chunk'.code[Len(chunk.code) + 1].height = HeightAfter(chunk.code)
         /\ chunk'.code[Len(chunk.code) + 1].op \in ConstantOps \cup InvariableOps
<1> DEFINE pos == Len(source)
           type == token.type
<1>1. /\ type \in LiteralTypes /\ type # "SEMICOLON" /\ Completes(type)
      /\ pos \in Nat /\ type = source[pos].type
      /\ chunk \in ChunkSet(Len(gcObjects)) /\ chunk.code \in Seq(Instructions)
      /\ Len(chunk.constants) \in Nat
  <2>1. type \in LiteralTypes
    BY DEF Nud, LiteralTypes
  <2> QED BY <2>1, Situation, RunningTypes DEF LiteralTypes, Completes, LanguageInv
<1>2. ~IsPrefixOp(source, pos) /\ ~IsInfixOp(source, pos)
  BY <1>1, TypesApart
<1>3. Operations(source, pos) = IF type \in {"NUMBER", "STRING"} THEN ConstantOps ELSE {type}
  BY <1>1, <1>2 DEF Operations
<1>4. CASE Nud(type) = "compile_invariable_literal"
  <2>1. chunk' = [chunk EXCEPT !.code = Emit(@, type, 0, pos)]
    BY <1>4 DEF CompileLiteral
  <2>2. type \in {"NIL", "TRUE", "FALSE"}
    BY <1>4 DEF Nud
  <2>3. type \in Opcodes /\ type \in Operations(source, pos) /\ type \in InvariableOps
    BY <1>3, <2>2 DEF Opcodes, InvariableOps
  <2> HIDE DEF type, pos
  <2>4. /\ chunk.code \in Seq(Instructions) /\ chunk'.code \in Seq(Instructions)
        /\ Len(chunk'.code) = Len(chunk.code) + 1
        /\ \A i \in 1..Len(chunk.code) : chunk'.code[i] = chunk.code[i]
        /\ chunk'.code[Len(chunk.code) + 1].op = type
        /\ chunk'.code[Len(chunk.code) + 1].pos = pos
        /\ chunk'.code[Len(chunk.code) + 1].height = HeightAfter(chunk.code)
    BY <1>1, <2>1, <2>3, CodeLonger
  <2> QED BY <1>1, <2>3, <2>4 DEF pos, type
<1>5. ASSUME NEW value, type \in {"NUMBER", "STRING"},
             chunk' = AppendConstant(value, pos), status' = ConstantStatus
      PROVE  /\ chunk'.code \in Seq(Instructions)
             /\ Len(chunk'.code) = Len(chunk.code) + 1
             /\ \A i \in 1..Len(chunk.code) : chunk'.code[i] = chunk.code[i]
             /\ chunk'.code[Len(chunk.code) + 1].op \in Operations(source, pos)
             /\ chunk'.code[Len(chunk.code) + 1].pos = pos
             /\ chunk'.code[Len(chunk.code) + 1].height = HeightAfter(chunk.code)
             /\ chunk'.code[Len(chunk.code) + 1].op \in ConstantOps
  <2> DEFINE k == Len(chunk.constants)
             op == ConstantOp(k)
             code == chunk.code
             more == chunk'.code
  <2>1. ~(k >= PoolLimit)
    BY <1>5 DEF ConstantStatus
  <2>2. op \in Opcodes /\ op \in Operations(source, pos) /\ op \in ConstantOps
    BY <1>3, <1>5 DEF Opcodes, ConstantOps, ConstantOp
  <2>3. more = Emit(code, op, k, pos) /\ k \in Nat /\ code \in Seq(Instructions)
    BY <1>1, <1>5, <2>1 DEF AppendConstant
  <2>4. pos \in Nat /\ op \in Opcodes
    BY <1>1, <2>2
  <2> HIDE DEF op, k, more, code, pos
  <2>5. /\ Emit(code, op, k, pos) \in Seq(Instructions)
        /\ Len(Emit(code, op, k, pos)) = Len(code) + 1
        /\ \A i \in 1..Len(code) : Emit(code, op, k, pos)[i] = code[i]
        /\ Emit(code, op, k, pos)[Len(code) + 1]
             = [op |-> op, arg |-> k, pos |-> pos, height |-> HeightAfter(code)]
    BY <2>3, <2>4, EmitFacts
  <2>6. /\ more \in Seq(Instructions) /\ Len(more) = Len(code) + 1
        /\ \A i \in 1..Len(code) : more[i] = code[i]
        /\ more[Len(code) + 1].op = op /\ more[Len(code) + 1].pos = pos
        /\ more[Len(code) + 1].height = HeightAfter(code)
    BY <2>3, <2>5
  <2> QED BY <2>2, <2>6 DEF more, code
<1>6. CASE Nud(type) = "compile_numeric_literal"
  <2>1. type = "NUMBER" /\ chunk' = AppendConstant(token.literal, pos) /\ status' = ConstantStatus
    BY <1>6, AfterNud DEF CompileLiteral
  <2> QED BY <1>1, <1>5, <2>1
<1>7. CASE Nud(type) = "compile_string_literal"
  <2>1. /\ type = "STRING" /\ chunk' = AppendConstant(ObjectValue(Len(gcObjects')), pos)
        /\ status' = ConstantStatus
    BY <1>7, AfterNud DEF CompileLiteral
  <2> QED BY <1>1, <1>5, <2>1
<1> QED BY <1>4, <1>6, <1>7

(* compile_precedence_expr: the first token of an expression.              *)
LEMMA HeadEvaluated ==
  ASSUME LanguageInv, EvaluationInv, CompileHead
  PROVE  EvaluationInv'
<1> DEFINE token == source[parser.current]
           tail == TailFrame(Top.precedence, Top.height)
<1>1. status = "running" /\ Top.fn = "head"
  BY DEF CompileHead, Running
<1>2. /\ parser.current = Len(source) /\ Len(source) \in Nat /\ Len(source) > 0
      /\ CurrentType = token.type /\ token = source[Len(source)]
      /\ (AtEof <=> CurrentType = "EOF")
      /\ frames \in Seq(FrameSet) /\ OpenParens(frames) \in Nat
      /\ parser \in ParserSet(Len(source)) /\ (parser.hadError <=> parser.state # "OK")
  BY <1>1, Situation
<1>3. PICK scan \in Scans :
        /\ source' = source \o scan
        /\ CASE Nud(token.type) = "NULL" ->
                  /\ parser' = CompilerErrorAt(CompilerAdvance(parser, scan), "SYNTAX",
                                               parser.current, token.type)
                  /\ frames' = Callers
                  /\ UNCHANGED <<status, chunk, gcObjects>>
             [] Nud(token.type) = "compile_unary_expr" ->
                  /\ parser' = CompilerAdvance(parser, scan)
                  /\ frames' = ReplaceTop(<<tail, UnaryFrame(token.type, Top.height, parser.current),
                                            HeadFrame(PRECEDENCE_UNARY, Top.height)>>)
                  /\ UNCHANGED <<status, chunk, gcObjects>>
             [] Nud(token.type) = "compile_grouping_expr" ->
                  /\ parser' = CompilerAdvance(parser, scan)
                  /\ frames' = ReplaceTop(<<tail, GroupingFrame(Top.height),
                                            HeadFrame(PRECEDENCE_ASSIGNMENT, Top.height)>>)
                  /\ UNCHANGED <<status, chunk, gcObjects>>
             [] OTHER ->
                  /\ parser' = CompilerAdvance(parser, scan)
                  /\ CompileLiteral(token, parser.current)
  BY DEF CompileHead
<1> HIDE DEF token, tail
<1>4. CASE Nud(token.type) = "NULL"
  <2> DEFINE q == CompilerAdvance(parser, scan)
  <2>1. /\ parser' = CompilerErrorAt(q, "SYNTAX", parser.current, token.type)
        /\ UNCHANGED status
    BY <1>3, <1>4, Zenon
  <2>2. q \in ParserSet(Len(source \o scan)) /\ (q.hadError <=> q.state # "OK")
    <3>1. TypeOK /\ parser.current > 0
      BY <1>2 DEF LanguageInv, CompilerInv
    <3> QED BY <1>2, <3>1, AdvanceFacts
  <2> HIDE DEF q
  <2>3. parser'.hadError
    BY <2>1, <2>2 DEF CompilerErrorAt, ParserSet
  <2> QED BY <1>1, <2>1, <2>3, AssembleEvaluation
<1>5. CASE Nud(token.type) # "NULL"
  <2>1. parser' = CompilerAdvance(parser, scan) /\ source' = source \o scan
    BY <1>3, <1>5, Zenon
  <2>2. ScannedOn /\ Advanced
    BY <1>1, <2>1, AdvanceOn, AdvanceStep DEF LanguageInv
  <2>3. ~AtEof
    BY <1>2, <1>5, AfterNud
  <2>4. status' \in {"running", "exit"}
    <3>1. CASE Nud(token.type) \in {"compile_unary_expr", "compile_grouping_expr"}
      <4>1. UNCHANGED status
        BY <1>3, <3>1, Zenon
      <4> QED BY <1>1, <4>1
    <3>2. CASE Nud(token.type) \in {"compile_invariable_literal", "compile_numeric_literal",
                                    "compile_string_literal"}
      <4>1. CompileLiteral(token, parser.current)
        BY <1>3, <3>2, Zenon
      <4> QED BY <1>1, <3>2, <4>1 DEF CompileLiteral, ConstantStatus
    <3> QED BY <1>5, <3>1, <3>2, AfterNud
  <2> SUFFICES ASSUME ~parser'.hadError, status' = "running" PROVE Evaluating'
    BY <2>4, AssembleEvaluation
  <2>5. OneLonger(source, source') /\ ~parser.hadError /\ parser'.previous = Len(source') - 1
    BY <1>1, <2>2, <2>3, ScannedOneMore
  <2>6. /\ FramesPlaced(source, frames) /\ chunk.code \in Seq(Instructions)
        /\ Statement(source, frames) /\ Performed(chunk.code, source, frames)
    BY <1>1, <2>5, EvaluatingNow
  <2>7. Len(frames) \in Nat /\ Len(frames) > 1
    BY <1>1, <1>2, FrameCount DEF LanguageInv
  <2>8. source[Len(source)].type \notin {"PRINT", "SEMICOLON"}
    <3>1. token.type \notin {"PRINT", "SEMICOLON"}
      BY <1>5 DEF Nud
    <3> QED BY <1>2, <3>1
  <2>9. ASSUME Len(frames') \in Nat, Len(frames') > 1, frames'[2] = frames[2]
        PROVE  Statement(source', frames')
    BY <2>5, <2>6, <2>7, <2>8, <2>9, StatementGoesOn
  <2>10. CASE Nud(token.type) = "compile_unary_expr"
    <3>1. /\ frames' = ReplaceTop(<<tail, UnaryFrame(token.type, Top.height, parser.current),
                                    HeadFrame(PRECEDENCE_UNARY, Top.height)>>)
          /\ UNCHANGED <<status, chunk, gcObjects>>
      BY <1>3, <2>10, Zenon
    <3>2. frames' = ReplaceTop(<<TailFrame(Top.precedence, Top.height),
                                 UnaryFrame(CurrentType, Top.height, parser.current),
                                 HeadFrame(PRECEDENCE_UNARY, Top.height)>>)
      BY <1>2, <3>1 DEF tail
    <3>3. Nud(CurrentType) = "compile_unary_expr"
      BY <1>2, <2>10
    <3>4. /\ FramesPlaced(source', frames')
          /\ \A p : InFrames(p, frames') <=> InFrames(p, frames) \/ p = Len(source)
          /\ IsPrefixOp(source, Len(source))
          /\ Len(frames') \in Nat /\ Len(frames') > 1 /\ frames'[2] = frames[2]
          /\ frames'[Len(frames')].fn = "head"
      BY <1>1, <2>5, <3>2, <3>3, UnaryRemembered
    <3>5. Remembers(source, frames, frames') /\ ~Completes(source[Len(source)].type)
      BY <3>4, TypesApart DEF Remembers, OperatorAt
    <3>6. Performed(chunk.code, source', frames')
      BY <2>5, <2>6, <3>5, NothingCompleted
    <3>7. TopEnds(source', frames')
      BY <3>4 DEF TopEnds, Operator
    <3> QED BY <2>5, <2>9, <3>1, <3>4, <3>6, <3>7 DEF Evaluating
  <2>11. CASE Nud(token.type) = "compile_grouping_expr"
    <3>1. /\ frames' = ReplaceTop(<<tail, GroupingFrame(Top.height),
                                    HeadFrame(PRECEDENCE_ASSIGNMENT, Top.height)>>)
          /\ UNCHANGED <<status, chunk, gcObjects>>
      BY <1>3, <2>11, Zenon
    <3>2. frames' = ReplaceTop(<<TailFrame(Top.precedence, Top.height),
                                 GroupingFrame(Top.height),
                                 HeadFrame(PRECEDENCE_ASSIGNMENT, Top.height)>>)
      BY <3>1 DEF tail
    <3>3. /\ FramesPlaced(source', frames')
          /\ \A p : InFrames(p, frames') <=> InFrames(p, frames)
          /\ Len(frames') \in Nat /\ Len(frames') > 1 /\ frames'[2] = frames[2]
          /\ frames'[Len(frames')].fn = "head"
      BY <1>1, <2>5, <3>2, GroupingRemembered
    <3>4. source[Len(source)].type = "OPEN_PAREN"
      <4>1. token.type = "OPEN_PAREN"
        BY <2>11 DEF Nud
      <4> QED BY <1>2, <4>1
    <3>5. ~OperatorAt(source, Len(source)) /\ ~Completes(source[Len(source)].type)
      <4>1. "OPEN_PAREN" \notin InfixTypes
        BY InfixPrecedence DEF PrecedenceOf, PRECEDENCE_NONE
      <4> QED BY <3>4, <4>1 DEF OperatorAt, IsPrefixOp, IsInfixOp, PrefixTypes, Completes,
                              LiteralTypes
    <3>6. Remembers(source, frames, frames')
      BY <3>3, <3>5 DEF Remembers
    <3>7. Performed(chunk.code, source', frames')
      BY <2>5, <2>6, <3>5, <3>6, NothingCompleted
    <3>8. TopEnds(source', frames')
      BY <3>3 DEF TopEnds, Operator
    <3> QED BY <2>5, <2>9, <3>1, <3>3, <3>7, <3>8 DEF Evaluating
  <2>12. CASE Nud(token.type) \in {"compile_invariable_literal", "compile_numeric_literal",
                                   "compile_string_literal"}
    <3>1. CompileLiteral(token, parser.current)
      BY <1>3, <2>12, Zenon
    <3>2. frames' = ReplaceTop(<<TailFrame(Top.precedence, Top.height)>>)
      BY <3>1 DEF CompileLiteral
    <3>3. /\ FramesPlaced(source', frames')
          /\ \A p : InFrames(p, frames') <=> InFrames(p, frames)
          /\ Len(frames') = Len(frames) /\ frames'[2] = frames[2]
          /\ frames'[Len(frames')].fn = "tail"
      BY <1>1, <2>5, <3>2, HeadPassed
    <3>4. CompileLiteral(token, Len(source))
      BY <1>2, <3>1
    <3>5. /\ Completes(token.type)
          /\ chunk.code \in Seq(Instructions) /\ chunk'.code \in Seq(Instructions)
          /\ Len(chunk'.code) = Len(chunk.code) + 1
          /\ \A i \in 1..Len(chunk.code) : chunk'.code[i] = chunk.code[i]
          /\ chunk'.code[Len(chunk.code) + 1].op \in Operations(source, Len(source))
          /\ chunk'.code[Len(chunk.code) + 1].pos = Len(source)
          /\ chunk'.code[Len(chunk.code) + 1].op \notin DiscardOps
      BY <1>1, <1>2, <2>12, <3>4, LiteralPerformed DEF ConstantOps, InvariableOps, DiscardOps
    <3>6. Completes(source[Len(source)].type)
      BY <1>2, <3>5
    <3>7. Remembers(source, frames, frames')
      <4>1. ~OperatorAt(source, Len(source))
        BY <3>6, TypesApart DEF OperatorAt
      <4> QED BY <3>3, <4>1 DEF Remembers
    <3>8. Performed(chunk'.code, source', frames')
      <4> DEFINE code == chunk.code
                 more == chunk'.code
                 longer == source'
                 gs == frames'
      <4>1. /\ code \in Seq(Instructions) /\ more \in Seq(Instructions)
            /\ Len(more) = Len(code) + 1 /\ \A i \in 1..Len(code) : more[i] = code[i]
            /\ more[Len(code) + 1].op \in Operations(source, Len(source))
            /\ more[Len(code) + 1].pos = Len(source)
            /\ more[Len(code) + 1].op \in DiscardOps => Leaves(more[Len(code) + 1]) = 0
        BY <3>5
      <4>2. /\ NoneLost(source, frames) /\ Performs(code, source, Emitted(source, frames))
            /\ OneLonger(source, longer) /\ Remembers(source, frames, gs)
        BY <2>5, <2>6, <3>7 DEF Performed
      <4> HIDE DEF code, more, longer, gs
      <4>3. /\ NoneLost(longer, gs) /\ InnermostFirst(longer, gs)
            /\ Performs(more, longer, Emitted(longer, gs))
        BY <2>6, <3>6, <4>1, <4>2, TokenPassed
      <4> QED BY <4>3 DEF Performed, more, longer, gs
    <3>9. TopEnds(source', frames')
      BY <3>3 DEF TopEnds, Operator
    <3> QED BY <2>5, <2>7, <2>9, <3>3, <3>8, <3>9 DEF Evaluating
  <2> QED BY <1>5, <2>10, <2>11, <2>12, AfterNud
<1> QED BY <1>4, <1>5

-----------------------------------------------------------------------------
(* Nothing is evaluated outside of the expressions.                        *)
LEMMA PlacedWithoutOperators ==
  ASSUME NEW tokens, NEW fs, \A i \in 1..Len(fs) : ~Operator(fs[i])
  PROVE  /\ FramesPlaced(tokens, fs) /\ \A p : ~InFrames(p, fs)
         /\ Emitted(tokens, fs) = Evaluations(tokens)
BY DEF FramesPlaced, Pending, TokensAscend, Tight, InFrames, Emitted

(* compiler_compile calls for a statement, whose keyword is remembered.    *)
LEMMA StatementBegun ==
  ASSUME LanguageInv, EvaluationInv, CompileStatement
  PROVE  EvaluationInv'
<1> DEFINE type == IF CurrentType = "PRINT" THEN "PRINT" ELSE "SEMICOLON"
           stmt == StatementFrame(type)
           head == HeadFrame(PRECEDENCE_ASSIGNMENT, 0)
<1>1. /\ status = "running" /\ Top.fn = "compile" /\ CurrentType # "EOF"
      /\ UNCHANGED <<status, chunk, gcObjects>>
  BY DEF CompileStatement, Running
<1> SUFFICES ASSUME ~parser'.hadError PROVE Evaluating'
  BY <1>1, AssembleEvaluation
<1>2. /\ frames \in Seq(FrameSet) /\ ~AtEof /\ CurrentType = source[Len(source)].type
      /\ Len(source) \in Nat
  BY <1>1, Situation
<1>3. /\ stmt \in FrameSet /\ stmt.fn = "stmt" /\ stmt.operator = type
      /\ head \in FrameSet /\ head.fn = "head"
  BY FrameTypes DEF StatementFrame, Frame
<1>4. frames' = frames \o <<stmt, head>>
  BY DEF CompileStatement
<1>5. Len(frames) = 1 /\ \A i \in 1..Len(frames) : ~Operator(frames[i])
  BY <1>1, FrameCount, NoOperators DEF LanguageInv
<1>6. type = "PRINT" <=> CurrentType = "PRINT"
  OBVIOUS
<1> HIDE DEF stmt, head, type
<1> DEFINE inner == Append(frames, stmt)
<1>7. frames' = Append(inner, head)
  BY <1>2, <1>3, <1>4, TwoMore
<1>8. inner \in Seq(FrameSet) /\ Len(inner) = 2 /\ inner[2] = stmt /\ inner[1] = frames[1]
  <2>1. /\ inner \in Seq(FrameSet) /\ Len(inner) = Len(frames) + 1
        /\ inner[Len(frames) + 1] = stmt /\ \A i \in 1..Len(frames) : inner[i] = frames[i]
    BY <1>2, <1>3
  <2> QED BY <1>5, <2>1
<1> HIDE DEF inner
<1>9. Len(frames') = 3 /\ frames'[3] = head /\ frames'[2] = stmt /\ frames'[1] = frames[1]
  <2> DEFINE gs == Append(inner, head)
  <2>1. /\ Len(gs) = Len(inner) + 1 /\ gs[Len(inner) + 1] = head
        /\ \A i \in 1..Len(inner) : gs[i] = inner[i]
    <3>1. inner \in Seq(FrameSet) /\ head \in FrameSet
      BY <1>3, <1>8
    <3> QED BY <3>1
  <2>2. frames' = gs
    BY <1>7
  <2> HIDE DEF gs
  <2>3. Len(gs) = 3 /\ gs[3] = head /\ gs[2] = inner[2] /\ gs[1] = inner[1]
    BY <1>8, <2>1
  <2> QED BY <1>8, <2>2, <2>3
<1>10. \A i \in 1..Len(frames') : ~Operator(frames'[i])
  <2>1. ~Operator(head) /\ ~Operator(stmt) /\ ~Operator(frames[1])
    BY <1>3, <1>5 DEF Operator
  <2> QED BY <1>9, <2>1
<1>11. FramesPlaced(source', frames') /\ TopEnds(source', frames')
  <2>1. FramesPlaced(source', frames')
    BY <1>10, PlacedWithoutOperators
  <2> QED BY <1>3, <1>9, <2>1 DEF TopEnds, Operator
<1>12. Statement(source', frames') <=> (type = "PRINT" <=> EndsPrint(source', Len(source')))
  BY <1>3, <1>9 DEF Statement
<1>13. \A p : InFrames(p, frames') <=> InFrames(p, frames)
  BY <1>5, <1>10, PlacedWithoutOperators
<1>14. CASE CurrentType = "PRINT"
  <2>1. PICK scan \in Scans : source' = source \o scan /\ parser' = CompilerAdvance(parser, scan)
    BY <1>14 DEF CompileStatement
  <2>2. ScannedOn /\ Advanced
    BY <1>1, <2>1, AdvanceOn, AdvanceStep DEF LanguageInv
  <2>3. OneLonger(source, source') /\ ~parser.hadError /\ parser'.previous = Len(source') - 1
    BY <1>1, <1>2, <2>2, ScannedOneMore
  <2>4. /\ FramesPlaced(source, frames) /\ chunk.code \in Seq(Instructions)
        /\ Performed(chunk.code, source, frames)
    BY <1>1, <2>3, EvaluatingNow
  <2>5. Statement(source', frames')
    BY <1>2, <1>6, <1>12, <1>14, <2>3, EndsPrintNext
  <2>6. source[Len(source)].type = "PRINT"
    BY <1>2, <1>14
  <2>7. ~OperatorAt(source, Len(source)) /\ ~Completes(source[Len(source)].type)
    <3>1. "PRINT" \notin InfixTypes
      BY InfixPrecedence DEF PrecedenceOf, PRECEDENCE_NONE
    <3> QED BY <2>6, <3>1 DEF OperatorAt, IsPrefixOp, IsInfixOp, PrefixTypes, Completes,
                            LiteralTypes
  <2>8. Remembers(source, frames, frames')
    BY <1>13, <2>7 DEF Remembers
  <2>9. Performed(chunk.code, source', frames')
    BY <2>3, <2>4, <2>7, <2>8, NothingCompleted
  <2> QED BY <1>1, <1>11, <2>3, <2>5, <2>9 DEF Evaluating
<1>15. CASE CurrentType # "PRINT"
  <2>1. UNCHANGED <<source, parser>>
    BY <1>15 DEF CompileStatement
  <2>2. /\ Statement(source, frames) /\ Performed(chunk.code, source, frames)
        /\ parser.previous = Len(source) - 1
    BY <1>1, <2>1, EvaluatingNow
  <2>3. Statement(source, frames')
    <3>1. ~EndsPrint(source, Len(source))
      BY <1>5, <2>2 DEF Statement
    <3> QED BY <1>6, <1>12, <1>15, <2>1, <3>1
  <2>4. Performed(chunk.code, source, frames')
    BY <1>13, <2>2, SameRemembered
  <2> QED BY <1>1, <1>11, <2>1, <2>2, <2>3, <2>4 DEF Evaluating
<1> QED BY <1>14, <1>15

(* compiler_compile at EOF: everything is performed.                       *)
LEMMA EndedInOrder ==
  ASSUME LanguageInv, EvaluationInv, CompileEnd
  PROVE  EvaluationInv'
<1>1. /\ status = "running" /\ Top.fn = "compile" /\ CurrentType = "EOF"
      /\ parser' = CompilerAdvance(parser, <<>>)
      /\ chunk' = [chunk EXCEPT !.code = Emit(@, "RETURN", 0, parser'.previous)]
      /\ status' = CompilerStatus(parser') /\ UNCHANGED <<source, gcObjects>>
  BY DEF CompileEnd, Running
<1>2. status' \in {"success", "failure", "unexpected_eof"}
      /\ (status' = "success" => ~parser'.hadError)
  BY <1>1 DEF CompilerStatus
<1> SUFFICES ASSUME ~parser'.hadError PROVE EvaluatesInOrder'
  BY <1>2 DEF EvaluationInv, EvaluatesInOrder
<1>3. /\ frames \in Seq(FrameSet) /\ AtEof
      /\ source \in Seq(AllTokens) /\ Len(source) \in Nat /\ Len(source) > 0
      /\ CurrentType = source[Len(source)].type
  BY <1>1, Situation
<1>4. ScannedOn /\ Advanced
  <2>1. <<>> \in Scans /\ source' = source \o <<>>
    BY <1>1, <1>3, ConcatEmptySeq DEF Scans
  <2> QED BY <1>1, <2>1, AdvanceOn, AdvanceStep DEF LanguageInv
<1>5. ~parser.hadError
  BY <1>4 DEF ScannedOn
<1>6. /\ Performed(chunk.code, source, frames) /\ chunk.code \in Seq(Instructions)
  BY <1>1, <1>5, EvaluatingNow
<1>7. (\A p : ~InFrames(p, frames)) /\ Emitted(source, frames) = Evaluations(source)
  BY <1>1, NoOperators, PlacedWithoutOperators DEF LanguageInv
<1>8. ASSUME NEW p \in 1..Len(source), IsPrefixOp(source, p) \/ IsInfixOp(source, p)
      PROVE  \E e \in Evaluations(source) : e.token = p
  <2>1. "EOF" \notin InfixTypes
    BY InfixPrecedence
  <2>2. p # Len(source)
    BY <1>1, <1>3, <1>8, <2>1 DEF IsPrefixOp, IsInfixOp, PrefixTypes
  <2>3. p \in 1..Len(source) - 1
    BY <1>3, <2>2
  <2> QED BY <1>6, <1>7, <1>8, <2>3 DEF Performed, NoneLost
<1>9. Performs(chunk.code, source, Evaluations(source))
  BY <1>6, <1>7 DEF Performed
<1> DEFINE code == chunk.code
           more == chunk'.code
           pos == parser'.previous
<1>10. /\ more \in Seq(Instructions) /\ Len(more) = Len(code) + 1
       /\ \A i \in 1..Len(code) : more[i] = code[i]
       /\ more[Len(code) + 1].op = "RETURN"
  <2>1. parser' \in ParserSet(Len(source')) /\ Len(source') \in Nat
    BY <1>1, <1>3, <1>4 DEF Advanced
  <2>2. pos \in Nat /\ "RETURN" \in Opcodes
    BY <2>1 DEF ParserSet, Opcodes
  <2>3. chunk' = [chunk EXCEPT !.code = Emit(@, "RETURN", 0, pos)]
    BY <1>1
  <2> HIDE DEF pos
  <2> QED BY <1>1, <2>2, <2>3, CodeLonger
<1>11. code \in Seq(Instructions) /\ Performs(code, source, Evaluations(source))
  BY <1>6, <1>9
<1> HIDE DEF code, more
<1>12. SubSeq(more, 1, Len(more) - 1) = code
  <2> DEFINE rest == SubSeq(more, 1, Len(more) - 1)
  <2>1. /\ rest \in Seq(Instructions) /\ Len(rest) = Len(code)
        /\ \A i \in 1..Len(code) : rest[i] = more[i]
    BY <1>10, <1>11
  <2> HIDE DEF rest
  <2>2. \A i \in 1..Len(code) : rest[i] = code[i]
    BY <1>10, <2>1
  <2> QED BY <1>11, <2>1, <2>2, SeqEqual DEF rest
<1>13. more[Len(more)].op = "RETURN"
  BY <1>10, <1>11
<1>14. /\ \A p \in 1..Len(source) :
            IsPrefixOp(source, p) \/ IsInfixOp(source, p) =>
              \E e \in Evaluations(source) : e.token = p
       /\ Performs(SubSeq(more, 1, Len(more) - 1), source, Evaluations(source))
       /\ more[Len(more)].op = "RETURN"
  BY <1>8, <1>11, <1>12, <1>13
<1> QED BY <1>1, <1>14 DEF EvaluatesInOrder, more

(* compiler_compile: nothing is evaluated yet.                             *)
LEMMA StartedEvaluation ==
  ASSUME CompilerStart
  PROVE  EvaluationInv'
<1>1. PICK n \in 0..MaxErrors, t \in Tokens \cup {EofToken} :
        /\ source' = Scan(n, t)
        /\ parser' = [InitialParser EXCEPT
                        !.current = Len(Scan(n, t)),
                        !.state = IF n > 0 THEN "PANIC" ELSE "OK",
                        !.hadError = n > 0,
                        !.report = IF n > 0 THEN [kind |-> "LEXICAL", pos |-> 1]
                                   ELSE NoReport]
  BY DEF CompilerStart
<1>2. frames' = <<CompileFrame>> /\ status' = "running" /\ chunk'.code = <<>>
  BY DEF CompilerStart, EmptyChunk
<1> SUFFICES ASSUME ~parser'.hadError PROVE Evaluating'
  BY <1>2, AssembleEvaluation
<1>3. source' \in Seq(AllTokens) /\ Len(source') = n + 1 /\ n \in Nat
  BY <1>1, ScanContents, BoundsAssumption
<1>4. (parser'.hadError <=> n > 0) /\ parser'.previous = 0
  BY <1>1 DEF InitialParser
<1>5. Len(source') = 1
  BY <1>3, <1>4
<1>6. Len(frames') = 1 /\ frames'[1].fn = "compile"
  BY <1>2 DEF CompileFrame, Frame
<1>7. \A i \in 1..Len(frames') : ~Operator(frames'[i])
  BY <1>6 DEF Operator
<1>8. /\ FramesPlaced(source', frames') /\ (\A p : ~InFrames(p, frames'))
      /\ Emitted(source', frames') = Evaluations(source')
  BY <1>7, PlacedWithoutOperators
<1>9. TopEnds(source', frames')
  BY <1>6, <1>7 DEF TopEnds
<1>10. Statement(source', frames')
  BY <1>5, <1>6 DEF Statement, EndsPrint
<1>11. Evaluations(source') = {}
  BY <1>5 DEF Evaluations
<1>12. Performs(<<>>, source', {})
  BY FS_EmptySet DEF Performs
<1>13. NoneLost(source', frames') /\ InnermostFirst(source', frames')
  BY <1>5, <1>8, <1>11 DEF NoneLost, InnermostFirst
<1>14. Performed(chunk'.code, source', frames')
  BY <1>2, <1>8, <1>11, <1>12, <1>13 DEF Performed
<1> QED BY <1>4, <1>5, <1>8, <1>9, <1>10, <1>14 DEF Evaluating

(* The functions that scan.                                                *)
LEMMA TailEvaluated ==
  ASSUME LanguageInv, EvaluationInv, CompileTail, CompilerInv'
  PROVE  EvaluationInv'
<1>1. status = "running"
  BY DEF CompileTail, Running
<1>2. PICK scan \in Scans : source' = source \o scan /\ parser' = CompilerAdvance(parser, scan)
  BY DEF CompileTail
<1>3. ScannedOn /\ Advanced
  BY <1>1, <1>2, AdvanceOn, AdvanceStep DEF LanguageInv
<1> QED BY <1>3, OperatorRemembered

LEMMA Consumed ==
  ASSUME LanguageInv, status = "running", NEW scan \in Scans, NEW type,
         source' = source \o scan, parser' = CompilerConsume(parser, type, scan),
         ~parser'.hadError
  PROVE  ScannedOn /\ Advanced /\ CurrentType = type
<1>1. /\ parser \in ParserSet(Len(source)) /\ parser.current = Len(source)
      /\ Len(source) \in Nat /\ Len(source) > 0
      /\ (parser.hadError <=> parser.state # "OK") /\ TypeOK
  BY Situation DEF LanguageInv, CompilerInv
<1>2. CASE CurrentType # type
  <2> DEFINE p == CompilerErrorAt(parser, "SYNTAX", parser.current, CurrentType)
  <2>1. parser' = CompilerAdvance(p, scan)
    BY <1>2 DEF CompilerConsume
  <2>2. /\ p \in ParserSet(Len(source)) /\ p.current = parser.current /\ p.hadError
        /\ (p.hadError <=> p.state # "OK")
    BY <1>1, ErrorAtFacts
  <2> HIDE DEF p
  <2>3. parser'.hadError
    BY <1>1, <2>1, <2>2, AdvanceFacts
  <2> QED BY <2>3
<1>3. CASE CurrentType = type
  <2>1. parser' = CompilerAdvance(parser, scan)
    BY <1>3 DEF CompilerConsume
  <2> QED BY <1>3, <2>1, AdvanceOn, AdvanceStep DEF LanguageInv
<1> QED BY <1>2, <1>3

LEMMA GroupingEndEvaluated ==
  ASSUME LanguageInv, EvaluationInv, CompileGroupingEnd
  PROVE  EvaluationInv'
<1>1. status = "running" /\ UNCHANGED status
  BY DEF CompileGroupingEnd, Running
<1>2. PICK scan \in Scans :
        source' = source \o scan /\ parser' = CompilerConsume(parser, "CLOSE_PAREN", scan)
  BY DEF CompileGroupingEnd
<1>3. CASE parser'.hadError
  BY <1>1, <1>3, AssembleEvaluation
<1>4. CASE ~parser'.hadError
  <2>1. ScannedOn /\ Advanced /\ CurrentType = "CLOSE_PAREN"
    BY <1>1, <1>2, <1>4, Consumed
  <2> QED BY <2>1, GroupingEvaluated
<1> QED BY <1>3, <1>4

LEMMA StatementEndEvaluated ==
  ASSUME LanguageInv, EvaluationInv, CompileStatementEnd
  PROVE  EvaluationInv'
<1>1. status = "running" /\ UNCHANGED status
  BY DEF CompileStatementEnd, Running
<1>2. PICK scan \in Scans :
        source' = source \o scan /\ parser' = CompilerConsume(parser, "SEMICOLON", scan)
  BY DEF CompileStatementEnd
<1>3. CASE parser'.hadError
  BY <1>1, <1>3, AssembleEvaluation
<1>4. CASE ~parser'.hadError
  <2>1. ScannedOn /\ Advanced /\ CurrentType = "SEMICOLON"
    BY <1>1, <1>2, <1>4, Consumed
  <2> QED BY <2>1, StatementEvaluated
<1> QED BY <1>3, <1>4

(* EvaluationInv is inductive, given LanguageInv.                          *)
LEMMA InitEvaluation == CompilerInit => EvaluationInv
BY DEF CompilerInit, EvaluationInv, EvaluatesInOrder

LEMMA StepEvaluation ==
  LanguageInv /\ EvaluationInv /\ OperandsInv /\ CompilerStep => EvaluationInv'
<1> SUFFICES ASSUME LanguageInv, EvaluationInv, OperandsInv, CompilerStep PROVE EvaluationInv'
  OBVIOUS
<1>1. CompilerInv'
  BY StepInv DEF LanguageInv
<1> QED BY <1>1, StatementBegun, EndedInOrder, HeadEvaluated, TailEvaluated, ExpressionEvaluated,
           OperatorEvaluated, GroupingEndEvaluated, StatementEndEvaluated DEF CompilerStep

LEMMA EvaluationKept ==
  EvaluationInv /\ UNCHANGED <<source, sourceId, parser, frames, status, chunk, gcObjects>>
    => EvaluationInv'
BY DEF EvaluationInv, Evaluating, EvaluatesInOrder
-----------------------------------------------------------------------------
(* Why the left operands stay: what is called inside the right operand of  *)
(* an operator runs higher up the stack.                                   *)
LEMMA HigherInside ==
  ASSUME NEW fs \in Seq(FrameSet), CallChain(fs), NEW i \in 1..Len(fs), fs[i].fn = "binary",
         NEW j \in 1..Len(fs), i < j
  PROVE  fs[j].height >= fs[i].height + 1
<1> DEFINE Lower == {k \in Nat : k \in i + 1..Len(fs) /\ ~(fs[k].height >= fs[i].height + 1)}
<1>1. Len(fs) \in Nat /\ \A k \in 1..Len(fs) : fs[k].height \in Nat
  <2>1. Len(fs) \in Nat /\ \A k \in 1..Len(fs) : fs[k] \in FrameSet
    OBVIOUS
  <2> QED BY <2>1 DEF FrameSet
<1>2. \A k \in 1..Len(fs) - 1 :
        /\ fs[k + 1].height \in {fs[k].height, fs[k].height + 1}
        /\ fs[k].fn = "binary" => fs[k + 1].height = fs[k].height + 1
  BY DEF CallChain, Calls
<1>3. SUFFICES ASSUME Lower # {} PROVE FALSE
  BY <1>1
<1>4. PICK k \in Lower : \A l \in Lower : k <= l
  BY <1>3, LeastNatural
<1>5. k \in i + 1..Len(fs) /\ ~(fs[k].height >= fs[i].height + 1) /\ k \in Nat /\ i \in Nat
  BY <1>4
<1>6. k # i + 1
  <2>1. i \in 1..Len(fs) - 1
    BY <1>1
  <2> QED BY <1>1, <1>2, <1>5, <2>1
<1>7. k - 1 \in i + 1..Len(fs) /\ k - 1 \in Nat /\ k - 1 \in 1..Len(fs) - 1 /\ k - 1 \in 1..Len(fs)
  BY <1>1, <1>5, <1>6
<1>8. k - 1 \notin Lower
  BY <1>4, <1>5, <1>7
<1>9. fs[k - 1].height >= fs[i].height + 1
  BY <1>7, <1>8
<1>10. fs[(k - 1) + 1].height \in {fs[k - 1].height, fs[k - 1].height + 1}
  BY <1>2, <1>7
<1>11. fs[k].height \in {fs[k - 1].height, fs[k - 1].height + 1}
  <2>1. (k - 1) + 1 = k
    BY <1>5
  <2> QED BY <1>10, <2>1
<1> QED BY <1>1, <1>5, <1>7, <1>9, <1>11

LEMMA WaitsOn ==
  ASSUME NEW code \in Seq(Instructions), NEW more \in Seq(Instructions),
         Len(more) = Len(code) + 1, \A i \in 1..Len(code) : more[i] = code[i],
         NEW f \in FrameSet, Waits(code, f),
         more[Len(code) + 1].pos >= f.token, Leaves(more[Len(code) + 1]) >= f.height + 2
  PROVE  Waits(more, f)
<1>1. PICK left \in 1..Len(code) :
        /\ code[left].pos < f.token
        /\ Leaves(code[left]) = f.height + 1
        /\ \A k \in left + 1..Len(code) :
             code[k].pos >= f.token /\ Leaves(code[k]) >= f.height + 2
  BY DEF Waits
<1>2. left \in 1..Len(more) /\ more[left] = code[left] /\ Len(code) \in Nat
  OBVIOUS
<1>3. ASSUME NEW k \in left + 1..Len(more)
      PROVE  more[k].pos >= f.token /\ Leaves(more[k]) >= f.height + 2
  <2>1. CASE k = Len(code) + 1
    BY <2>1
  <2>2. CASE k # Len(code) + 1
    <3>1. k \in left + 1..Len(code) /\ k \in 1..Len(code)
      BY <1>2, <2>2
    <3> QED BY <1>1, <3>1
  <2> QED BY <2>1, <2>2
<1> QED BY <1>1, <1>2, <1>3 DEF Waits

(* Frames that come and go.                                                *)
LEMMA WaitPushed ==
  ASSUME NEW code, NEW fs \in Seq(FrameSet), LeftOperandsWait(code, fs),
         NEW f \in FrameSet, f.fn = "binary" => Waits(code, f)
  PROVE  LeftOperandsWait(code, Append(fs, f))
<1> DEFINE gs == Append(fs, f)
<1>1. /\ Len(gs) = Len(fs) + 1 /\ gs[Len(fs) + 1] = f /\ Len(fs) \in Nat
      /\ \A i \in 1..Len(fs) : gs[i] = fs[i]
  OBVIOUS
<1> HIDE DEF gs
<1>2. ASSUME NEW i \in 1..Len(gs), gs[i].fn = "binary" PROVE Waits(code, gs[i])
  <2>1. CASE i = Len(fs) + 1
    BY <1>1, <1>2, <2>1
  <2>2. CASE i # Len(fs) + 1
    <3>1. i \in 1..Len(fs)
      BY <1>1, <2>2
    <3> QED BY <1>1, <1>2, <3>1 DEF LeftOperandsWait
  <2> QED BY <2>1, <2>2
<1> QED BY <1>2 DEF LeftOperandsWait, gs

LEMMA WaitPopped ==
  ASSUME NEW code, NEW fs \in Seq(FrameSet), fs # <<>>, LeftOperandsWait(code, fs)
  PROVE  LeftOperandsWait(code, SubSeq(fs, 1, Len(fs) - 1))
<1> DEFINE gs == SubSeq(fs, 1, Len(fs) - 1)
<1>1. Len(gs) = Len(fs) - 1 /\ Len(fs) \in Nat /\ \A i \in 1..Len(fs) - 1 : gs[i] = fs[i]
  BY CallersAgree
<1> HIDE DEF gs
<1>2. \A i \in 1..Len(gs) : gs[i] = fs[i] /\ i \in 1..Len(fs)
  BY <1>1
<1> QED BY <1>2 DEF LeftOperandsWait, gs

LEMMA NoneWaits ==
  ASSUME NEW code, NEW fs, \A i \in 1..Len(fs) : ~Operator(fs[i])
  PROVE  LeftOperandsWait(code, fs)
BY DEF LeftOperandsWait, Operator

LEMMA AssembleOperands ==
  ASSUME ~parser'.hadError /\ status' = "running" => LeftOperandsWait(chunk'.code, frames')
  PROVE  OperandsInv'
BY DEF OperandsInv

(* An instruction emitted at the top frame, high enough and late enough,   *)
(* hides the left operand of none of its callers.                          *)
LEMMA CallersWait ==
  ASSUME NEW tokens, NEW fs \in Seq(FrameSet), fs # <<>>, CallChain(fs), Len(tokens) \in Nat,
         Pending(tokens, fs),
         NEW code \in Seq(Instructions), NEW more \in Seq(Instructions),
         Len(more) = Len(code) + 1, \A i \in 1..Len(code) : more[i] = code[i],
         LeftOperandsWait(code, fs),
         more[Len(code) + 1].pos \in Nat, more[Len(code) + 1].pos >= Len(tokens) - 1,
         Leaves(more[Len(code) + 1]) = fs[Len(fs)].height + 1
  PROVE  LeftOperandsWait(more, SubSeq(fs, 1, Len(fs) - 1))
<1> DEFINE rest == SubSeq(fs, 1, Len(fs) - 1)
           n == Len(fs)
<1>1. /\ rest \in Seq(FrameSet) /\ Len(rest) = n - 1 /\ n \in Nat /\ n > 0
      /\ \A i \in 1..n - 1 : rest[i] = fs[i]
  BY CallersAgree
<1> HIDE DEF rest
<1>2. ASSUME NEW i \in 1..Len(rest), rest[i].fn = "binary" PROVE Waits(more, rest[i])
  <2>1. i \in 1..n /\ n \in 1..n /\ i < n /\ rest[i] = fs[i] /\ fs[i] \in FrameSet
        /\ fs[n] \in FrameSet
    BY <1>1
  <2>2. fs[n].height >= fs[i].height + 1
    BY <1>2, <2>1, HigherInside
  <2>3. fs[i].token \in 1..Len(tokens) - 1
    BY <1>2, <2>1 DEF Pending, PendingAt, Operator
  <2>4. Waits(code, fs[i])
    BY <1>2, <2>1 DEF LeftOperandsWait
  <2> DEFINE new == more[Len(code) + 1]
  <2>5. new.pos >= fs[i].token
    BY <2>3
  <2>6. Leaves(new) >= fs[i].height + 2
    <3>1. fs[i].height \in Nat /\ fs[n].height \in Nat
      BY <2>1 DEF FrameSet
    <3>2. Leaves(new) = fs[n].height + 1
      OBVIOUS
    <3> DEFINE low == fs[i].height
               high == fs[n].height
               left == Leaves(new)
    <3>3. low \in Nat /\ high \in Nat /\ left = high + 1 /\ high >= low + 1
      BY <2>2, <3>1, <3>2
    <3> HIDE DEF low, high, left
    <3>4. left >= low + 2
      BY <3>3
    <3> QED BY <3>4 DEF low, left
  <2> QED BY <2>1, <2>4, <2>5, <2>6, WaitsOn
<1> QED BY <1>2 DEF LeftOperandsWait, rest

-----------------------------------------------------------------------------
(* One lemma for each function of the compiler, once more.                 *)
LEMMA StatementKeepsOperands ==
  ASSUME LanguageInv, OperandsInv, CompileStatement
  PROVE  OperandsInv'
<1> DEFINE type == IF CurrentType = "PRINT" THEN "PRINT" ELSE "SEMICOLON"
           stmt == StatementFrame(type)
           head == HeadFrame(PRECEDENCE_ASSIGNMENT, 0)
<1>1. status = "running" /\ Top.fn = "compile" /\ UNCHANGED chunk /\ frames' = frames \o <<stmt, head>>
  BY DEF CompileStatement, Running
<1>2. frames \in Seq(FrameSet)
  BY <1>1, Situation
<1>3. /\ stmt \in FrameSet /\ stmt.fn = "stmt" /\ head \in FrameSet /\ head.fn = "head"
  BY FrameTypes
<1> HIDE DEF stmt, head, type
<1>4. LeftOperandsWait(chunk.code, frames)
  BY <1>1, NoOperators, NoneWaits DEF LanguageInv
<1>5. frames' = Append(Append(frames, stmt), head) /\ Append(frames, stmt) \in Seq(FrameSet)
  BY <1>1, <1>2, <1>3, TwoMore
<1>6. LeftOperandsWait(chunk.code, Append(frames, stmt))
  BY <1>2, <1>3, <1>4, WaitPushed
<1>7. LeftOperandsWait(chunk.code, frames')
  BY <1>3, <1>5, <1>6, WaitPushed
<1> QED BY <1>1, <1>7, AssembleOperands

LEMMA EndKeepsOperands ==
  ASSUME LanguageInv, CompileEnd
  PROVE  OperandsInv'
BY DEF CompileEnd, CompilerStatus, OperandsInv

LEMMA StatementEndKeepsOperands ==
  ASSUME LanguageInv, CompileStatementEnd
  PROVE  OperandsInv'
<1>1. status = "running" /\ Top.fn = "stmt" /\ frames' = Callers
  BY DEF CompileStatementEnd, Running
<1>2. frames \in Seq(FrameSet) /\ frames # <<>>
  BY <1>1, Situation
<1>3. LeftOperandsWait(chunk'.code, frames)
  BY <1>1, NoOperators, NoneWaits DEF LanguageInv
<1>4. LeftOperandsWait(chunk'.code, frames')
  BY <1>1, <1>2, <1>3, WaitPopped DEF Callers
<1> QED BY <1>4, AssembleOperands

LEMMA ReturnKeepsOperands ==
  ASSUME LanguageInv, OperandsInv, status = "running", frames' = Callers,
         UNCHANGED <<status, chunk>>, ~parser'.hadError => ~parser.hadError
  PROVE  OperandsInv'
<1> SUFFICES ASSUME ~parser'.hadError PROVE LeftOperandsWait(chunk'.code, frames')
  BY AssembleOperands
<1>1. frames \in Seq(FrameSet) /\ frames # <<>>
  BY Situation
<1>2. LeftOperandsWait(chunk.code, frames)
  BY DEF OperandsInv
<1> QED BY <1>1, <1>2, WaitPopped DEF Callers

LEMMA GroupingEndKeepsOperands ==
  ASSUME LanguageInv, OperandsInv, CompileGroupingEnd
  PROVE  OperandsInv'
<1>1. status = "running" /\ frames' = Callers /\ UNCHANGED <<status, chunk>>
  BY DEF CompileGroupingEnd, Running
<1>2. PICK scan \in Scans :
        source' = source \o scan /\ parser' = CompilerConsume(parser, "CLOSE_PAREN", scan)
  BY DEF CompileGroupingEnd
<1>3. ~parser'.hadError => ~parser.hadError
  BY <1>1, <1>2, Consumed DEF ScannedOn
<1> QED BY <1>1, <1>3, ReturnKeepsOperands

LEMMA TailEndKeepsOperands ==
  ASSUME LanguageInv, OperandsInv, CompileTailEnd
  PROVE  OperandsInv'
<1>1. /\ status = "running" /\ frames' = Callers /\ UNCHANGED <<status, chunk>> /\ UNCHANGED parser
  BY DEF CompileTailEnd, Running
<1> QED BY <1>1, ReturnKeepsOperands

LEMMA OperatorKeepsOperands ==
  ASSUME LanguageInv, EvaluationInv, OperandsInv, CompileOperator
  PROVE  OperandsInv'
<1> DEFINE op == IF Top.fn = "unary" THEN UnaryOpOf(Top.operator) ELSE BinaryOpOf(Top.operator)
           pos == parser.previous
<1>1. /\ status = "running" /\ Top.fn \in {"unary", "binary"}
      /\ chunk' = [chunk EXCEPT !.code = Emit(@, op, 0, pos)]
      /\ UNCHANGED <<source, parser, status, gcObjects>> /\ frames' = Callers
  BY DEF CompileOperator, Running
<1> SUFFICES ASSUME ~parser'.hadError PROVE LeftOperandsWait(chunk'.code, frames')
  BY AssembleOperands
<1>2. /\ ~parser.hadError /\ parser.previous = Len(source) - 1 /\ FramesPlaced(source, frames)
      /\ LeftOperandsWait(chunk.code, frames)
  BY <1>1, EvaluatingNow DEF OperandsInv
<1>3. /\ frames \in Seq(FrameSet) /\ frames # <<>> /\ Top = frames[Len(frames)]
      /\ Len(source) \in Nat /\ Len(source) > 0 /\ Top \in FrameSet /\ CallChain(frames)
  BY <1>1, Situation, RunningTypes DEF LanguageInv
<1>4. /\ op \in Opcodes /\ pos \in Nat
      /\ Top.fn = "unary" => op \in UnaryOps
      /\ Top.fn = "binary" => op \in BinaryOps
  BY <1>2, <1>3 DEF UnaryOpOf, BinaryOpOf, Opcodes, UnaryOps, BinaryOps
<1> HIDE DEF op
<1>5. /\ chunk.code \in Seq(Instructions) /\ chunk'.code \in Seq(Instructions)
      /\ Len(chunk'.code) = Len(chunk.code) + 1
      /\ \A i \in 1..Len(chunk.code) : chunk'.code[i] = chunk.code[i]
      /\ chunk'.code[Len(chunk.code) + 1].op = op
      /\ chunk'.code[Len(chunk.code) + 1].pos = pos
      /\ chunk'.code[Len(chunk.code) + 1].height = HeightAfter(chunk.code)
  BY <1>1, <1>4, CodeLonger
<1> DEFINE new == chunk'.code[Len(chunk.code) + 1]
<1>6. new \in Instructions
  BY <1>5
<1>7. Leaves(new) = Top.height + 1
  <2>1. new.height = HeightOnResume(Top)
    BY <1>1, <1>2, <1>5, HeightNow DEF LanguageInv
  <2>2. Top.height \in Nat
    BY <1>3 DEF FrameSet
  <2>3. CASE Top.fn = "unary"
    <3>1. Leaves(new) = new.height
      BY <1>4, <1>5, <1>6, <2>3, LeavesFacts
    <3> QED BY <2>1, <2>3, <3>1 DEF HeightOnResume
  <2>4. CASE Top.fn = "binary"
    <3>1. Leaves(new) = new.height - 1
      BY <1>4, <1>5, <1>6, <2>4, LeavesFacts
    <3>2. new.height = Top.height + 2
      BY <2>1, <2>4 DEF HeightOnResume
    <3> QED BY <2>2, <3>1, <3>2
  <2> QED BY <1>1, <2>3, <2>4
<1>8. new.pos = Len(source) - 1 /\ new.pos \in Nat
  BY <1>2, <1>4, <1>5
<1> HIDE DEF new, pos
<1> DEFINE code == chunk.code
           more == chunk'.code
<1>9. /\ code \in Seq(Instructions) /\ more \in Seq(Instructions)
      /\ Len(more) = Len(code) + 1 /\ \A i \in 1..Len(code) : more[i] = code[i]
      /\ LeftOperandsWait(code, frames) /\ Pending(source, frames)
      /\ more[Len(code) + 1].pos \in Nat /\ more[Len(code) + 1].pos >= Len(source) - 1
      /\ Leaves(more[Len(code) + 1]) = frames[Len(frames)].height + 1
  BY <1>2, <1>3, <1>5, <1>7, <1>8 DEF new, FramesPlaced
<1> HIDE DEF code, more
<1>10. LeftOperandsWait(more, SubSeq(frames, 1, Len(frames) - 1))
  BY <1>3, <1>9, CallersWait
<1> QED BY <1>1, <1>10 DEF more, Callers

LEMMA TailKeepsOperands ==
  ASSUME LanguageInv, EvaluationInv, OperandsInv, CompileTail
  PROVE  OperandsInv'
<1> DEFINE type == CurrentType
           binary == BinaryFrame(type, Top.height, parser.current)
           precedence == RightOperandPrecedence(type)
           head == HeadFrame(precedence, Top.height + 1)
<1>1. /\ status = "running" /\ Top.fn = "tail" /\ UNCHANGED <<status, chunk, gcObjects>>
      /\ frames' = frames \o <<binary, head>>
  BY DEF CompileTail, Running
<1> SUFFICES ASSUME ~parser'.hadError PROVE LeftOperandsWait(chunk'.code, frames')
  BY AssembleOperands
<1>2. ~parser.hadError
  <2>1. PICK scan \in Scans : source' = source \o scan /\ parser' = CompilerAdvance(parser, scan)
    BY DEF CompileTail
  <2> QED BY <1>1, <2>1, AdvanceOn DEF ScannedOn
<1>3. /\ frames \in Seq(FrameSet) /\ Top \in FrameSet /\ parser.current = Len(source)
      /\ Len(source) \in Nat /\ Len(source) > 0
      /\ type = source[Len(source)].type /\ source[Len(source)] \in AllTokens
  BY <1>1, Situation
<1>4. /\ parser.previous = Len(source) - 1 /\ chunk.code \in Seq(Instructions)
      /\ LeftOperandsWait(chunk.code, frames)
  BY <1>1, <1>2, EvaluatingNow DEF OperandsInv
<1>5. Top.height \in Nat /\ Top.height + 1 \in Nat
  BY <1>3 DEF FrameSet
<1>6. /\ binary \in FrameSet /\ binary.height = Top.height /\ binary.token = Len(source)
  <2>1. type \in TokenTypes \cup {"EOF", "ERROR"}
    BY <1>3, EofAndError
  <2>2. parser.current \in Nat
    BY <1>3
  <2> HIDE DEF type
  <2>4. binary \in FrameSet /\ binary.token = parser.current
    BY <1>5, <2>1, <2>2, OperatorFrames
  <2>3. binary.height = Top.height
    BY DEF BinaryFrame, Frame
  <2> QED BY <1>3, <2>3, <2>4
<1>7. head \in FrameSet /\ head.fn = "head"
  <2>1. precedence \in Precedences
    BY DEF RightOperandPrecedence, PrecedenceOf, Precedences, PRECEDENCE_NONE,
           PRECEDENCE_EQUALITY, PRECEDENCE_COMPARISON, PRECEDENCE_CONCATENATION,
           PRECEDENCE_TERM, PRECEDENCE_FACTOR
  <2> HIDE DEF precedence
  <2> QED BY <1>5, <2>1, FrameTypes
<1> HIDE DEF binary, head, precedence
<1>8. Waits(chunk.code, binary)
  <2> DEFINE code == chunk.code
             left == Len(code)
  <2>1. HeightAfter(code) = Top.height + 1
    BY <1>1, <1>2, HeightNow DEF HeightOnResume, LanguageInv
  <2>2. code # <<>>
    BY <1>5, <2>1 DEF HeightAfter
  <2>3. left \in 1..left /\ left \in Nat
    BY <1>4, <2>2
  <2>4. Leaves(code[left]) = binary.height + 1
    BY <1>6, <2>1, <2>2 DEF HeightAfter, Leaves
  <2>5. code[left].pos < binary.token
    <3>1. code[left].pos <= parser.previous
      BY <2>3 DEF LanguageInv, CompilerInv, PositionsAscend, AscendTo
    <3>2. code[left] \in Instructions
      BY <1>4, <2>3
    <3>3. code[left].pos \in Nat
      BY <3>2 DEF Instructions
    <3> QED BY <1>3, <1>4, <1>6, <3>1, <3>3
  <2>6. \A k \in left + 1..left : FALSE
    BY <2>3
  <2> QED BY <2>3, <2>4, <2>5, <2>6 DEF Waits
<1>9. frames' = Append(Append(frames, binary), head) /\ Append(frames, binary) \in Seq(FrameSet)
  BY <1>1, <1>3, <1>6, <1>7, TwoMore
<1>10. LeftOperandsWait(chunk.code, Append(frames, binary))
  BY <1>3, <1>4, <1>6, <1>8, WaitPushed
<1>11. LeftOperandsWait(chunk.code, frames')
  BY <1>7, <1>9, <1>10, WaitPushed
<1> QED BY <1>1, <1>11

LEMMA HeadKeepsOperands ==
  ASSUME LanguageInv, EvaluationInv, OperandsInv, CompileHead
  PROVE  OperandsInv'
<1> DEFINE token == source[parser.current]
           tail == TailFrame(Top.precedence, Top.height)
<1>1. status = "running" /\ Top.fn = "head"
  BY DEF CompileHead, Running
<1>2. /\ parser.current = Len(source) /\ Len(source) \in Nat /\ Len(source) > 0
      /\ token = source[Len(source)] /\ token \in AllTokens
      /\ frames \in Seq(FrameSet) /\ frames # <<>> /\ Top = frames[Len(frames)] /\ Top \in FrameSet
      /\ parser \in ParserSet(Len(source)) /\ (parser.hadError <=> parser.state # "OK")
      /\ CallChain(frames)
  BY <1>1, Situation, RunningTypes DEF LanguageInv
<1>3. PICK scan \in Scans :
        /\ source' = source \o scan
        /\ CASE Nud(token.type) = "NULL" ->
                  /\ parser' = CompilerErrorAt(CompilerAdvance(parser, scan), "SYNTAX",
                                               parser.current, token.type)
                  /\ frames' = Callers
                  /\ UNCHANGED <<status, chunk, gcObjects>>
             [] Nud(token.type) = "compile_unary_expr" ->
                  /\ parser' = CompilerAdvance(parser, scan)
                  /\ frames' = ReplaceTop(<<tail, UnaryFrame(token.type, Top.height, parser.current),
                                            HeadFrame(PRECEDENCE_UNARY, Top.height)>>)
                  /\ UNCHANGED <<status, chunk, gcObjects>>
             [] Nud(token.type) = "compile_grouping_expr" ->
                  /\ parser' = CompilerAdvance(parser, scan)
                  /\ frames' = ReplaceTop(<<tail, GroupingFrame(Top.height),
                                            HeadFrame(PRECEDENCE_ASSIGNMENT, Top.height)>>)
                  /\ UNCHANGED <<status, chunk, gcObjects>>
             [] OTHER ->
                  /\ parser' = CompilerAdvance(parser, scan)
                  /\ CompileLiteral(token, parser.current)
  BY DEF CompileHead
<1> HIDE DEF token, tail
<1>4. Nud(token.type) # "NULL" /\ ~parser'.hadError => ~parser.hadError
  <2>1. Nud(token.type) # "NULL" => parser' = CompilerAdvance(parser, scan) /\ source' = source \o scan
    BY <1>3, Zenon
  <2> QED BY <1>1, <2>1, AdvanceOn DEF ScannedOn
<1> SUFFICES ASSUME ~parser'.hadError, status' = "running"
             PROVE  LeftOperandsWait(chunk'.code, frames')
  BY AssembleOperands
<1>5. Nud(token.type) # "NULL"
  <2> SUFFICES ASSUME Nud(token.type) = "NULL" PROVE FALSE
    OBVIOUS
  <2> DEFINE q == CompilerAdvance(parser, scan)
  <2>1. parser' = CompilerErrorAt(q, "SYNTAX", parser.current, token.type)
    BY <1>3, Zenon
  <2>2. q \in ParserSet(Len(source \o scan)) /\ (q.hadError <=> q.state # "OK")
    <3>1. TypeOK /\ parser.current > 0
      BY <1>2 DEF LanguageInv, CompilerInv
    <3> QED BY <1>2, <3>1, AdvanceFacts
  <2> HIDE DEF q
  <2>3. parser'.hadError
    BY <2>1, <2>2 DEF CompilerErrorAt, ParserSet
  <2> QED BY <2>3
<1>6. /\ ~parser.hadError /\ FramesPlaced(source, frames) /\ chunk.code \in Seq(Instructions)
      /\ LeftOperandsWait(chunk.code, frames)
  BY <1>1, <1>4, <1>5, EvaluatingNow DEF OperandsInv
<1>7. /\ ReplaceTop(<<tail>>) = Append(Callers, tail) /\ ReplaceTop(<<tail>>) \in Seq(FrameSet)
      /\ tail \in FrameSet /\ tail.fn = "tail" /\ Callers \in Seq(FrameSet)
      /\ Top.height \in Nat /\ Top.precedence \in Precedences
  BY <1>1, HeadReplaced DEF tail
<1>8. LeftOperandsWait(chunk.code, Append(Callers, tail))
  <2>1. LeftOperandsWait(chunk.code, Callers)
    BY <1>2, <1>6, WaitPopped DEF Callers
  <2> QED BY <1>7, <2>1, WaitPushed
<1>9. ASSUME NEW f \in FrameSet, NEW g \in FrameSet, f.fn # "binary", g.fn # "binary",
             frames' = ReplaceTop(<<tail, f, g>>), UNCHANGED chunk
      PROVE  LeftOperandsWait(chunk'.code, frames')
  <2>1. frames' = Append(Append(Append(Callers, tail), f), g)
    BY <1>7, <1>9, ThreeMore DEF ReplaceTop
  <2>2. Append(Callers, tail) \in Seq(FrameSet) /\ Append(Append(Callers, tail), f) \in Seq(FrameSet)
    BY <1>7, <1>9
  <2>3. LeftOperandsWait(chunk.code, Append(Append(Callers, tail), f))
    BY <1>8, <1>9, <2>2, WaitPushed
  <2>4. LeftOperandsWait(chunk.code, Append(Append(Append(Callers, tail), f), g))
    BY <1>9, <2>2, <2>3, WaitPushed
  <2> QED BY <1>9, <2>1, <2>4
<1>10. CASE Nud(token.type) = "compile_unary_expr"
  <2> DEFINE f == UnaryFrame(token.type, Top.height, parser.current)
             g == HeadFrame(PRECEDENCE_UNARY, Top.height)
  <2>1. frames' = ReplaceTop(<<tail, f, g>>) /\ UNCHANGED <<status, chunk, gcObjects>>
    BY <1>3, <1>10, Zenon
  <2>2. f \in FrameSet /\ f.fn = "unary" /\ g \in FrameSet /\ g.fn = "head"
    <3> DEFINE type == token.type
               pos == parser.current
               h == Top.height
    <3>1. type \in TokenTypes \cup {"EOF", "ERROR"}
      BY <1>2, EofAndError
    <3>2. pos \in Nat /\ h \in Nat
      BY <1>2, <1>7
    <3> HIDE DEF type, pos, h
    <3>3. UnaryFrame(type, h, pos) \in FrameSet /\ UnaryFrame(type, h, pos).fn = "unary"
      BY <3>1, <3>2 DEF FrameSet, Frame, UnaryFrame, Precedences
    <3>4. f \in FrameSet /\ f.fn = "unary"
      BY <3>3 DEF type, pos, h
    <3>5. g \in FrameSet /\ g.fn = "head"
      BY <3>2, FrameTypes DEF h
    <3> QED BY <3>4, <3>5
  <2> HIDE DEF f, g
  <2> QED BY <1>9, <2>1, <2>2
<1>11. CASE Nud(token.type) = "compile_grouping_expr"
  <2> DEFINE f == GroupingFrame(Top.height)
             g == HeadFrame(PRECEDENCE_ASSIGNMENT, Top.height)
  <2>1. frames' = ReplaceTop(<<tail, f, g>>) /\ UNCHANGED <<status, chunk, gcObjects>>
    BY <1>3, <1>11, Zenon
  <2>2. f \in FrameSet /\ f.fn = "grouping" /\ g \in FrameSet /\ g.fn = "head"
    BY <1>7, FrameTypes
  <2> HIDE DEF f, g
  <2> QED BY <1>9, <2>1, <2>2
<1>12. CASE Nud(token.type) \in {"compile_invariable_literal", "compile_numeric_literal",
                                 "compile_string_literal"}
  <2>1. CompileLiteral(token, parser.current)
    BY <1>3, <1>12, Zenon
  <2>2. frames' = Append(Callers, tail)
    BY <1>7, <2>1 DEF CompileLiteral, tail
  <2> DEFINE code == chunk.code
             more == chunk'.code
  <2>3. /\ code \in Seq(Instructions) /\ more \in Seq(Instructions)
        /\ Len(more) = Len(code) + 1 /\ \A i \in 1..Len(code) : more[i] = code[i]
        /\ more[Len(code) + 1].pos = Len(source)
        /\ more[Len(code) + 1].height = HeightAfter(code)
        /\ more[Len(code) + 1].op \in ConstantOps \cup InvariableOps
    BY <1>1, <1>2, <1>12, <2>1, LiteralPerformed
  <2>4. HeightAfter(code) = Top.height
    BY <1>1, <1>6, HeightNow DEF HeightOnResume, LanguageInv
  <2> HIDE DEF code, more
  <2>5. Leaves(more[Len(code) + 1]) = frames[Len(frames)].height + 1
    <3>1. more[Len(code) + 1] \in Instructions
      BY <2>3
    <3> QED BY <1>2, <2>3, <2>4, <3>1, LeavesFacts
  <2>6. LeftOperandsWait(code, frames) /\ Pending(source, frames)
    BY <1>6 DEF code, FramesPlaced
  <2>7. more[Len(code) + 1].pos \in Nat /\ more[Len(code) + 1].pos >= Len(source) - 1
    BY <1>2, <2>3
  <2>8. LeftOperandsWait(more, SubSeq(frames, 1, Len(frames) - 1))
    BY <1>2, <2>3, <2>5, <2>6, <2>7, CallersWait
  <2>9. LeftOperandsWait(more, Append(Callers, tail))
    BY <1>7, <2>8, WaitPushed DEF Callers
  <2> QED BY <2>2, <2>9 DEF more
<1> QED BY <1>5, <1>10, <1>11, <1>12, AfterNud

LEMMA InitOperands == CompilerInit => OperandsInv
BY DEF CompilerInit, OperandsInv

LEMMA StartedOperands ==
  ASSUME CompilerStart
  PROVE  OperandsInv'
<1>1. frames' = <<CompileFrame>>
  BY DEF CompilerStart
<1>2. Len(frames') = 1 /\ frames'[1].fn = "compile"
  BY <1>1 DEF CompileFrame, Frame
<1>3. \A i \in 1..Len(frames') : ~Operator(frames'[i])
  BY <1>2 DEF Operator
<1> QED BY <1>3, NoneWaits, AssembleOperands

LEMMA StepOperands ==
  LanguageInv /\ EvaluationInv /\ OperandsInv /\ CompilerStep => OperandsInv'
BY StatementKeepsOperands, EndKeepsOperands, HeadKeepsOperands, TailKeepsOperands,
   TailEndKeepsOperands, OperatorKeepsOperands, GroupingEndKeepsOperands,
   StatementEndKeepsOperands DEF CompilerStep

LEMMA OperandsKept ==
  OperandsInv /\ UNCHANGED <<source, sourceId, parser, frames, status, chunk, gcObjects>>
    => OperandsInv'
BY DEF OperandsInv

(* Both together are inductive, given LanguageInv.                         *)
LEMMA NextEvaluation ==
  LanguageInv /\ EvaluationInv /\ OperandsInv /\ [Next]_vars => EvaluationInv' /\ OperandsInv'
BY StartedEvaluation, StepEvaluation, EvaluationKept, StartedOperands, StepOperands, OperandsKept
   DEF Next, vars, compilerVars

(* What every successful compilation performs, in which order and on which *)
(* operands: precedence, associativity, prefix operators and parentheses,  *)
(* for every source.                                                       *)
THEOREM CompilerEvaluatesInOrder == Spec => []EvaluatesInOrder
<1>1. Init => EvaluationInv /\ OperandsInv
  BY InitEvaluation, InitOperands DEF Init
<1>2. EvaluationInv => EvaluatesInOrder
  BY DEF EvaluationInv
<1> QED BY <1>1, <1>2, CompilerLanguage, NextEvaluation, PTL DEF Spec
=============================================================================
