---------------------------- MODULE MCOptimizer ----------------------------
(***************************************************************************)
(* The optimiser on every small program and a few longer ones.  What a     *)
(* block of nodes does is defined here, node by node, for any tape and     *)
(* pointer it may be entered with; no pass may change it.                  *)
(***************************************************************************)
EXTENDS BFOptimizer, BFSource

CONSTANTS
  MCLength,   \* every well-formed program up to this length is optimised
  MCTape      \* cells of the tapes the programs are compared on

VARIABLE effect    \* what the program did before it was optimised

mcVars == <<vars, effect>>

Chars(string) == [i \in 1 .. Len(string) |-> SubSeq(string, i, i)]

LongStrings == {
  "[->[-]>[-]<<]", "[+>[+]<]", "[->>+<+<]", "[+>-<]", "[->+>+<-<]",
  "[-]++[-]-", "[-]>[-]<[-]", "[-]>[-]>[-]<", "[-],", "[-]>[-]<,", "[-]>,<.[-]",
  "[>]<[<]", "[>>]<<[<<]", ".[>]<[<]", "[[-]]", "[[->+<]]", "[[->+<].]",
  "[>[-]<[-]]", "[.[-]]", "[,[-]]", "[[-],]", "[[-]+]", "[>[-<+>]<[-]]", "[>+<[-]]",
  "[[-]>[-]<]", "[>[-]+<-]", "[[-]++]", "[++]", "[--]+", "[>[->+<]<[-]]",
  "[>[-<+>]<]", "[-[>]<[<]]", "[+>]>+[-]", "[[-]>[->+<]<]", "+[[[-]]]",
  "[-]+<[-]<[-].>,", "[<[-]<[-].>[-]]", "[[-]<[-].>]"}

ShortAlphabet == {">", "<", "+", "-", ".", "[", "]"}

Depths(text) ==
  FoldLeft(LAMBDA sum, ch : CASE sum < 0 -> sum [] ch = "[" -> sum + 1
                              [] ch = "]" -> sum - 1 [] OTHER -> sum,
           0, text)

MCSources == {text \in UNION {[1 .. n -> ShortAlphabet] : n \in 0 .. MCLength} :
                Depths(text) = 0 /\ (Contains(text, "[") \/ Len(text) <= 2)}
               \union {Chars(s) : s \in LongStrings}

MCPrograms == {ParseSource(text) : text \in MCSources}
-----------------------------------------------------------------------------
(* What a block does.                                                      *)

OnTape(dp) == dp \in 0 .. MCTape - 1

MCBytes == <<1, 0, 2>>    \* stdin

Fails(m)  == [m EXCEPT !.ending = "fault", !.tape = <<>>, !.dp = 0]
Moves(m, d) == IF OnTape(m.dp + d) THEN [m EXCEPT !.dp = @ + d] ELSE Fails(m)
Writes(m, v) == [m EXCEPT !.tape[m.dp] = Byte(v)]

Scans(m, step) ==
  LET stops == {k \in 0 .. MCTape - 1 : /\ OnTape(m.dp + k * step)
                                        /\ m.tape[m.dp + k * step] = 0}
  IN  IF stops = {} THEN IF step = 0 THEN [m EXCEPT !.ending = "diverges"] ELSE Fails(m)
      ELSE [m EXCEPT !.dp = @ + Least(stops) * step]

\* The terms are applied one after the other, as the loop over them does.
AllOnTape(m, terms) == \A i \in DOMAIN terms : OnTape(m.dp + terms[i].offset)

Zeroes(m, terms) ==
  IF ~AllOnTape(m, terms) THEN Fails(m)
  ELSE FoldLeft(LAMBDA acc, t : [acc EXCEPT !.tape[m.dp + t.offset] = 0], m, terms)

Multiplies(m, terms) ==
  IF ~AllOnTape(m, terms) THEN Fails(m)
  ELSE Writes(FoldLeft(LAMBDA acc, t : [acc EXCEPT !.tape[m.dp + t.offset] =
                                          Byte(@ + m.tape[m.dp] * t.factor)],
                       m, terms), 0)

RECURSIVE Runs(_, _)
RECURSIVE Loops(_, _, _)

\* A node whose effect is given; NONNULL promises a nonzero counter.
Does(n, m) ==
  LET byte == IF m.input = <<>> THEN EofByte ELSE Head(m.input)
      zeroed == Zeroes(m, n.terms)
  IN  CASE n.kind = "ADD_PTR"    -> Moves(m, n.arg)
        [] n.kind = "ADD_DATA"   -> Writes(m, m.tape[m.dp] + n.arg)
        [] n.kind = "SET_ZERO"   -> Writes(m, 0)
        [] n.kind = "SET_CONST"  -> Writes(m, n.arg)
        [] n.kind = "OUTPUT"     -> [m EXCEPT !.io = Append(@, <<"write", m.tape[m.dp]>>)]
        [] n.kind = "INPUT"      -> [Writes(m, byte) EXCEPT
                                       !.io = Append(@, <<"read", byte>>),
                                       !.input = IF @ = <<>> THEN @ ELSE Tail(@)]
        [] n.kind = "SCAN"       -> Scans(m, n.arg)
        [] n.kind = "MULTI_ZERO" -> IF zeroed.ending = "" THEN Moves(zeroed, n.arg)
                                    ELSE zeroed
        [] n.kind \in MultiplyKinds ->
             IF m.tape[m.dp] = 0
             THEN IF n.kind = "MULTIPLY_LOOP" THEN m ELSE [m EXCEPT !.ending = "wrong"]
             ELSE Multiplies(m, n.terms)
        [] n.kind = "IF"   -> IF m.tape[m.dp] = 0 THEN m ELSE Runs(n.body, m)
        [] n.kind = "LOOP" -> Loops(n.body, m, {})

Runs(block, m) ==
  FoldLeft(LAMBDA acc, n : IF acc.ending = "" THEN Does(n, acc) ELSE acc, m, block)

\* A loop that comes back to where it has been never ends.
Loops(body, m, been) ==
  LET at == <<m.tape, m.dp, m.input>>
  IN  IF m.ending # "" \/ m.tape[m.dp] = 0 THEN m
      ELSE IF at \in been THEN [m EXCEPT !.ending = "diverges"]
      ELSE Loops(body, Runs(body, m), been \union {at})

\* What can be told apart of a run: how it ends and what it wrote before; of
\* one that does not end, only that.
Outcome(block, tape, dp) ==
  LET end == Runs(block, [tape |-> tape, dp |-> dp, input |-> MCBytes, io |-> <<>>,
                          ending |-> ""])
  IN  CASE end.ending = ""      -> end
        [] end.ending = "fault" -> [ending |-> "fault", io |-> end.io]
        [] OTHER                -> [ending |-> end.ending]

Effect(block) ==
  [tape \in [0 .. MCTape - 1 -> Cell], dp \in 0 .. MCTape - 1 |-> Outcome(block, tape, dp)]

MCInit == Init /\ effect = Effect(original)
MCNext == Next /\ UNCHANGED effect
MCSpec == MCInit /\ [][MCNext]_mcVars /\ WF_mcVars(Step /\ UNCHANGED effect)
-----------------------------------------------------------------------------
\* A run that faulted may fault later, or not at all when the access that was
\* off the tape is itself removed; what it wrote before is kept.
StillFaults(old, new) ==
  old.ending = "fault" /\ (new.ending = "diverges" \/ IsPrefix(old.io, new.io))

\* No pass changes what the program does, on any tape and from any pointer, nor
\* does any allocation that failed in between: no error appears, no event is
\* lost, no loop becomes endless or is cut short.
MeaningKept ==
  LET now == Effect(Rebuilt)
  IN  \A start \in DOMAIN effect :
        now[start] = effect[start] \/ StillFaults(effect[start], now[start])

\* The optimiser comes to an end.
Optimizes == <>(~Optimizing)
=============================================================================
