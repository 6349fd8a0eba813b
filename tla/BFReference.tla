----------------------------- MODULE BFReference -----------------------------
(***************************************************************************)
(* What a Brainf_ck program means: the machine of benchmark/bf.c, which    *)
(* executes the instructions one by one.  Read by TLC only.                *)
(*                                                                         *)
(* That machine does no bounds checks.  Here a run that touches a cell off *)
(* the tape, or that ends with its pointer off the tape, is a fault: it    *)
(* has no meaning, and bfjit may stop with an error.                       *)
(***************************************************************************)
EXTENDS BFSource

CONSTANT RefSize        \* cells of the tape

\* Where the bracket at i has its partner (the bracket table).
Match(program, i) ==
  LET depth(k) == FoldLeft(LAMBDA sum, ch : sum + CASE ch = "[" -> 1 [] ch = "]" -> -1
                                                    [] OTHER -> 0,
                           0, SubSeq(program, 1, k))
  IN  IF program[i] = "["
      THEN Least({j \in i + 1 .. Len(program) : depth(j) = depth(i) - 1})
      ELSE Greatest({j \in 1 .. i - 1 : program[j] = "[" /\ depth(j) = depth(i) + 1})

RefStart(stdin, tape, dp) ==
  [ip |-> 1, dp |-> dp, tape |-> tape, input |-> stdin, io |-> <<>>]

RefStep(program, m) ==    \* one turn of the loop over the instructions
  LET ch   == program[m.ip]
      cell == m.tape[m.dp]
      next == [m EXCEPT !.ip = @ + 1]
      byte == IF m.input = <<>> THEN EofByte ELSE Head(m.input)
  IN  CASE ch = ">" -> [next EXCEPT !.dp = @ + 1]
        [] ch = "<" -> [next EXCEPT !.dp = @ - 1]
        [] ch = "+" -> [next EXCEPT !.tape[m.dp] = Byte(@ + 1)]
        [] ch = "-" -> [next EXCEPT !.tape[m.dp] = Byte(@ - 1)]
        [] ch = "." -> [next EXCEPT !.io = Append(@, <<"write", cell>>)]
        [] ch = "," -> [next EXCEPT !.tape[m.dp] = byte,
                                    !.input = IF @ = <<>> THEN @ ELSE Tail(@),
                                    !.io = Append(@, <<"read", byte>>)]
        [] ch = "[" -> IF cell = 0 THEN [m EXCEPT !.ip = Match(program, @) + 1] ELSE next
        [] ch = "]" -> IF cell # 0 THEN [m EXCEPT !.ip = Match(program, @) + 1] ELSE next
        [] OTHER -> next

OffTape(dp) == dp \notin 0 .. RefSize - 1

TouchesCell(ch) == ch \in Instructions \ {">", "<"}

\* The outcome after at most fuel instructions: "unknown" when it is not enough.
RECURSIVE RefRun(_, _, _)
RefRun(program, m, fuel) ==
  LET ended == m.ip > Len(program)
      stop(ending) == [ending |-> ending, io |-> m.io, tape |-> m.tape, pointer |-> m.dp]
  IN  IF ended THEN stop(IF OffTape(m.dp) THEN "fault" ELSE "done")
      ELSE IF TouchesCell(program[m.ip]) /\ OffTape(m.dp) THEN stop("fault")
      ELSE IF fuel = 0 THEN stop("unknown")
      ELSE RefRun(program, RefStep(program, m), fuel - 1)

BlankTape == [i \in 0 .. RefSize - 1 |-> 0]

Meaning(program, stdin, fuel) == RefRun(program, RefStart(stdin, BlankTape, 0), fuel)
=============================================================================
