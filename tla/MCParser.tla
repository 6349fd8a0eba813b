------------------------------ MODULE MCParser ------------------------------
(***************************************************************************)
(* The parser on every source up to a length, also against what a source   *)
(* is read to mean, defined without a parser.                              *)
(***************************************************************************)
EXTENDS BFParser

CONSTANT MCLength   \* every source up to this length is parsed ...

\* ... over these characters.
MCCharacters == {">", "<", "+", ".", "[", "]", "\n"}

Chars(string) == [i \in 1 .. Len(string) |-> SubSeq(string, i, i)]

\* The instructions and a comment character the exhaustive part leaves out.
LongStrings == {"+-", "-+-", "-><-.,", ",[-].", "+x-", "[->+<],", "[[].]+[", "..,.,", "[.,.]..."}

MCSources == UNION {[1 .. n -> MCCharacters] : n \in 0 .. MCLength}
               \union {Chars(s) : s \in LongStrings}

InstructionsOf(text) == SelectSeq(text, IsInstruction)
-----------------------------------------------------------------------------
(* What has been read is what has been built.                              *)

Undoes(a, b) == {a, b} \in {{">", "<"}, {"+", "-"}}

\* The text with neighbours that undo each other removed, until none is left.
RECURSIVE Cancelled(_)
Cancelled(text) ==
  LET pairs == {i \in 1 .. Len(text) - 1 : Undoes(text[i], text[i + 1])}
  IN  IF pairs = {} THEN text
      ELSE Cancelled(LET i == Least(pairs) IN RemoveAt(RemoveAt(text, i), i))

RECURSIVE Written(_)
WrittenNode(n) ==
  LET repeated(up, down) == [k \in 1 .. (IF n.arg > 0 THEN n.arg ELSE -n.arg) |->
                               IF n.arg > 0 THEN up ELSE down]
  IN  CASE n.kind = "ADD_PTR"  -> repeated(">", "<")
        [] n.kind = "ADD_DATA" -> repeated("+", "-")
        [] n.kind = "OUTPUT"   -> <<".">>
        [] n.kind = "INPUT"    -> <<",">>
        [] n.kind = "LOOP"     -> <<"[">> \o Written(n.body) \o <<"]">>
Written(nodes) == FlattenSeq([i \in DOMAIN nodes |-> WrittenNode(nodes[i])])

\* The blocks on the stack, written out, are the source read so far with the
\* moves and increments that cancel out removed: nothing is lost, reordered or
\* merged across another instruction.
BuiltFromSource ==
  Parsing =>
    LET blocks == [i \in 1 .. Depth |->
                     (IF i = 1 THEN <<>> ELSE <<"[">>) \o Written(frames[i].nodes)]
        read   == SubSeq(source, 1, current.loc.offset)
    IN  FlattenSeq(blocks) = Cancelled(InstructionsOf(read))

\* Parsing ends, with every allocation outcome.
Answers == <>Ended
=============================================================================
