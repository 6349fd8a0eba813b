------------------------------ MODULE BFSource ------------------------------
(***************************************************************************)
(* From characters to nodes: the lexer (bflexer.c) and what the parser     *)
(* (bfparser.c) does to a block for one token, as operators.  BFParser is  *)
(* the parser itself, with its stack, its memory and its errors.           *)
(*                                                                         *)
(* A character is an instruction, "\n", or anything else (a comment).      *)
(***************************************************************************)
EXTENDS BFIR, SequencesExt

Instructions == {">", "<", "+", "-", ".", ",", "[", "]"}    \* bf_is_inst

IsInstruction(ch) == ch \in Instructions

\* A position in the source: bf_src_loc, and the lexer's own three counters.
LexerStart == [offset |-> 0, line |-> 1, column |-> 1]

\* Mutant: a line break is one more column.
AdvanceColumn(at, ch) == [at EXCEPT !.offset = @ + 1, !.column = @ + 1]

\* bf_lexer_adv
Advance(at, ch) ==
  IF ch = "\n" THEN [offset |-> at.offset + 1, line |-> at.line + 1, column |-> 1]
  ELSE [at EXCEPT !.offset = @ + 1, !.column = @ + 1]

AdvanceTo(source, at, offset) == FoldLeft(Advance, at, SubSeq(source, at.offset + 1, offset))

\* bf_lexer_next: the token at or after a position, and the position behind it.
Lex(source, at) ==
  LET ahead == {k \in at.offset + 1 .. Len(source) : IsInstruction(source[k])}
      found == Least(ahead)
      end   == AdvanceTo(source, at, Len(source))
  IN  IF ahead = {} THEN [token |-> [kind |-> "eof", loc |-> end], after |-> end]
      ELSE LET loc == AdvanceTo(source, at, found - 1)
           IN  [token |-> [kind |-> source[found], loc |-> loc],
                after |-> Advance(loc, source[found])]
-----------------------------------------------------------------------------
DeltaTokens == {">", "<", "+", "-"}
IoTokens    == {".", ","}

DeltaKind(token) == IF token \in {">", "<"} THEN "ADD_PTR" ELSE "ADD_DATA"
Delta(token)     == IF token \in {">", "+"} THEN 1 ELSE -1
IoNode(token)    == Plain(IF token = "." THEN "OUTPUT" ELSE "INPUT", 0)

\* Mutant: increments are added to moves.
MergesAnyDelta(nodes, kind) == nodes # <<>> /\ nodes[Len(nodes)].kind \in DeltaKinds

\* The token is added to the block's last node, no new node is needed.
Merges(nodes, kind) == nodes # <<>> /\ nodes[Len(nodes)].kind = kind

\* Mutant: a node whose sum is zero stays.
AppendDeltaKept(nodes, kind, delta) ==
  IF ~Merges(nodes, kind) THEN Append(nodes, Plain(kind, delta))
  ELSE [nodes EXCEPT ![Len(nodes)].arg = @ + delta]

\* bf_ir_block_append_delta: into the last node if that is of the same kind; a
\* node whose sum becomes zero is dropped.
AppendDelta(nodes, kind, delta) ==
  LET last == Len(nodes)
  IN  IF ~Merges(nodes, kind) THEN Append(nodes, Plain(kind, delta))
      ELSE IF nodes[last].arg + delta = 0 THEN SubSeq(nodes, 1, last - 1)
      ELSE [nodes EXCEPT ![last].arg = @ + delta]

\* One token, on the stack of the blocks being parsed.
Consume(blocks, token) ==
  LET depth == Len(blocks)
  IN  CASE token \in DeltaTokens ->
             [blocks EXCEPT ![depth] = AppendDelta(@, DeltaKind(token), Delta(token))]
        [] token \in IoTokens -> [blocks EXCEPT ![depth] = Append(@, IoNode(token))]
        [] token = "[" -> Append(blocks, <<>>)
        [] token = "]" -> [SubSeq(blocks, 1, depth - 1) EXCEPT
                             ![depth - 1] = Append(@, Loop(blocks[depth]))]
        [] OTHER -> blocks

\* The root block of a well-formed source: what bf_parse_src builds when no
\* allocation fails.
ParseSource(source) == FoldLeft(Consume, <<<<>>>>, source)[1]
=============================================================================
