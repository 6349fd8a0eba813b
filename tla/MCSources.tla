------------------------------ MODULE MCSources ------------------------------
(***************************************************************************)
(* The source programs that are run, parsed and optimised, by the          *)
(* interpreter (MCRuntime) and natively (MCNative).                        *)
(***************************************************************************)
EXTENDS BFPasses, BFReference

CONSTANTS
  ShortLength,  \* every well-formed program up to this length is run
  Fuel          \* instructions after which the reference machine is given up

Chars(string) == [i \in 1 .. Len(string) |-> SubSeq(string, i, i)]

Depth(source) ==
  FoldLeft(LAMBDA sum, ch : CASE sum < 0 -> sum
                              [] ch = "[" -> sum + 1
                              [] ch = "]" -> sum - 1
                              [] OTHER -> sum,
           0, source)

ShortSources == {source \in UNION {[1 .. n -> Instructions] : n \in 0 .. ShortLength} :
                   Depth(source) = 0}

\* Longer programs, for the nodes short ones do not produce.
LongStrings == {
  ">+>+>+[<]>.[-]>.",              \* scans to the left
  ">>+>>+[<<]>.",
  "+>+>++<<[>]<.[>>]",             \* scan right, by one and by two
  "+>>>>+<<<<[>>>>].",             \* a scan by four runs off the tape
  "++>>>>+<<<<[>>>>]+.",
  "+>+>+<<[>]",                    \* scan stops on the first zero
  "+>+>+>+>+>+[>]",                \* and one with no zero to stop on
  "+>+>+>+>+>+[<]",
  "+>+<[>[-]<-]>.",                \* a loop that zeroes another cell
  "++[->+++>-<<]>.>.",             \* multiply, with a wrapping product
  "+[+>+<]>.",                     \* counting up: the factors are negated
  "+++[->+>+<<]>>[-<<+>>]<<.",     \* copy and move back
  "+[<+>-]",                       \* multiply off either end of the tape
  ">>>>>+[->+<]",
  "[-]>[-]>[-]<<.",                \* several cells zeroed together
  ">>>>[-]>[-]>[-]",               \* off the upper end
  "[-]<[-]",
  ">[-]<[-]<[-]",
  "+[[-]>[-]<]",                   \* a loop that runs once
  "+[[->+<]>.<]",                  \* entered with a nonzero counter
  "++>++<[[->+<]>>+<<]>.",
  ">[[->+<]>.<].",                 \* not entered
  "+[>[->+<]<[-]]",                \* entered with any counter
  "+[[-].,]",                      \* runs again if the input says so
  "+[.+]",
  "+[>,]<.",
  ",[.,+]",
  ",[.-]+[,.]",
  "[-]++.[-]-.,",
  "+[>+[>+.[-]<-]<-]",             \* nested loops
  ">+[[-]<]+[<+[-]]",
  "++[>+[-<+>]<--]",
  "-[->>+<<[>+>-<<-]]>.>."}

Sources == ShortSources \union {Chars(s) : s \in LongStrings}

\* For the native code of one node kind or another, at a pending offset and without.
NativeStrings == {
  "+>>>>+>>>>+>>>>+[<<<<]>.",      \* a scan by four backwards
  "+[>>>>]+.",                     \* found at +4, +8 and +12 ...
  "+>>>>+<<<<[>>>>]+.",
  "+>>>>+>>>>+<<<<<<<<[>>>>]+.",
  "+>>>>+>>>>+>>>>+<<<<<<<<<<<<[>>>>]+.",   \* ... after a turn of four
  ">>>>>>>+[>>>>]+.",              \* near the end, cell by cell
  "->>>>->>>>->>>>->>>>-[<<<<]",
  ">+>>>>+>>>>+>>>>+>>>>+<<<<<<<<<<<<<<<<[>>>>].",   \* off the tape
  ">>>>>>+>>>>+>>>>+<<<<<<<<[>>>>].",
  "+[>>>>>>>>>].",                 \* by nine, which may start at an offset
  ">>+[>>>>>>>>>].",
  "+>>>>>>>>>+[<<<<<<<<<].",
  ".>>>>>>>>>>+>>>>>>>>.<<<<<<<<[>>>>>>>>>].",
  ">>>>>>>>>>>>>>>>>>.",           \* pointers at the end of the tape
  ">>>>>>>>>>>>>>>>>.>.",
  ">>>>>>>>>>>>>>>>>,<.>>,",
  ".<.", ".<,", ".<+", ",<[-].", ".>+<<[->+<]",
  "+>+<.>[-<+>]<.",                \* multiply loops at an offset
  ">++<.>[->+++<]>.",
  ".>[->>>>>>>>>>>>>>>>>>+<].",    \* far, with a counter that is zero
  "+[->>>>>>>>>>>>>>>>>>+<<<<<<<<<<<<<<<<<<].",
  ".<[-]>[-]<[-].",
  "+>+.>[-]>[-]<[-]<.",            \* several zeroed behind a pending move
  "+.>+[>+.<-]<.",                 \* loops and ifs at an offset
  "+.>,[.[-]]<.",
  "+.>,[[.-]>+<]<.",
  ".>+[<+>[-]]<.",
  "++.>+[-.<-]>.",
  "+[>++[-.]<-]",
  "+[>+>].",                       \* a body that ends with a move
  ".>+-+.<-+>++.-.+"}

\* Loops at an offset, whose code is longer than the hints it is estimated by.
DenseProgram == Chars(".>") \o FlattenSeq([k \in 1 .. 7 |-> Chars("+[.-]")])

NativeSources == Sources \union {Chars(s) : s \in NativeStrings} \union {DenseProgram}

Optimized(source) == OptimizeBlock(ParseSource(source))

ReadsInput(source) == Contains(source, ",")
=============================================================================
