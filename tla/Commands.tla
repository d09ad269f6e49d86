------------------------------ MODULE Commands ------------------------------
(***************************************************************************)
(* What a line of text makes the firmware do: the table of commands and    *)
(* the parsing of their arguments (Src/common/taskManager.c), with the     *)
(* conversions of stringFunctions.c and taskManagerUtils.c they use.       *)
(*                                                                         *)
(* A text is a sequence of characters.  Those of a number, a list or a     *)
(* range are modelled one by one, because the conversions work on them;    *)
(* the letters of a name only as far as one name differs from another.     *)
(* A call says which function gets which arguments; [fn |-> "error"] is a  *)
(* message and no effect.                                                  *)
(*                                                                         *)
(* Texts the code cannot cope with are not in the domain of these          *)
(* operators: letters between brackets, numbers of more than three digits  *)
(* in a list (nr[4]), more than 127 characters between brackets (3 for     *)
(* NPENGINE), ranges whose bounds are reversed, the range 0-255, more      *)
(* than N_LAMPS lamps in a list, and 255 in the list of a color command.   *)
(***************************************************************************)
EXTENDS Integers, Sequences, FiniteSets, SequencesExt

CONSTANTS
  N,        \* N_LAMPS
  Range32   \* 2^32

ASSUME NAssumption == N \in 1..254
ASSUME RangeAssumption == Range32 \in Nat \ {0}

AllLamps == 255
Lamps == 0..(N - 1)

-----------------------------------------------------------------------------
(* The table of commands.                                                  *)

colorCommands == <<
  <<"BACKGROUND">>, <<"FOREGROUND">>, <<"R", "ED">>, <<"GR", "EEN">>, <<"D", "ARK", "BLUE">>,
  <<"L", "IGHTBLUE">>, <<"M", "AGENTA">>, <<"YELLOW">>, <<"ORANGE">>, <<"PURPLE">>,
  <<"YELLOW", "GR", "EEN">>, <<"M", "EDIUMBLUE">>, <<"D", "ARK", "YELLOW">>, <<"A", "QUA">>,
  <<"D", "ARK", "PURPLE">>, <<"GR", "AY">> >>

otherCommands == <<
  [name |-> <<"R", "GB">>,        fct |-> "rgb"],
  [name |-> <<"NPENGINE">>,       fct |-> "engine"],
  [name |-> <<"S", "T", "ART">>,  fct |-> "start"],
  [name |-> <<"S", "T", "OP">>,   fct |-> "stop"],
  [name |-> <<"S", "AVE">>,       fct |-> "save"],
  [name |-> <<"L", "OAD">>,       fct |-> "load"],
  [name |-> <<"I", "NTERP">>,     fct |-> "interp"],
  [name |-> <<"I", "STEP">>,      fct |-> "istep"],
  [name |-> <<"D", "ES", "CI">>,  fct |-> "desci"],
  [name |-> <<"D", "ES", "TROY">>, fct |-> "destroy"],
  [name |-> <<"A", "PI">>,        fct |-> "api"],
  [name |-> <<"CONSOLE">>,        fct |-> "console"],
  [name |-> <<"S", "ETUPBT">>,    fct |-> "setupbt"],
  [name |-> <<"S", "YSINFO">>,    fct |-> "sysinfo"],
  [name |-> <<"HELP">>,           fct |-> "help"] >>

userCommands ==
  [k \in DOMAIN colorCommands |-> [name |-> colorCommands[k], fct |-> "color"]] \o otherCommands

\* compares up to the end of the shorter text
startsWith(ptrn, target) == \A k \in DOMAIN ptrn \cap DOMAIN target : ptrn[k] = target[k]

-----------------------------------------------------------------------------
(* Conversions.                                                            *)

\* those of the elements that pass the test
Kept(seq, Test(_)) ==
  FoldLeft(LAMBDA kept, c : IF Test(c) THEN Append(kept, c) ELSE kept, << >>, seq)

Digits == <<"0", "1", "2", "3", "4", "5", "6", "7", "8", "9">>

\* chr[cnt] - 0x30, for any character the conversions meet
Value(c) ==
  CASE c \in ToSet(Digits) -> CHOOSE d \in 0..9 : Digits[d + 1] = c
    [] c = "-" -> -3
    [] c = "," -> -4
    [] c = "(" -> -8
    [] c = " " -> -16

ToUInt(text, range) == FoldLeft(LAMBDA res, c : (10 * res + Value(c)) % range, 0, text)
toUInt8(text) == ToUInt(text, 256)
toUInt32(text) == ToUInt(text, Range32)

\* what follows the first opening bracket, without closing ones; nothing if
\* there is none
getBracketContent(cmd) ==
  LET open == SelectInSeq(cmd, LAMBDA c : c = "(")
  IN IF open = 0 THEN << >>
     ELSE Kept(SubSeq(cmd, open + 1, Len(cmd)), LAMBDA c : c # ")")

\* the fields successive calls of strtok(.., ",") return
Fields(text) ==
  LET Add(fields, c) == IF c = "," THEN Append(fields, << >>)
                        ELSE [fields EXCEPT ![Len(fields)] = Append(@, c)]
  IN Kept(FoldLeft(Add, << << >> >>, text), LAMBDA field : field # << >>)

\* what strtok(0, "") returns after k fields; nothing stands for null
AfterFields(text, k) ==
  LET ends == {p \in DOMAIN text :
                 text[p] = "," /\ Len(Fields(SubSeq(text, 1, p - 1))) = k}
  IN IF ends = {} THEN << >> ELSE SubSeq(text, Min(ends) + 1, Len(text))

stripWhitespaces(text) == Kept(text, LAMBDA c : c # " ")

expandRange(text) ==
  LET dash == SelectInSeq(text, LAMBDA c : c = "-")
  IN IF dash = 0 THEN <<toUInt8(text)>>
     ELSE LET lowerBound == toUInt8(SubSeq(text, 1, dash - 1))
              upperBound == toUInt8(SubSeq(text, dash + 1, Len(text)))
          IN [c \in 1..(upperBound - lowerBound + 1) |-> lowerBound + c - 1]

\* the new element is taken down to its place by exchanging neighbours
Settled(res) ==
  FoldLeft(LAMBDA r, c : IF r[c - 1] > r[c]
                           THEN [r EXCEPT ![c - 1] = r[c], ![c] = r[c - 1]] ELSE r,
           res, Reverse([c \in 1..(Len(res) - 1) |-> c + 1]))

\* bsearch, by halves; right if res is in order
Bsearch(res, v) ==
  LET Half[part \in (1..(Len(res) + 1)) \X (0..Len(res))] ==
        LET mid == (part[1] + part[2]) \div 2
        IN /\ part[1] <= part[2]
           /\ \/ res[mid] = v
              \/ res[mid] < v /\ Half[<<mid + 1, part[2]>>]
              \/ res[mid] > v /\ Half[<<part[1], mid - 1>>]
  IN Half[<<1, Len(res)>>]

Inserted(res, v) == IF Bsearch(res, v) THEN res ELSE Settled(Append(res, v))

expandLampDescription(description) ==
  FoldLeft(Inserted, << >>,
           FlattenSeq([k \in DOMAIN Fields(stripWhitespaces(description)) |->
                         expandRange(Fields(stripWhitespaces(description))[k])]))

checkLampRange_oneMore(lampnr) == lampnr <= N \/ lampnr = AllLamps
checkLampRange(lampnr) == lampnr < N \/ lampnr = AllLamps

-----------------------------------------------------------------------------
(* The commands.                                                           *)

Error == [fn |-> "error"]

Selected(lampnr) == IF lampnr = AllLamps THEN Lamps ELSE {lampnr}

PaintCall(color, lampnrs) ==
  [fn |-> "paint", color |-> color, lamps |-> lampnrs]

\* lamps out of range are reported and left out
Painted(color, description) ==
  PaintCall(color, Kept(expandLampDescription(description), checkLampRange))

\* of the names that match the last counts
colorIndex_first(cmd) == Min({k \in DOMAIN colorCommands : startsWith(cmd, colorCommands[k])})
colorIndex(cmd) == Max({k \in DOMAIN colorCommands : startsWith(cmd, colorCommands[k])})

colorCommand(cmd) == Painted(<<colorIndex(cmd)>>, getBracketContent(cmd))

rgbCommand(cmd) ==
  LET content == getBracketContent(cmd)
      var == Fields(content)
  IN IF Len(var) < 3 \/ AfterFields(content, 3) = << >> THEN Error
     ELSE Painted([k \in 1..3 |-> toUInt8(var[k])], AfterFields(content, 3))

InterpCall(lampnr, nsteps, repeating) ==
  [fn |-> "interp", lamps |-> Selected(lampnr), nsteps |-> nsteps, repeating |-> repeating]

interpCommand(cmd) ==
  LET var == Fields(getBracketContent(cmd))
      lampnr == toUInt8(var[1])
      nsteps == toUInt8(var[2])
      repeating == toUInt8(var[3])
  IN IF \/ Len(var) < 3
        \/ ~checkLampRange(lampnr)
        \/ repeating > 1
        \/ repeating = 1 /\ nsteps = 1
     THEN Error
     ELSE InterpCall(lampnr, nsteps, repeating = 1)

IstepCall(color, frames, fade, lampnr, step) ==
  [fn |-> "istep", color |-> color, frames |-> frames, fade |-> fade,
   lamps |-> Selected(lampnr), step |-> step]

istepCommand(cmd) ==
  LET var == Fields(getBracketContent(cmd))
      interpolation == toUInt8(var[5])
      lampnr == toUInt8(var[6])
  IN IF Len(var) < 7 \/ interpolation > 1 \/ ~checkLampRange(lampnr)
     THEN Error
     ELSE IstepCall([k \in 1..3 |-> toUInt8(var[k])], toUInt32(var[4]),
                    interpolation = 1, lampnr, toUInt8(var[7]))

\* an empty argument counts as 0 for DESTROY and NPENGINE
destroyCommand(cmd) ==
  LET lampnr == toUInt8(getBracketContent(cmd))
  IN IF checkLampRange(lampnr) THEN [fn |-> "destroy", lamps |-> Selected(lampnr)] ELSE Error

npEngineCommand(cmd) ==
  LET engineflag == toUInt8(getBracketContent(cmd))
  IN IF engineflag <= 1 THEN [fn |-> "engine", on |-> engineflag = 1] ELSE Error

callUserFunction(fct, cmd) ==
  CASE fct = "color" -> colorCommand(cmd)
    [] fct = "rgb" -> rgbCommand(cmd)
    [] fct = "interp" -> interpCommand(cmd)
    [] fct = "istep" -> istepCommand(cmd)
    [] fct = "destroy" -> destroyCommand(cmd)
    [] fct = "engine" -> npEngineCommand(cmd)
    [] OTHER -> [fn |-> fct]

\* the entries of the table that match; the first is called
Matching(cmd) == {k \in DOMAIN userCommands : startsWith(cmd, userCommands[k].name)}
Called(cmd) == userCommands[Min(Matching(cmd))].fct

handleCommand(cmd) ==
  CASE cmd = << >> -> [fn |-> "nothing"]
    [] cmd # << >> /\ Matching(cmd) = {} -> Error
    [] OTHER -> callUserFunction(Called(cmd), cmd)

-----------------------------------------------------------------------------
(* The domain of the proofs about the commands.                            *)

\* the characters the conversions have a value for, and the comma
Known == ToSet(Digits) \union {"-", ",", "(", " "}

\* The list fits into lampnrs, which has N_LAMPS entries and is written without
\* a test, and does not contain 255, which checkLampRange would let pass.
Fits(description) ==
  /\ Len(expandLampDescription(description)) <= N
  /\ AllLamps \notin ToSet(expandLampDescription(description))

\* no letters between the brackets, and a list of lamps that fits
Copes(cmd) ==
  LET content == getBracketContent(cmd)
  IN /\ ToSet(content) \subseteq Known
     /\ Matching(cmd) # {} =>
          /\ Called(cmd) = "color" => Fits(content)
          /\ Called(cmd) = "rgb" => Fits(AfterFields(content, 3))
=============================================================================
