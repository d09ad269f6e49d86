-------------------------------- MODULE Api --------------------------------
(***************************************************************************)
(* One interface of the lamp and what is typed or sent to it: in API mode  *)
(* characters are collected until carriage return (Src/common/             *)
(* apiHandler.c), in console mode the line editor hands over whole lines   *)
(* (module Console).  Either way the line goes to handleCommand.           *)
(*                                                                         *)
(* A line is sent for a reason: a request is a text together with what the *)
(* sender means by it.                                                     *)
(***************************************************************************)
EXTENDS Commands

CONSTANTS
  Size,      \* API_INPUT_BUFFER_SIZE
  Requests   \* environment: [text, means]; where nothing says what a text
             \* means, means is [fn |-> "unspecified"]

ASSUME SizeAssumption == Size \in Nat \ {0}

\* a text too long for the buffer, as it is read: its first characters, its last
\* one, and what the output buffer says
Overfull(text) ==
  [i \in 1..(Size + 1) |->
     IF i < Size THEN text[i] ELSE IF i = Size THEN text[Len(text)] ELSE "1"]

ASSUME CopesAssumption ==
  \A r \in Requests : Copes(r.text) /\ (Len(r.text) >= Size => Copes(Overfull(r.text)))

NUL == "NUL"
Bytes == UNION {ToSet(r.text) : r \in Requests}

ASSUME RequestsAssumption == \A r \in Requests : r.text \in Seq(Bytes)
ASSUME NulAssumption == NUL \notin Bytes /\ "1" # NUL

Nobody == [text |-> << >>, means |-> [fn |-> "nobody"]]
NotDone == [fn |-> "none"]

ASSUME NobodyAssumption == Nobody \notin Requests

VARIABLES
  interfaceType,  \* "api" or "console"
  inputBuffer, ibidx,
  answer,         \* outputBuffer: what the caller last got, NUL or "1"
  request,        \* environment: the request being sent, or Nobody
  sent,           \* environment: number of its characters sent
  done            \* history: the line executed last

vars == <<interfaceType, inputBuffer, ibidx, answer, request, sent, done>>

Slots == 0..(Size - 1)
Zeroed == [z \in Slots |-> NUL]

\* initApi
Init ==
  /\ interfaceType = "console"
  /\ inputBuffer = Zeroed
  /\ ibidx = 0
  /\ answer = NUL
  /\ request = Nobody
  /\ sent = 0
  /\ done = NotDone

Executed(text, told) ==
  [fn |-> "line", text |-> text, sent |-> request.text, means |-> request.means,
   told |-> told, call |-> handleCommand(text)]

\* apiCommand, consoleCommand
SwitchedBy(call) == IF call.fn \in {"api", "console"} THEN call.fn ELSE interfaceType

-----------------------------------------------------------------------------
\* the environment decides what to ask for
Ask ==
  /\ request = Nobody
  /\ request' \in Requests
  /\ done' = NotDone
  /\ UNCHANGED <<interfaceType, inputBuffer, ibidx, answer, sent>>

\* another slot taken; the last one is taken again and again
AtLimit_late(i) == i > Size
AtLimit(i) == i >= Size

Byte ==
  /\ interfaceType = "api" /\ request # Nobody
  /\ sent < Len(request.text)
  /\ inputBuffer' = [inputBuffer EXCEPT ![ibidx] = request.text[sent + 1]]
  /\ ibidx' = IF AtLimit(ibidx + 1) THEN Size - 1 ELSE ibidx + 1
  /\ answer' = IF AtLimit(ibidx + 1) THEN "1" ELSE NUL
  /\ sent' = sent + 1
  /\ UNCHANGED <<interfaceType, request, done>>

\* The text ends at the first zero.  A full buffer has none: the text goes on
\* in the output buffer, which comes after it and says "1".
Text ==
  LET zeros == {z \in Slots : inputBuffer[z] = NUL}
  IN IF zeros = {}
     THEN [i \in 1..(Size + 1) |-> IF i <= Size THEN inputBuffer[i - 1] ELSE "1"]
     ELSE [i \in 1..Min(zeros) |-> inputBuffer[i - 1]]

Cleared_first == [inputBuffer EXCEPT ![0] = NUL]
Cleared == Zeroed

CarriageReturn ==
  /\ interfaceType = "api" /\ request # Nobody
  /\ sent = Len(request.text)
  /\ done' = Executed(Text, answer = "1")
  /\ interfaceType' = SwitchedBy(handleCommand(Text))
  /\ inputBuffer' = Cleared
  /\ ibidx' = 0
  /\ answer' = NUL
  /\ sent' = 0
  /\ request' = Nobody

\* the line editor; its lines are shorter than the API's
ConsoleLine ==
  /\ interfaceType = "console" /\ request # Nobody
  /\ done' = Executed(request.text, FALSE)
  /\ interfaceType' = SwitchedBy(handleCommand(request.text))
  /\ request' = Nobody
  /\ UNCHANGED <<inputBuffer, ibidx, answer, sent>>

Next == Ask \/ Byte \/ CarriageReturn \/ ConsoleLine

Spec == Init /\ [][Next]_vars

-----------------------------------------------------------------------------
TypeOK ==
  /\ interfaceType \in {"api", "console"}
  /\ inputBuffer \in [Slots -> Bytes \union {NUL}]
  /\ ibidx \in Slots
  /\ answer \in {NUL, "1"}
  /\ request \in Requests \union {Nobody}
  /\ sent \in 0..Len(request.text)

\* A line is executed as sent, whatever was sent before it: nothing is left over
\* in the buffer, nothing is cut off, unless the sender has been told so
\* (onByteReception: "return "1" if the buffer is full"); and nobody is told
\* whose line fits.
ExecutesTheLine ==
  done.fn = "line" => /\ ~done.told => done.text = done.sent
                      /\ done.told => Len(done.sent) >= Size

\* A line written as HELP explains does what HELP says it means.
AsDocumented ==
  (done.fn = "line" /\ ~done.told /\ done.means.fn # "unspecified") => done.call = done.means

\* Lamps that are indices of their arrays, no lamp twice, one of the colors, and
\* no repeating sequence of a single step.
Accepted(call) ==
  /\ call.fn = "paint" => /\ ToSet(call.lamps) \subseteq Lamps
                          /\ IsInjective(call.lamps)
                          /\ call.color \in {<<k>> : k \in 1..16} \union [1..3 -> 0..255]
  /\ call.fn \in {"interp", "istep", "destroy"} =>
       call.lamps \in {{l} : l \in Lamps} \union {Lamps}
  /\ call.fn = "interp" => ~(call.repeating /\ call.nsteps = 1)

\* Whatever is sent, documented or not, cut off or not, if only its list of lamps
\* fits (see Copes), the animations and the lamps are given nothing but what they
\* are made for: out of range lamps and what the checks of taskManager.c refuse
\* never get there.
AcceptedOnly == done.fn = "line" => Accepted(done.call)
=============================================================================
