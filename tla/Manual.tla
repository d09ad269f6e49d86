------------------------------- MODULE Manual -------------------------------
(***************************************************************************)
(* The command language as HELP explains it (helpCommand in                *)
(* Src/common/taskManager.c): what can be asked for, how it is written and *)
(* what it means.  The meaning is given on what is asked for, not on its   *)
(* text: reading the text back is the work of module Commands.             *)
(*                                                                         *)
(* One entry of HELP is left out, because nothing can be asked for with    *)
(* it: HELP calls the command that starts and stops the frame timer        *)
(* NGENGINE(<f>), the table of commands has it as NPENGINE.                *)
(***************************************************************************)
EXTENDS Commands

Decimal(n) ==
  CASE n < 10 -> <<Digits[n + 1]>>
    [] n \in 10..99 -> <<Digits[(n \div 10) + 1], Digits[(n % 10) + 1]>>
    [] OTHER -> <<Digits[(n \div 100) + 1], Digits[((n \div 10) % 10) + 1], Digits[(n % 10) + 1]>>

\* texts with commas between them
Listed(texts) ==
  FlattenSeq([k \in DOMAIN texts |-> IF k = 1 THEN texts[k] ELSE <<",">> \o texts[k]])

Numbers(args) == Listed([k \in DOMAIN args |-> Decimal(args[k])])

Written(name, arguments) == name \o <<"(">> \o arguments \o <<")">>

\* <LedNumbers>: a list of lamps and ranges <<lower, upper>>
LampText(led) ==
  IF led[1] = led[2] THEN Decimal(led[1])
  ELSE Decimal(led[1]) \o <<"-">> \o Decimal(led[2])
LedText(leds) == Listed([k \in DOMAIN leds |-> LampText(leds[k])])
LedMeaning(leds) ==
  SetToSortSeq(UNION {leds[k][1]..leds[k][2] : k \in DOMAIN leds}, LAMBDA a, b : a < b)

Request(text, means) == [text |-> text, means |-> means]

ColorRequest(k, leds) ==
  Request(Written(colorCommands[k], LedText(leds)), PaintCall(<<k>>, LedMeaning(leds)))

RgbRequest(rgb, leds) ==
  Request(Written(<<"R", "GB">>, Numbers(rgb) \o <<",">> \o LedText(leds)),
          PaintCall(rgb, LedMeaning(leds)))

InterpRequest(lampnr, nsteps, repeating) ==
  Request(Written(<<"I", "NTERP">>, Numbers(<<lampnr, nsteps, repeating>>)),
          InterpCall(lampnr, nsteps, repeating = 1))

IstepRequest(rgb, frames, interpolation, lampnr, step) ==
  Request(Written(<<"I", "STEP">>, Numbers(rgb \o <<frames, interpolation, lampnr, step>>)),
          IstepCall(rgb, frames, interpolation = 1, lampnr, step))

DestroyRequest(lampnr) ==
  Request(Written(<<"D", "ES", "TROY">>, Decimal(lampnr)),
          [fn |-> "destroy", lamps |-> Selected(lampnr)])

PlainRequest(k) == Request(otherCommands[k].name, [fn |-> otherCommands[k].fct])
=============================================================================
