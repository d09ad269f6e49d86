------------------------------- MODULE MCApi -------------------------------
(* Instance of Api for TLC: what is sent.                                  *)
EXTENDS Api, Manual

Leds == {<<a, b>> \in Lamps \X Lamps : a <= b}
Lists == {<<a>> : a \in Leds} \union (Leds \X Leds)
         \union (Leds \X Leds \X Leds)
           \union {<< <<3, 3>>, <<0, 1>>, <<2, 2>>, <<0, 3>>, <<1, 1>> >>}
FewLists == {<< <<2, 2>> >>, << <<3, 3>>, <<0, 1>> >>}
SomeBytes == {0, 1, 10, 99, 100, 255}

Documented ==
  {ColorRequest(13, leds) : leds \in Lists}
  \union {ColorRequest(k, leds) : k \in DOMAIN colorCommands, leds \in FewLists}
  \union {RgbRequest(<<r, g, 7>>, leds) : r \in SomeBytes, g \in {0, 255}, leds \in FewLists}
  \union {InterpRequest(l, n, 1) : l \in Lamps \union {AllLamps}, n \in {2, 10, 255}}
  \union {InterpRequest(l, n, 0) : l \in {1, AllLamps}, n \in {1, 3}}
  \union {IstepRequest(<<c, 0, 9>>, f, i, l, s) :
            c \in {0, 255}, f \in {1, 300}, i \in {0, 1}, l \in {0, 3, AllLamps}, s \in {0, 12}}
  \union {DestroyRequest(l) : l \in Lamps \union {AllLamps}}
  \union {PlainRequest(k) : k \in {3, 4, 5, 6, 9, 11, 12, 13, 14, 15}}

\* blanks in lists, which stripWhitespaces removes
Spaced ==
  {Request(Written(<<"R", "ED">>, <<" ", "1", ",", " ", " ", "2", "-", "3", " ">>),
           PaintCall(<<3>>, <<1, 2, 3>>))}

Undocumented == {Request(text, [fn |-> "unspecified"]) : text \in {
  << >>, <<"S">>, <<"S", "T">>, <<"D">>, <<"I">>, <<"HELP", "HELP">>, <<"(">>, <<" ", "HELP">>,
  <<"1">>, <<"R", "ED">>, <<"R", "ED", "(">>, <<"R", "GB", "(", "1", ",", "2", ")">>,
  <<"R", "GB", "(", "1", ",", "2", ",", "3", ")">>, <<"GR", "AY", "(", "4", ")">>,
  <<"GR", "AY", "(", "2", "-", "5", ")">>, <<"GR", "AY", "(", "1", "(", ")">>,
  <<"GR", "AY", "(", "1", ")", "2", ")">>, <<"GR", "AY", "(", ",", ",", "1", ")">>,
  <<"I", "NTERP", "(", "4", ",", "2", ",", "0", ")">>,
  <<"I", "NTERP", "(", "1", ",", "1", ",", "1", ")">>,
  <<"I", "NTERP", "(", "1", ",", " ", "2", ",", "1", ")">>,
  <<"I", "NTERP", "(", "1", ",", "2", ")">>, <<"I", "NTERP", "(", "2", "5", "7", ",", "2", ",", "0", ")">>,
  <<"I", "STEP", "(", "1", ",", "2", ",", "3", ",", "4", ",", "2", ",", "0", ",", "0", ")">>,
  <<"I", "STEP", "(", "1", ",", "2", ",", "3", ",", "4", ",", "1", ",", "4", ",", "0", ")">>,
  <<"D", "ES", "TROY">>, <<"D", "ES", "TROY", "(", "4", ")">>,
  <<"D", "ES", "TROY", "(", "0", ",", "1", ")">>, <<"NPENGINE">>, <<"NPENGINE", "(", "2", ")">>,
  <<"NPENGINE", "(", "0", ")">>, <<"NPENGINE", "(", "1", ")">>, <<"NGENGINE", "(", "1", ")">>,
  <<"YELLOW", "(", "0", "-", "3", ",", "0", "-", "3", ",", "0", "-", "3", ",", "0", "-", "3",
    ",", "0", "-", "3", ",", "0", "2", ",", "1", "-", "3", ",", "0", ")">>}}

MCRequests == Documented \union Spaced \union Undocumented
=============================================================================
