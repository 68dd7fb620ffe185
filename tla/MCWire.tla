------------------------------- MODULE MCWire -------------------------------
(* Streams for TLC: both logins, lines in one segment or many, an overlong *)
(* line alone and after a short one, a "cr", an empty line and a "nul";    *)
(* parameters in the query string and in the body, the status, no end.     *)
EXTENDS Wire

MCXdrStreams ==
  {<<"x", "nl", "x", "nl", "Y", "9", "nl", "D", "-", "cr", "nl">>,
   <<"x", "nl", "x", "nl", "A", "1", "1", "1", "1", "nl", "X", "nl">>,
   <<"x", "nl", "A", "9", "nl", "x", "nl", "X", "nl", "B", "1", "nl">>,
   <<"x", "x", "nl", "x", "nl">>, <<"x", "1", "1", "1", "nl">>,
   <<"P", "h", "cr", "nl", "Y", "9", "nl", "T", "1", "nl", "nl">>,
   <<"h", "nl", "V", "9", "nl", "C", "-", "nl", "B", "1", "nl", "W", "9", "nl">>,
   <<"1", "nl", "x", "nl", "F", "?", "nl", "X", "nl">>,
   <<"1", "1", "1", "1", "nl", "D", "9", "nl">>,
   <<"h", "nl", "D", "nul", "1", "nl", "D", "1", "nl">>,
   <<"h", "nl", "D", "1", "nl", "1", "1", "1", "1", "nl", "D", "9", "nl">>}

MCRestStreams ==
  {<<"post", "len2", "end", "volume9", "deemphasis9">>,
   <<"post", "len2", "end", "blendLow", "force_mono1">>,
   <<"post", "len1", "end", "deemphasis1", "blend1">>,
   <<"post", "end", "start">>, <<"post", "len9", "end", "stop", "junk">>,
   <<"get", "volume9", "end">>, <<"get", "start", "len1", "end", "deemphasis1">>,
   <<"post", "blend1", "len2", "end", "stop", "blendLow">>,
   <<"status", "stop", "len1", "end", "start">>, <<"options", "len1", "end", "start">>,
   <<"get", "h", "h", "h", "h", "end">>}
===============================================================================
