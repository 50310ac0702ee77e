------------------------------- MODULE MCJson -------------------------------
(* Streams and whole texts of extended JSON: each about a part of the      *)
(* language, most of the streams inside a document.                        *)
EXTENDS Json

Field == <<"{", "x", ":">>
Text(begins, alphabet, more, calls) ==
    [begins |-> begins, alphabet |-> alphabet, length |-> Len(begins) + more, calls |-> calls, modes |-> {FALSE}, faults |-> 0]
InField(begins, alphabet, more) == Text(Field \o begins, alphabet \cup {"}"}, more, {"DecodeMap"})

Values ==
    { Text(<<>>, {"1", "\"", "true", "MinKey", "(", ")", " "}, 4, {"ScanObject"}),
      Text(<<"{", "x", ":", "{", "x">>, {"1", ",", "x", ":", "{", "}", " "}, 6, {"ScanObject"}),
      InField(<<>>, {"1", ",", "x", ":", "{", "[", "]"}, 5),
      InField(<<>>, {"\"", "\\", "u", "1", "true", "'"}, 5),
      InField(<<"\"", "\\", "u", "1", "1">>, {"\"", "\\", "u", "1"}, 5),
      InField(<<>>, {"/", "\\", "g", "1", "'"}, 5),
      InField(<<>>, {"new", " ", "ISODate", "+", "(", ")", "1"}, 6),
      InField(<<"new", " ">>, {" ", "Boolean", "(", ")", "1"}, 6) }
(* Some errors of the reader.                                              *)
CutOff == [Text(<<>>, {"{", "}", "x", ":", "1", "[", "]"}, 5, {"DecodeMap", "ScanObject"}) EXCEPT !.faults = 1]
(* About useNumber.                                                        *)
Numbers ==
    {[st EXCEPT !.modes = BOOLEAN] : st \in
      { InField(<<>>, {"0", "1", "x", "e", ".", "+", "Infinity"}, 4),
        InField(<<"NumberLong", "(">>, {")", "1", "x", "0", ",", "\""}, 5),
        InField(<<"Timestamp", "(">>, {")", "1", "+", ",", "\""}, 5),
        InField(<<"[", "NumberLong", "(">>, {")", "1", ",", "]"}, 6),
        InField(<<"[", "Timestamp", "(">>, {")", "1", ",", "]"}, 7),
        InField(<<"DBRef", "(">>, {")", "1", ",", "\""}, 5),
        InField(<<"Boolean", "(">>, {")", "1", "0", "true", ",", "{"}, 5),
        InField(<<"[", "Boolean", "(">>, {")", "1", "true", ",", "]"}, 6),
        InField(<<"ISODate", "(">>, {")", "1", "word", "\"", "{"}, 5) }}

MCStreams == Values \cup {CutOff} \cup Numbers

(* Texts that are given whole.                                             *)
Whole(begins, alphabet, more) == Text(begins, alphabet, more, {})
MCTexts ==
    { Whole(<<>>, {"1", "\"", "true", "MinKey", "(", ")", " "}, 5),
      Whole(<<>>, {"{", "}", "x", ":", "1", ",", " "}, 6),
      Whole(Field, {"{", "}", "x", ":", "1", ","}, 6),
      Whole(Field, {"[", "]", "{", "}", "1", ",", " "}, 5),
      Whole(<<>>, {"0", "1", "x", "e", ".", "+", "Infinity"}, 5),
      Whole(<<"\"">>, {"\"", "\\", "u", "1", "true", "'", " "}, 5),
      Whole(<<"'", "\\", "u", "1", "1">>, {"'", "\\", "u", "1", "\""}, 5),
      Whole(<<"/">>, {"/", "\\", "g", "1", " ", "'", "nl"}, 5),
      Whole(<<>>, {"new", " ", "Boolean", "ISODate", "(", ")", "1"}, 6),
      Whole(<<"[", "new", " ">>, {" ", "Boolean", "(", ")", ",", "]", "1"}, 6),
      Whole(<<>>, {"+", "ISODate", "(", ")", "\"", "1", " "}, 5),
      Whole(<<"Timestamp", "(">>, {")", "1", ",", " ", "[", "]"}, 5) }
=============================================================================
