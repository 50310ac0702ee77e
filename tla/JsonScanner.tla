----------------------------- MODULE JsonScanner -----------------------------
(***************************************************************************)
(* The scanner of the extended JSON of the legacy tools: a state machine   *)
(* that is given one byte after the other.  (scanner.go, mongo_extjson.go, *)
(* constructor.go, new.go, number.go, regexp.go, single_quoted.go,         *)
(* unquoted.go, hex.go, helpers.go, minkey.go, indent.go of legacy/json.)  *)
(*                                                                         *)
(* Bytes that no state tells apart are one symbol ("1" is any digit but 0, *)
(* "+" any sign, "g" an option of a regular expression), and so is a word  *)
(* of the language (null and undefined are scanned as "true" is).  A word  *)
(* is scanned at once; "word" is any other text of letters.                *)
(***************************************************************************)
EXTENDS Integers, Sequences, SequencesExt, FiniteSets, TLC

Space == {" ", "nl"}
Digits == {"0", "1"}
HexDigits == Digits \cup {"e"}
Ctors == {"NumberLong", "Boolean", "Timestamp", "DBRef", "ISODate"}
Words == {"true", "Infinity", "MinKey", "new", "word"} \cup Ctors
Letters == {"e", "x", "u", "g"} \cup Words
Symbols == Space \cup Digits \cup Letters \cup
           {"{", "}", "[", "]", "(", ")", ",", ":", "\"", "'", "\\", "/", "+", "."}

To(cs, state) == [c \in cs |-> state]

(* Escapes: a quote, and the words that begin with t or n.                 *)
Escapes(quote) == {"\\", "/", quote, "true", "new"}

Quoted(quote, in, esc, u) ==
    (in :> (To({quote}, "stateEndValue") @@ To({"\\"}, esc) @@ To(Symbols \ {"nl"}, in)))
    @@ (esc :> (To(Escapes(quote), in) @@ To({"u"}, u)))

Hex4(u, in) ==
    ((u \o "") :> To(HexDigits, u \o "1")) @@ ((u \o "1") :> To(HexDigits, u \o "12"))
    @@ ((u \o "12") :> To(HexDigits, u \o "123")) @@ ((u \o "123") :> To(HexDigits, in))

(* The states inside a literal: where each byte leads.                     *)
Inside ==
    Quoted("\"", "stateInString", "stateInStringEsc", "stateInStringEscU")
    @@ Hex4("stateInStringEscU", "stateInString")
    @@ Quoted("'", "stateInSingleQuotedString", "stateInSingleQuotedStringEsc", "stateInSingleQuotedStringEscU")
    @@ Hex4("stateInSingleQuotedStringEscU", "stateInSingleQuotedString")
    @@ ("stateInRegexpPattern" :> (To({"/"}, "stateInRegexpOptions") @@ To({"\\"}, "stateInRegexpPatternEsc")
                                   @@ To(Symbols \ {"nl"}, "stateInRegexpPattern")))
    @@ ("stateInRegexpPatternEsc" :> (To(Escapes("'"), "stateInRegexpPattern") @@ To({"u"}, "stateInRegexpPatternEscU")))
    @@ Hex4("stateInRegexpPatternEscU", "stateInRegexpPattern")
    @@ ("stateInRegexpOptions" :> To({"g"}, "stateInRegexpOptions"))
    @@ ("stateInUnquotedString" :> To(Letters \cup Digits, "stateInUnquotedString"))
    @@ ("stateSign" :> (To({"0"}, "state0") @@ To({"1"}, "state1") @@ To({"."}, "stateDot")
                        @@ To({"Infinity"}, "stateEndValue") @@ To({"ISODate"}, "stateConstructor")))
    @@ ("state1" :> (To(Digits, "state1") @@ To({"."}, "stateDot") @@ To({"e"}, "stateE") @@ To({"x"}, "stateHex")))
    @@ ("state0" :> (To({"."}, "stateDot") @@ To({"e"}, "stateE") @@ To({"x"}, "stateHex")))
    @@ ("stateDot" :> To(Digits, "stateDot0"))
    @@ ("stateDot0" :> (To(Digits, "stateDot0") @@ To({"e"}, "stateE")))
    @@ ("stateE" :> (To({"+"}, "stateESign") @@ To(Digits, "stateE0")))
    @@ ("stateESign" :> To(Digits, "stateE0"))
    @@ ("stateE0" :> To(Digits, "stateE0"))
    @@ ("stateHex" :> To(HexDigits, "stateHex"))
    @@ ("stateNew" :> To(Space, "stateBeginObjectValue"))
    @@ ("stateOptionalConstructor" :> (To(Space, "stateOptionalConstructor") @@ To({"("}, "stateInParen")))
    @@ ("stateInParen" :> (To(Space, "stateInParen") @@ To({")"}, "stateEndValue")))

(* Those that may be the end of the literal: another byte comes after it.  *)
MayEnd == {"stateInRegexpOptions", "stateInUnquotedString", "state1", "state0", "stateDot0", "stateE0", "stateHex",
           "stateOptionalConstructor"}

(* How a value begins.                                                     *)
Begin ==
    To({"\""}, "stateInString") @@ To({"'"}, "stateInSingleQuotedString") @@ To({"+"}, "stateSign")
    @@ To({"0"}, "state0") @@ To({"1"}, "state1") @@ To({"."}, "stateDot") @@ To({"true", "Infinity"}, "stateEndValue")
    @@ To({"new"}, "stateNew") @@ To({"MinKey"}, "stateOptionalConstructor") @@ To(Ctors, "stateConstructor")
    @@ To({"/"}, "stateInRegexpPattern")
BeginKey ==
    To({"\""}, "stateInString") @@ To({"'"}, "stateInSingleQuotedString") @@ To(Letters, "stateInUnquotedString")
BeginObjectValue == To(Ctors \ {"ISODate"}, "stateConstructor")

-----------------------------------------------------------------------------
(* The scanner; a step returns it with a code.                             *)
Reset == [step |-> "stateBeginValue", stack |-> <<>>, endTop |-> FALSE, err |-> FALSE,
          redo |-> FALSE, redoCode |-> "", redoState |-> ""]

Go(s, state, code) == [s |-> [s EXCEPT !.step = state], code |-> code]
Error(s) == [s |-> [s EXCEPT !.step = "stateError", !.err = TRUE], code |-> "error"]
Push(s, state, what, code) ==
    [s |-> [s EXCEPT !.step = state, !.stack = Append(@, what)], code |-> code]

popParseState(s, code) ==
    [s |-> [s EXCEPT !.stack = Front(@), !.redo = FALSE,
                     !.endTop = @ \/ Len(s.stack) = 1,
                     !.step = IF Len(s.stack) = 1 THEN "stateEndTop" ELSE "stateEndValue"],
     code |-> code]

(* stateEndTop: a byte that should not be there is told at the next call.  *)
EndTop(s, c) == [s |-> IF c \in Space THEN s ELSE Error(s).s, code |-> "end"]

(* stateEndValue, with the comma, the colon and the brackets after a value.*)
AtEnd(s, close, endCode, state, valueCode, c) ==
    CASE c = "," -> Go([s EXCEPT !.stack[Len(s.stack)] = IF @ = "objectValue" THEN "objectKey" ELSE @], state, valueCode)
      [] c = close -> popParseState(s, endCode)
      [] OTHER -> Error(s)

EndValue(s, c) ==
    IF s.stack = <<>> THEN EndTop([s EXCEPT !.step = "stateEndTop", !.endTop = TRUE], c)
    ELSE IF c \in Space THEN Go(s, "stateEndValue", "space")
    ELSE CASE Last(s.stack) = "objectKey" ->
                IF c = ":" THEN Go([s EXCEPT !.stack[Len(s.stack)] = "objectValue"], "stateBeginValue", "objectKey")
                ELSE Error(s)
           [] Last(s.stack) = "objectValue" -> AtEnd(s, "}", "endObject", "stateBeginString", "objectValue", c)
           [] Last(s.stack) = "arrayValue" -> AtEnd(s, "]", "endArray", "stateBeginValue", "arrayValue", c)
           [] Last(s.stack) = "ctorArg" -> AtEnd(s, ")", "endCtor", "stateBeginValue", "ctorArg", c)

BeginStates == {"stateBeginValue", "stateBeginValueOrEmpty", "stateBeginCtorOrEmpty"}
EmptyLists == {<<"stateBeginValueOrEmpty", "]">>, <<"stateBeginCtorOrEmpty", ")">>, <<"stateBeginStringOrEmpty", "}">>}
RegexpStates == {"stateInRegexpPattern", "stateInRegexpPatternEsc", "stateInRegexpPatternEscU",
                 "stateInRegexpPatternEscU1", "stateInRegexpPatternEscU12", "stateInRegexpPatternEscU123"}

(* Bytes of a regular expression have codes of their own.                  *)
InsideCode(state, next) ==
    CASE next = "stateInRegexpOptions" -> "options"
      [] state \in RegexpStates -> "pattern"
      [] OTHER -> "continue"

(* What the byte is: the end of the value before it (a bracket may close   *)
(* an empty list), the next byte of a literal, or a beginning.             *)
StepFrom(inside, s, c) ==
    CASE s.step = "stateRedo" -> [s |-> [s EXCEPT !.redo = FALSE, !.step = s.redoState], code |-> s.redoCode]
      [] s.step = "stateError" -> [s |-> s, code |-> "error"]
      [] s.step = "stateEndTop" -> EndTop(s, c)
      [] \/ s.step = "stateEndValue"
         \/ <<s.step, c>> \in EmptyLists
         \/ s.step \in MayEnd /\ c \notin DOMAIN inside[s.step] ->
           EndValue(IF c = "}" /\ s.step = "stateBeginStringOrEmpty"
                    THEN [s EXCEPT !.stack[Len(s.stack)] = "objectValue"] ELSE s, c)
      [] s.step \in DOMAIN inside ->
           IF c \in DOMAIN inside[s.step]
           THEN Go(s, inside[s.step][c], InsideCode(s.step, inside[s.step][c])) ELSE Error(s)
      [] s.step = "stateConstructor" /\ c = "(" -> Push(s, "stateBeginCtorOrEmpty", "ctorArg", "beginCtor")
      [] c \in Space -> Go(s, s.step, "space")
      [] s.step \in BeginStates /\ c = "{" -> Push(s, "stateBeginStringOrEmpty", "objectKey", "beginObject")
      [] s.step \in BeginStates /\ c = "[" -> Push(s, "stateBeginValueOrEmpty", "arrayValue", "beginArray")
      [] OTHER ->
           LET from == CASE s.step \in BeginStates -> Begin
                         [] s.step \in {"stateBeginStringOrEmpty", "stateBeginString"} -> BeginKey
                         [] s.step = "stateBeginObjectValue" -> BeginObjectValue
                         [] s.step = "stateConstructor" -> <<>>
           IN  IF c \in DOMAIN from THEN Go(s, from[c], "beginLiteral") ELSE Error(s)

Step(s, c) == StepFrom(Inside, s, c)

(* Plausible bug: whatever was read may end.                               *)
EofAnywhere(s, t) == IF s.err THEN [s |-> s, code |-> "error"] ELSE [s |-> [t EXCEPT !.endTop = TRUE], code |-> "end"]

(* eof: a space ends what can end; t is the scanner after it.              *)
EofFrom(s, t) ==
    IF s.err THEN [s |-> s, code |-> "error"]
    ELSE IF s.endTop THEN [s |-> s, code |-> "end"]
    ELSE IF t.endTop THEN [s |-> t, code |-> "end"]
    ELSE [s |-> [t EXCEPT !.err = TRUE], code |-> "error"]
eof(s) == EofFrom(s, Step(s, " ").s)

(* undo: the next step returns this code again.  A second one panics.      *)
undo(s, code) ==
    [s EXCEPT !.redo = TRUE, !.redoCode = code, !.redoState = s.step, !.step = "stateRedo"]

(* The scanner after a text, and the codes it returned, up to an error or  *)
(* the end.                                                                *)
Scanned(s, text) ==
    FoldLeft(LAMBDA r, c : IF r.stop THEN r
                           ELSE LET st == Step(r.s, c)
                                IN  [s |-> st.s, codes |-> Append(r.codes, st.code), stop |-> st.code = "error"],
             [s |-> s, codes |-> <<>>, stop |-> FALSE], text)

checkValid(text) ==
    LET r == Scanned(Reset, text)
    IN  ~r.stop /\ eof(r.s).code = "end"

(* nextValue: how long the first value is, or -1.                          *)
nextValue(text) ==
    LET r == Scanned(Reset, text)
        stops == {i \in DOMAIN r.codes : r.codes[i] \in {"end", "error"}}
        first == CHOOSE i \in stops : \A j \in stops : i <= j
    IN  IF stops # {} THEN (IF r.codes[first] = "end" THEN first - 1 ELSE -1)
        ELSE IF eof(r.s).code = "end" THEN Len(text) ELSE -1

(* compact: the bytes that are not space to the scanner.                   *)
compact(text) ==
    LET codes == Scanned(Reset, text).codes
    IN  FoldLeft(LAMBDA dst, i : IF codes[i] \in {"space", "end"} THEN dst ELSE Append(dst, text[i]),
                 <<>>, [i \in DOMAIN codes |-> i])
=============================================================================
