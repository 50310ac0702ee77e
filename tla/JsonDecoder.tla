----------------------------- MODULE JsonDecoder -----------------------------
(***************************************************************************)
(* The decoder of a document of extended JSON, driven by the codes of the  *)
(* scanner (decode.go, constructor.go, new.go, number.go, boolean.go,      *)
(* date.go, timestamp.go, dbref.go, regexp.go of legacy/json).             *)
(*                                                                         *)
(* An operator is given the decoder and returns it with the value it read. *)
(* A panic is "fail": the operators that follow one leave it as it is.     *)
(* "arguments": an error about the arguments of a constructor; "type": a   *)
(* type assertion that fails (a runtime error, that leaves Decode as a     *)
(* panic); errPhase: the decoder and the scanner do not agree.             *)
(* A value is a node of JsonGrammar; a number is "Number", "int" or        *)
(* "float", or "bad" when it could not be converted (an error is saved).   *)
(***************************************************************************)
EXTENDS JsonGrammar

init(useNumber, data) ==
    [data |-> data, off |-> 0, scan |-> Reset, useNumber |-> useNumber, fail |-> "", saved |-> FALSE]

Nothing == Leaf("nil", <<>>)
Ret(d, v) == [d |-> d, v |-> v]
Fail(d, why) == Ret([d EXCEPT !.fail = IF @ = "" THEN why ELSE @], Nothing)

(* scanWhile.  The end of the data counts as a byte.                       *)
Took(d, st, off) == [d |-> [d EXCEPT !.scan = st.s, !.off = off], op |-> st.code]
Byte(d) ==
    IF d.off >= Len(d.data) THEN Took(d, eof(d.scan), Len(d.data) + 1)
    ELSE Took(d, Step(d.scan, d.data[d.off + 1]), d.off + 1)

RECURSIVE Until(_, _)
Until(r, op) == IF r.op = op THEN Until(Byte(r.d), op) ELSE r
scanWhile(d, op) == Until(Byte(d), op)

(* Read one byte too far.                                                  *)
(* Plausible bug: the scanner is given the byte twice.                     *)
BackWithoutUndo(d, op) == [d EXCEPT !.off = @ - 1]
Back(d, op) == [d EXCEPT !.off = @ - 1, !.scan = undo(@, op), !.fail = IF @ = "" /\ d.scan.redo THEN "undo" ELSE @]

(* The bytes from the one before start to the last one read, exclusive.    *)
Item(d, start) == SubSeq(d.data, start, d.off - 1)

-----------------------------------------------------------------------------
(* strconv: ParseInt with base 0, ParseFloat.  isHexPrefix.                *)
IsHexLiteral(w) == LET u == Unsigned(w) IN Len(u) > 2 /\ u[1] = "0" /\ u[2] = "x" /\ AllIn(SubSeq(u, 3, Len(u)), HexDigits)
IsInteger(w) == IsHexLiteral(w) \/ (Unsigned(w) # <<>> /\ AllIn(Unsigned(w), Digits))
IsFloat(w) == Unsigned(w) = <<"Infinity">> \/ (IsNumeral(w) /\ ~\E i \in DOMAIN w : w[i] = "x")
IsZero(w) ==
    LET mantissa == IF IsHexLiteral(w) THEN w ELSE Cut(w, 1, After(w, 1, Symbols \ {"e"}))
    IN  AllIn(mantissa, {"0", "x", ".", "+"})
(* util.FormatDate: the only text that is a date.                          *)
IsDate(w) == w = <<"word">>

NumberKinds == {"Number", "int", "float", "bad"}
convertNumber(d, w) ==
    Leaf(CASE d.useNumber -> "Number" [] IsInteger(w) -> "int" [] IsFloat(w) -> "float" [] OTHER -> "bad", w)

(* unquoteBytes, and the same loop in regexp: s is what is between the     *)
(* quotes, from r on; bad is what may not stand there, the quote and what  *)
(* is less than a space.  After a backslash any quote may stand, also the  *)
(* one that needs none, so that the scanner's escapes are among them.      *)
NotOk(why) == [text |-> <<>>, why |-> why]

getu4(s) ==
    IF Len(s) < 6 \/ ~AllIn(SubSeq(s, 3, 6), HexDigits) THEN "" ELSE "u" \o s[3] \o s[4] \o s[5] \o s[6]

(* The letter of an escape is the first of the symbol that is a word.      *)
UnescapeSymbol(c) ==
    CASE c \in {"\"", "\\", "/", "'"} -> <<c>>
      [] c = "new" -> <<"nl", "ew">>
      [] c = "true" -> <<"tab", "rue">>
      [] OTHER -> <<>>

RECURSIVE Unescaped(_, _, _, _)
Unescaped(s, r, bad, b) ==
    LET rest == SubSeq(s, r, Len(s))
        escape == r <= Len(s) /\ s[r] = "\\"
    IN  CASE rest = <<>> -> [text |-> b, why |-> ""]
          [] escape /\ Len(rest) = 1 -> NotOk("errPhase")
          [] escape /\ Len(rest) > 1 /\ s[r + 1] = "u" ->
               IF getu4(rest) = "" THEN NotOk("escape") ELSE Unescaped(s, r + 6, bad, Append(b, getu4(rest)))
          [] escape /\ Len(rest) > 1 /\ s[r + 1] # "u" ->
               IF UnescapeSymbol(s[r + 1]) = <<>> THEN NotOk("escape")
               ELSE Unescaped(s, r + 2, bad, b \o UnescapeSymbol(s[r + 1]))
          [] ~escape /\ rest # <<>> /\ rest[1] \in bad -> NotOk("unescaped")
          [] OTHER -> Unescaped(s, r + 1, bad, Append(b, s[r]))

QuoteMarks == {"\"", "'"}
unquoteBytes(item) ==
    IF Len(item) < 2 \/ item[1] \notin QuoteMarks \/ Last(item) \notin QuoteMarks THEN NotOk("quotes")
    ELSE Unescaped(SubSeq(item, 2, Len(item) - 1), 1, {"nl", item[1]}, <<>>)

(* A key may do without quotes.                                            *)
maybeUnquote(item) ==
    IF item = <<>> THEN NotOk("empty")
    ELSE IF {item[1], Last(item)} \cap QuoteMarks = {} THEN [text |-> item, why |-> ""]
    ELSE unquoteBytes(item)

(* m[key] = v                                                              *)
Put(m, key, v) ==
    LET others == SelectSeq([i \in DOMAIN m.keys |-> i], LAMBDA i : m.keys[i] # key)
    IN  [m EXCEPT !.keys = Append([i \in DOMAIN others |-> m.keys[others[i]]], key),
                  !.kids = Append([i \in DOMAIN others |-> m.kids[others[i]]], v)]
AppendElem(m, key, v) == [m EXCEPT !.keys = Append(@, key), !.kids = Append(@, v)]

-----------------------------------------------------------------------------
(* What a constructor makes of its arguments: an error, or "".  A type     *)
(* switch or an assertion looks at the kind of the argument.               *)
IntegerArg(v) == IF v.kind \in {"Number", "string"} /\ IsInteger(v.text) THEN "" ELSE "arguments"
Uint32Arg(v) == CASE v.kind # "Number" -> "type" [] IsInteger(v.text) /\ v.text[1] # "+" -> "" [] OTHER -> "arguments"
DateArg(v) ==
    CASE v.kind = "Number" -> IntegerArg(v)
      [] v.kind = "string" -> IF IsDate(v.text) THEN "" ELSE "arguments"
      [] OTHER -> "type"
BooleanArg(v) == IF v.kind = "Number" /\ ~IsInteger(v.text) /\ ~IsFloat(v.text) THEN "arguments" ELSE ""
Truth(v) ==
    CASE v.kind = "Number" -> ~IsZero(v.text)
      [] v.kind = "string" -> v.text # <<>>
      [] OTHER -> TRUE

Arguments(name, args) ==
    CASE name = "Boolean" -> IF args = <<>> THEN "" ELSE BooleanArg(args[1])
      [] Len(args) # (IF name \in {"Timestamp", "DBRef"} THEN 2 ELSE 1) -> "arguments"
      [] name = "NumberLong" -> IntegerArg(args[1])
      [] name = "ISODate" -> DateArg(args[1])
      [] name = "DBRef" -> IF args[1].kind = "string" THEN "" ELSE "arguments"
      [] name = "Timestamp" -> IF Uint32Arg(args[1]) # "" THEN Uint32Arg(args[1]) ELSE Uint32Arg(args[2])

(* useNumber when it is done: what it was before, but an error leaves it   *)
(* set (NumberLong restores it before the conversion), and Boolean always  *)
(* does unless its first argument is a number.                             *)
UseNumberAfter(name, args, before, why) ==
    CASE name = "DBRef" -> before
      [] name = "Boolean" -> (args # <<>> /\ args[1].kind = "Number" => before)
      [] name = "NumberLong" -> (Len(args) = 1 /\ args[1].kind \in {"Number", "string"} => before)
      [] OTHER -> (why = "" => before)

Constructed(name, args) ==
    IF name = "Boolean" THEN Node(name, <<IF args # <<>> /\ Truth(args[1]) THEN "true" ELSE "false">>, args, <<>>)
    ELSE Node(name, <<>>, args, <<>>)

-----------------------------------------------------------------------------
RECURSIVE valueInterface(_, _), Elements(_, _, _, _), objectInterface(_, _, _), literalInterface(_)

(* arrayInterface and ctorInterface; list: the codes of the bracket that   *)
(* ends it (only the first time round, or after a value) and of the comma. *)
CommaOrEnd(r, list, insideD, v) ==
    CASE r.op = list.end -> Ret(r.d, v)
      [] r.op = list.comma -> Elements(r.d, list, insideD, v)
      [] OTHER -> Ret(Fail(r.d, "errPhase").d, v)
AfterElement(one, list, insideD, v) ==
    IF one.d.fail # "" THEN Ret(one.d, v) ELSE CommaOrEnd(scanWhile(one.d, "space"), list, insideD, Append(v, one.v))
ElementOrEnd(r, list, insideD, v) ==
    IF r.op = list.end THEN Ret(r.d, v) ELSE AfterElement(valueInterface(Back(r.d, r.op), insideD), list, insideD, v)
Elements(d, list, insideD, v) == ElementOrEnd(scanWhile(d, "space"), list, insideD, v)

ArrayOf(r) == Ret(r.d, Node("array", <<>>, r.v, <<>>))
arrayInterface(d, insideD) == ArrayOf(Elements(d, [end |-> "endArray", comma |-> "arrayValue"], insideD, <<>>))
ctorInterface(d) == Elements(d, [end |-> "endCtor", comma |-> "ctorArg"], FALSE, <<>>)

(* objectInterface (the last of equal keys stays) and bsonDInterface: the  *)
(* key or the bracket, the colon, the value, the comma or the bracket.     *)
CommaOrBrace(r, isD, m) ==
    CASE r.op = "endObject" -> Ret(r.d, m)
      [] r.op = "objectValue" -> objectInterface(r.d, isD, m)
      [] OTHER -> Fail(r.d, "errPhase")
AfterMember(one, key, isD, m) ==
    IF one.d.fail # "" THEN one
    ELSE CommaOrBrace(scanWhile(one.d, "space"), isD, IF isD THEN AppendElem(m, key, one.v) ELSE Put(m, key, one.v))
AfterColon(r, key, isD, m) ==
    IF key.why # "" \/ r.op # "objectKey" THEN Fail(r.d, "errPhase")
    ELSE AfterMember(valueInterface(r.d, isD), key.text, isD, m)
AfterKey(r, start, isD, m) ==
    AfterColon(IF r.op = "space" THEN scanWhile(r.d, "space") ELSE r, maybeUnquote(Item(r.d, start)), isD, m)
KeyOrEnd(r, isD, m) ==
    CASE r.op = "endObject" -> Ret(r.d, m)
      [] r.op = "beginLiteral" -> AfterKey(scanWhile(r.d, "continue"), r.d.off, isD, m)
      [] OTHER -> Fail(r.d, "errPhase")
objectInterface(d, isD, m) == KeyOrEnd(scanWhile(d, "space"), isD, m)

(* regexp: the byte that begins the options is not part of them.           *)
Options(d, pattern, start) ==
    LET p == Unescaped(pattern, 1, {"nl", "/"}, <<>>)
    IN  IF p.why # "" THEN Fail(d, IF p.why = "errPhase" THEN p.why ELSE "arguments")
        ELSE Ret(d, Node("regexp", p.text, <<>>, <<SubSeq(d.data, start + 1, d.off)>>))
AfterOptions(r, pattern, start) == Options(Back(r.d, r.op), pattern, start)
AfterPattern(r, start) ==
    IF r.op # "options" THEN Fail(r.d, "arguments")
    ELSE AfterOptions(scanWhile(r.d, "options"), Item(r.d, start), r.d.off)
getRegexpLiteral(r) ==
    IF r.op = "pattern" THEN AfterPattern(scanWhile(r.d, "pattern"), r.d.off) ELSE Fail(r.d, "arguments")

(* getNumberLong, getDate, getBoolean, getTimestamp, getDBRef.             *)
AfterArguments(args, name, before, why) ==
    CASE args.d.fail # "" -> args
      [] why # "" -> Fail([args.d EXCEPT !.useNumber = UseNumberAfter(name, args.v, before, why)], why)
      [] OTHER -> Ret([args.d EXCEPT !.useNumber = UseNumberAfter(name, args.v, before, why)], Constructed(name, args.v))
ArgumentsOf(args, name, before) == AfterArguments(args, name, before, Arguments(name, args.v))
getCtor(r, name) ==
    IF r.op = "beginCtor"
    THEN ArgumentsOf(ctorInterface([r.d EXCEPT !.useNumber = @ \/ name # "DBRef"]), name, r.d.useNumber)
    ELSE Fail(r.d, "arguments")

getNewLiteral(r) == IF r.op = "beginLiteral" THEN literalInterface(r.d) ELSE Fail(r.d, "arguments")

NumberOf(d, number) == IF number.kind = "bad" THEN Ret([d EXCEPT !.saved = TRUE], Nothing) ELSE Ret(d, number)

StringOf(d, s) == IF s.why # "" THEN Fail(d, "errPhase") ELSE Ret(d, Leaf("string", s.text))

(* The byte after the literal was read, and is read again: next.           *)
Literal(d, item) ==
    CASE item[1] \in {"true", "MinKey"} -> Ret(d, Leaf("word", <<item[1]>>))
      [] item[1] \in QuoteMarks -> StringOf(d, unquoteBytes(item))
      [] item[1] \in Digits \cup {"+", ".", "Infinity"} -> NumberOf(d, convertNumber(d, item))
      [] item[1] = "new" -> getNewLiteral(scanWhile(d, "space"))
      [] item[1] = "/" -> getRegexpLiteral(scanWhile(d, "space"))
      [] item[1] \in Ctors -> getCtor(scanWhile(d, "space"), item[1])
AfterLiteral(r, start) == Literal(Back(r.d, r.op), Item(r.d, start))
literalInterface(d) == AfterLiteral(scanWhile(d, "continue"), d.off)

Begun(r, insideD) ==
    CASE r.op = "beginArray" -> arrayInterface(r.d, insideD)
      [] r.op = "beginObject" -> objectInterface(r.d, insideD, Leaf("object", <<>>))
      [] r.op = "beginLiteral" -> literalInterface(r.d)
      [] OTHER -> Fail(r.d, "errPhase")
valueInterface(d, insideD) == Begun(scanWhile(d, "space"), insideD)

(* unmarshalMap and unmarshalBsonD: the document at the top.               *)
Document(r, isD) ==
    IF r.op = "beginObject" THEN objectInterface(r.d, isD, Leaf("object", <<>>)) ELSE Fail(r.d, "errPhase")
unmarshal(d, isD) == Document(scanWhile(d, "space"), isD)
=============================================================================
