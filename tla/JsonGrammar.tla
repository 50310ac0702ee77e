----------------------------- MODULE JsonGrammar -----------------------------
(***************************************************************************)
(* What a text of extended JSON means, said without a scanner: where the   *)
(* value that begins at a place ends, and its tree.  JsonScanner and       *)
(* JsonDecoder are compared with it.  It is the language the decoder is    *)
(* tested for, with the extensions of the scanner the tests do not speak   *)
(* of: see Sign, Hex and MinKey.                                           *)
(***************************************************************************)
EXTENDS JsonScanner

(* A node: its kind, the text of a literal, its children, their keys.      *)
Node(kind, text, kids, keys) == [kind |-> kind, text |-> text, kids |-> kids, keys |-> keys]
Leaf(kind, text) == Node(kind, text, <<>>, <<>>)

None == [end |-> 0, tree |-> Leaf("none", <<>>)]
Found(end, tree) == [end |-> end, tree |-> tree]

AllIn(w, cs) == \A i \in DOMAIN w : w[i] \in cs
At(t, i) == IF i \in DOMAIN t THEN t[i] ELSE "end of text"
Cut(t, i, j) == SubSeq(t, i, j - 1)

(* The first place from i on that is not in cs.                            *)
After(t, i, cs) == CHOOSE j \in i .. Len(t) + 1 : At(t, j) \notin cs /\ AllIn(Cut(t, i, j), cs)

-----------------------------------------------------------------------------
(* Numbers.  Hex: the prefix may be any integer and the digits none.       *)
IsInt(w) == w = <<"0">> \/ (w # <<>> /\ w[1] = "1" /\ AllIn(w, Digits))
IsFraction(w) == w = <<>> \/ (Len(w) > 1 /\ w[1] = "." /\ AllIn(Tail(w), Digits))
IsExponent(w) ==
    \/ w = <<>>
    \/ \E i \in {2, 3} : /\ Len(w) >= i /\ w[1] = "e" /\ (i = 3 => w[2] = "+")
                         /\ AllIn(Cut(w, i, Len(w) + 1), Digits)
Unsigned(w) == IF w # <<>> /\ w[1] = "+" THEN Tail(w) ELSE w
IsHex(u) == \E i \in 2 .. Len(u) : IsInt(Cut(u, 1, i)) /\ u[i] = "x" /\ AllIn(Cut(u, i + 1, Len(u) + 1), HexDigits)
IsNumeral(w) ==
    LET u == Unsigned(w)
    IN  \/ IsHex(u)
        \/ \E i \in 1 .. Len(u) + 1, j \in 1 .. Len(u) + 1 :
             /\ i <= j
             /\ IsInt(Cut(u, 1, i)) \/ (i = 1 /\ j > 1)
             /\ IsFraction(Cut(u, i, j)) /\ IsExponent(Cut(u, j, Len(u) + 1))

(* A literal goes on as long as it can, and must be whole then.            *)
Numeral(t, i) ==
    LET longest == CHOOSE j \in i .. Len(t) + 1 :
                     /\ \A k \in i + 1 .. j : \E more \in {<<>>, <<"1">>} : IsNumeral(Cut(t, i, k) \o more)
                     /\ j <= Len(t) => \A more \in {<<>>, <<"1">>} : ~IsNumeral(Cut(t, i, j + 1) \o more)
    IN  IF IsNumeral(Cut(t, i, longest)) THEN Found(longest, Leaf("number", Cut(t, i, longest))) ELSE None

-----------------------------------------------------------------------------
(* Strings and regular expressions; the text has an element per character. *)
Escaped(c) == CASE c = "true" -> <<"tab", "rue">> [] c = "new" -> <<"nl", "ew">> [] OTHER -> <<c>>

(* From i, inside, to the quote; valid escapes only.                       *)
RECURSIVE Quote(_, _, _, _)
Quote(t, i, quote, seen) ==
    CASE At(t, i) \in {"nl", "end of text"} -> None
      [] At(t, i) = quote -> Found(i + 1, Leaf("string", seen))
      [] At(t, i) = "\\" /\ At(t, i + 1) \in {"\\", "/", "true", "new", IF quote = "/" THEN "'" ELSE quote} ->
           Quote(t, i + 2, quote, seen \o Escaped(t[i + 1]))
      [] At(t, i) = "\\" /\ At(t, i + 1) = "u" /\ \A k \in 2 .. 5 : At(t, i + k) \in HexDigits ->
           Quote(t, i + 6, quote, Append(seen, "u" \o t[i + 2] \o t[i + 3] \o t[i + 4] \o t[i + 5]))
      [] At(t, i) = "\\" -> None
      [] OTHER -> Quote(t, i + 1, quote, Append(seen, t[i]))

Regexp(t, i) ==
    LET pattern == Quote(t, i + 1, "/", <<>>)
        end == After(t, pattern.end, {"g"})
    IN  IF pattern = None THEN None
        ELSE Found(end, Node("regexp", pattern.tree.text, <<>>, <<Cut(t, pattern.end, end)>>))

Key(t, i) ==
    CASE At(t, i) \in {"\"", "'"} -> Quote(t, i + 1, t[i], <<>>)
      [] At(t, i) \in Letters -> LET end == After(t, i, Letters \cup Digits) IN Found(end, Leaf("string", Cut(t, i, end)))
      [] OTHER -> None

-----------------------------------------------------------------------------
RECURSIVE Value(_, _), Items(_, _, _, _), Members(_, _, _)

(* The values up to the bracket; i is where one must begin.                *)
Items(t, i, close, kids) ==
    LET v == Value(t, After(t, i, Space))
        next == After(t, v.end, Space)
        all == Append(kids, v.tree)
    IN  CASE v = None -> None
          [] At(t, next) = "," -> Items(t, next + 1, close, all)
          [] At(t, next) = close -> Found(next + 1, Node("array", <<>>, all, <<>>))
          [] OTHER -> None

Members(t, i, sofar) ==
    LET key == Key(t, After(t, i, Space))
        colon == After(t, key.end, Space)
        v == Value(t, After(t, colon + 1, Space))
        next == After(t, v.end, Space)
        all == [sofar EXCEPT !.kids = Append(@, v.tree), !.keys = Append(@, key.tree.text)]
    IN  CASE key = None -> None
          [] At(t, colon) # ":" -> None
          [] v = None -> None
          [] At(t, next) = "," -> Members(t, next + 1, all)
          [] At(t, next) = "}" -> Found(next + 1, all)
          [] OTHER -> None

(* After the opening bracket: empty, or values.                            *)
Listed(t, i, close) ==
    LET first == After(t, i, Space)
    IN  IF At(t, first) = close THEN Found(first + 1, Node("array", <<>>, <<>>, <<>>)) ELSE Items(t, i, close, <<>>)

Object(t, i) ==
    LET first == After(t, i, Space)
    IN  IF At(t, first) = "}" THEN Found(first + 1, Leaf("object", <<>>)) ELSE Members(t, i, Leaf("object", <<>>))

(* A constructor at i.                                                     *)
Constructor(t, i) ==
    LET open == After(t, i + 1, Space)
        args == Listed(t, open + 1, ")")
    IN  IF At(t, open) = "(" /\ args # None THEN Found(args.end, [args.tree EXCEPT !.kind = t[i]]) ELSE None

(* MinKey: parentheses may follow; at the very end of a text it is not one.*)
MinKey(t, i) ==
    LET open == After(t, i + 1, Space)
        close == After(t, open + 1, Space)
    IN  CASE At(t, open) = "(" /\ At(t, close) = ")" -> Found(close + 1, Leaf("word", <<"MinKey">>))
          [] At(t, open) \in {"(", "end of text"} -> None
          [] OTHER -> Found(open, Leaf("word", <<"MinKey">>))

Value(t, i) ==
    CASE At(t, i) = "{" -> Object(t, i + 1)
      [] At(t, i) = "[" -> Listed(t, i + 1, "]")
      [] At(t, i) \in {"\"", "'"} -> Quote(t, i + 1, t[i], <<>>)
      [] At(t, i) = "/" -> Regexp(t, i)
      [] At(t, i) = "true" -> Found(i + 1, Leaf("word", <<"true">>))
      [] At(t, i) = "Infinity" -> Found(i + 1, Leaf("number", <<"Infinity">>))
      [] At(t, i) = "MinKey" -> MinKey(t, i)
      [] At(t, i) \in Ctors -> Constructor(t, i)
      [] At(t, i) = "new" /\ At(t, i + 1) \in Space ->
           LET ctor == After(t, i + 1, Space)
           IN  IF At(t, ctor) \in Ctors \ {"ISODate"} THEN Constructor(t, ctor) ELSE None
      \* Sign: one may stand before Infinity, and before the constructor that begins with the same letter.
      [] At(t, i) = "+" /\ At(t, i + 1) = "Infinity" -> Found(i + 2, Leaf("number", <<"+", "Infinity">>))
      [] At(t, i) = "+" /\ At(t, i + 1) = "ISODate" ->
           LET ctor == Constructor(t, i + 1)
           IN  IF ctor = None THEN None ELSE [ctor EXCEPT !.tree.text = <<"+">>]
      [] At(t, i) \in Digits \cup {".", "+"} -> Numeral(t, i)
      [] OTHER -> None

(* A text that is one value.                                               *)
First(t) == Value(t, After(t, 1, Space))
IsValue(t) == First(t) # None /\ After(t, First(t).end, Space) > Len(t)
Tree(t) == First(t).tree
=============================================================================
