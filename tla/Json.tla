-------------------------------- MODULE Json --------------------------------
(***************************************************************************)
(* The Decoder of a stream of extended JSON (stream.go of legacy/json):    *)
(* its buffer, its reader, that returns what it likes to, and what the     *)
(* calls of DecodeMap and ScanObject return.  The bytes ScanObject returns *)
(* are given to UnmarshalBsonD, so that both decoders are seen.            *)
(*                                                                         *)
(* The text of the stream is chosen while it is read, from an alphabet.    *)
(*                                                                         *)
(* Other texts are given whole to checkValid, nextValue and Compact, not   *)
(* in pieces to a Decoder: every text over an alphabet is a state then,    *)
(* whatever the scanner makes of it.                                       *)
(***************************************************************************)
EXTENDS JsonDecoder

CONSTANTS
    Streams,   \* records: how the stream begins, its alphabet, its greatest
               \* length, the calls made, whether UseNumber is called, and how
               \* many errors other than EOF the reader returns
    Texts,     \* the same of the texts that are given whole: no call is made
    MaxRead,   \* most symbols of one Read
    MaxCalls   \* calls of one Decoder

ASSUME StreamAssumption ==
    /\ \A st \in Streams \cup Texts :
                           /\ st.begins \in Seq(Symbols) /\ st.alphabet \subseteq Symbols
                           /\ st.length \in Nat /\ st.calls \subseteq {"DecodeMap", "ScanObject"}
                           /\ st.modes \subseteq BOOLEAN /\ st.faults \in Nat
    /\ {MaxRead, MaxCalls} \subseteq Nat

VARIABLES
    stream,    \* the member of Streams or Texts
    input,     \* the text read so far, or the whole text
    useNumber, \* as UseNumber was called or not
    Buf, scan, scanp, readErr, err, \* of the Decoder; readErr: of the last Read
    d,         \* useNumber of its decodeState
    pc,        \* "idle", "scan", "read", "decode", "dead"; "whole": the input is a whole text
    call,
    out,       \* what the calls returned, in order
    faults, ended \* of the reader: EOF is its last word

vars == <<stream, input, useNumber, Buf, scan, scanp, readErr, err, d, pc, call, out, faults, ended>>

Init ==
    /\ \/ stream \in Streams /\ input = <<>> /\ pc = "idle"
       \/ stream \in Texts /\ input = stream.begins /\ pc = "whole"
    /\ useNumber \in stream.modes
    /\ Buf = <<>> /\ scan = Reset /\ scanp = 0 /\ readErr = "" /\ err = ""
    /\ d = useNumber /\ call = "" /\ out = <<>> /\ faults = 0 /\ ended = FALSE

-----------------------------------------------------------------------------
(* What the loop of readValue makes of the bytes from scanp on: where the  *)
(* value ends ("value"), "error", or that it goes on ("more"). The end of  *)
(* an object or array at the top is seen at once: a space is invented.     *)
InventSpace(st) == IF st.code \in {"endObject", "endArray"} THEN Step(st.s, " ") ELSE st

(* Plausible bug: the byte after the value belongs to it.                  *)
ScanBytesPast(s, from) ==
    FoldLeft(LAMBDA r, c :
               IF r.found # "more" THEN r
               ELSE LET st == Step(r.s, c)
                        sp == InventSpace(st)
                    IN  CASE st.code = "end" -> [r EXCEPT !.s = st.s, !.n = @ + 1, !.found = "value"]
                          [] st.code # "end" /\ sp.code = "end" -> [r EXCEPT !.s = sp.s, !.n = @ + 1, !.found = "value"]
                          [] st.code = "error" -> [r EXCEPT !.s = st.s, !.found = "error"]
                          [] OTHER -> [r EXCEPT !.s = sp.s, !.n = @ + 1],
             [s |-> s, n |-> from, found |-> "more"], SubSeq(Buf, from + 1, Len(Buf)))

ScanBytes(s, from) ==
    FoldLeft(LAMBDA r, c :
               IF r.found # "more" THEN r
               ELSE LET st == Step(r.s, c)
                        sp == InventSpace(st)
                    IN  CASE st.code = "end" -> [r EXCEPT !.s = st.s, !.found = "value"]
                          [] st.code # "end" /\ sp.code = "end" -> [r EXCEPT !.s = sp.s, !.n = @ + 1, !.found = "value"]
                          [] st.code = "error" -> [r EXCEPT !.s = st.s, !.found = "error"]
                          [] OTHER -> [r EXCEPT !.s = sp.s, !.n = @ + 1],
             [s |-> s, n |-> from, found |-> "more"], SubSeq(Buf, from + 1, Len(Buf)))

nonSpace(text) == \E i \in DOMAIN text : text[i] \notin Space

Return(item, fail, v, saved) ==
    out' = Append(out, [call |-> call, item |-> item, fail |-> fail, v |-> v, saved |-> saved])
Unchanged == UNCHANGED <<stream, useNumber, call>>
Reader == <<input, readErr, faults, ended>>

(* readValue fails, for good.                                              *)
Broken(why) ==
    /\ err' = why /\ pc' = "idle" /\ Return(<<>>, why, Nothing, FALSE)
    /\ UNCHANGED <<Buf, scanp, d, Reader>> /\ Unchanged

(* readValue has found a value of n bytes.                                 *)
Finish(n) ==
    /\ scanp' = n /\ pc' = "decode"
    /\ UNCHANGED <<Buf, err, d, out, Reader>> /\ Unchanged

(* It is decoded (or copied), and cut off the buffer.  The decodeState is  *)
(* the one of the calls before.  A runtime error is passed on before the   *)
(* buffer is slid.                                                         *)
Decode ==
    LET item == SubSeq(Buf, 1, scanp)
        isMap == call = "DecodeMap"
        r == unmarshal(init(isMap /\ d, item), ~isMap)
    IN  /\ pc = "decode"
        /\ Return(item, r.d.fail, r.v, r.d.saved)
        /\ d' = IF isMap THEN r.d.useNumber ELSE d
        /\ pc' = IF r.d.fail \in {"type", "undo"} THEN "dead" ELSE "idle"
        /\ Buf' = IF r.d.fail \in {"type", "undo"} THEN Buf ELSE SubSeq(Buf, scanp + 1, Len(Buf))
        /\ UNCHANGED <<scan, scanp, err, Reader>> /\ Unchanged

(* DecodeMap and ScanObject.  The error of readValue stays.                *)
Call(c) ==
    /\ pc = "idle" /\ Len(out) < MaxCalls /\ c \in stream.calls
    /\ call' = c
    /\ IF err # ""
       THEN /\ out' = Append(out, [call |-> c, item |-> <<>>, fail |-> err, v |-> Nothing, saved |-> FALSE])
            /\ UNCHANGED <<scan, scanp, readErr, pc>>
       ELSE /\ scan' = Reset /\ scanp' = 0 /\ readErr' = "" /\ pc' = "scan"
            /\ UNCHANGED out
    /\ UNCHANGED <<stream, input, useNumber, Buf, err, d, faults, ended>>

(* The part of the buffer that was not scanned yet; then what the last     *)
(* Read said.  EOF ends a value that may end.                              *)
ScanBuf ==
    LET r == ScanBytes(scan, scanp)
        last == Step(r.s, " ")
    IN  /\ pc = "scan"
        /\ scan' = IF r.found = "more" /\ readErr = "EOF" THEN last.s ELSE r.s
        /\ CASE r.found = "value" -> Finish(r.n)
             [] r.found = "error" -> Broken("syntax")
             [] r.found = "more" /\ readErr = "EOF" /\ last.code = "end" -> Finish(Len(Buf))
             [] r.found = "more" /\ readErr = "EOF" /\ last.code # "end" ->
                  Broken(IF nonSpace(Buf) THEN "unexpected EOF" ELSE "EOF")
             [] r.found = "more" /\ readErr = "error" -> Broken("error")
             [] r.found = "more" /\ readErr = "" ->
                  /\ scanp' = Len(Buf) /\ pc' = "read"
                  /\ UNCHANGED <<Buf, err, d, out, Reader>> /\ Unchanged

(* The reader: some bytes, none, with an error or without.                 *)
Chunks ==
    IF input = <<>> /\ stream.begins # <<>> THEN {stream.begins}
    ELSE UNION {[1 .. n -> stream.alphabet] : n \in 0 .. (IF Len(input) + MaxRead <= stream.length THEN MaxRead
                                                         ELSE stream.length - Len(input))}

Read ==
    /\ pc = "read"
    /\ \E chunk \in Chunks, e \in {"", "EOF", "error"} :
         /\ chunk # <<>> \/ e # ""
         /\ ended => chunk = <<>> /\ e = "EOF"
         /\ ended' = (e = "EOF")
         /\ e = "error" => faults < stream.faults
         /\ faults' = faults + (IF e = "error" THEN 1 ELSE 0)
         /\ input' = input \o chunk /\ Buf' = Buf \o chunk /\ readErr' = e
    /\ pc' = "scan"
    /\ UNCHANGED <<scan, scanp, err, d, out>> /\ Unchanged

(* The texts that are given whole: each is the beginning of longer ones.   *)
Longer ==
    /\ pc = "whole" /\ Len(input) < stream.length
    /\ \E c \in stream.alphabet : input' = Append(input, c)
    /\ UNCHANGED <<Buf, scan, scanp, readErr, err, d, pc, out, faults, ended>> /\ Unchanged

Next == (\E c \in {"DecodeMap", "ScanObject"} : Call(c)) \/ ScanBuf \/ Read \/ Decode \/ Longer

Spec == Init /\ [][Next]_vars

-----------------------------------------------------------------------------
(* The values have the shapes the decoder needs; the scanner is not past   *)
(* its buffer.                                                             *)
TypeOK ==
    /\ stream \in Streams \cup Texts /\ {useNumber, d, ended} \subseteq BOOLEAN
    /\ AllIn(input, Symbols) /\ faults \in 0 .. stream.faults
    /\ pc \in {"idle", "scan", "read", "decode", "dead", "whole"} /\ (pc # "idle" => scanp <= Len(Buf))
    /\ readErr \in {"", "EOF", "error"} /\ err \in {"", "EOF", "unexpected EOF", "syntax", "error"}
    /\ Len(out) <= MaxCalls

Consumed(n) == FlattenSeq([i \in 1 .. n |-> out[i].item])
From(n) == SubSeq(input, n + 1, Len(input))

(* However the reader cuts the stream, the calls return the values of the  *)
(* text one after the other, none torn, none twice and no byte lost.       *)
StreamIsSplit ==
    pc = "idle" =>
        /\ input = Consumed(Len(out)) \o Buf
        /\ \A i \in DOMAIN out :
             out[i].item # <<>> => First(From(Len(Consumed(i - 1)))).end - 1 = Len(out[i].item)

(* A Decoder that has stopped for good has reason to: what is left does    *)
(* not begin with a value, and after EOF it is only space.                 *)
StopsWithReason ==
    /\ err \in {"syntax", "unexpected EOF"} => First(Buf) = None /\ ~AllIn(Buf, Space)
    /\ err \in {"EOF", "unexpected EOF"} => ended
    /\ err = "EOF" => AllIn(Buf, Space)

(* readValue does not wait for a byte after the bracket that ends a value: *)
(* an interactive reader would block ("instead invent a space byte").      *)
NoNeedlessRead ==
    (pc = "read" /\ First(Buf) # None) =>
        First(Buf).end > Len(Buf) /\ First(Buf).tree.kind \notin {"object", "array"}

(* checkValid, which Unmarshal trusts before it decodes, takes the texts   *)
(* of the grammar and no others, and nextValue cuts off the first value of *)
(* a text that begins with one; so that the table of states of the         *)
(* scanner, its stack and eof fit together.                                *)
ScannerIsGrammar(text) ==
    /\ checkValid(text) = IsValue(text)
    /\ First(text) # None => nextValue(text) = First(text).end - 1

(* Compact drops no byte that means something: spaces inside strings,      *)
(* inside regular expressions and after new stay.  It drops all others,    *)
(* but for those between MinKey and its parentheses.                       *)
CompactKeepsMeaning(text) ==
    IsValue(text) =>
      LET c == compact(text)
      IN  /\ IsValue(c) /\ Tree(c) = Tree(text)
          /\ \A i \in DOMAIN c : c[i] \in Space /\ "MinKey" \notin Range(c) =>
               LET without == SubSeq(c, 1, i - 1) \o SubSeq(c, i + 1, Len(c))
               IN  ~IsValue(without) \/ Tree(without) # Tree(text)

(* Of every text, valid or not, whole documents among them: the scanner,   *)
(* checkValid, nextValue and compact agree with the grammar.               *)
TextsAreRight == pc = "whole" => ScannerIsGrammar(input) /\ CompactKeepsMeaning(input)

-----------------------------------------------------------------------------
(* The tree of the grammar as a document has it: a map keeps the last of   *)
(* equal keys, a bson.D all; a constructor has maps.                       *)
RECURSIVE Meaning(_, _)
Meaning(t, isD) ==
    LET keep == SelectSeq([i \in DOMAIN t.keys |-> i],
                          LAMBDA i : isD \/ \A j \in DOMAIN t.keys : j > i => t.keys[j] # t.keys[i])
        kids == [i \in DOMAIN t.kids |-> Meaning(t.kids[i], isD /\ t.kind \notin Ctors)]
    IN  IF t.kind # "object" THEN [t EXCEPT !.kids = kids]
        ELSE [t EXCEPT !.kids = [i \in DOMAIN keep |-> kids[keep[i]]], !.keys = [i \in DOMAIN keep |-> t.keys[keep[i]]]]

(* What was decoded, without what a number became.                         *)
RECURSIVE Erased(_)
Erased(v) ==
    [v EXCEPT !.kind = IF @ \in NumberKinds THEN "number" ELSE @, !.text = IF v.kind \in Ctors THEN <<>> ELSE @,
              !.kids = [i \in DOMAIN v.kids |-> Erased(v.kids[i])]]

RECURSIVE Nodes(_)
Nodes(t) == {t} \cup UNION {Nodes(t.kids[i]) : i \in DOMAIN t.kids}

(* The trees no error is expected of.                                      *)
SignedCtor(t) == t.kind \in Ctors /\ t.text # <<>>
Plain(t) ==
    /\ t.kind = "object"
    /\ \A n \in Nodes(t) : /\ n.kind \notin Ctors
                           /\ n.kind = "regexp" => n.text # <<>>
                           /\ n.kind = "number" => IsInteger(n.text) \/ IsFloat(n.text)

(* The decoder, that follows the scanner a byte behind and hands it bytes  *)
(* back, builds the tree of the text; it fails only for what a constructor *)
(* is given, an empty regular expression and numbers no one can convert;   *)
(* out of step with the scanner ("errors that should not happen unless     *)
(* there is a bug") it gets by a sign before a constructor alone, or when  *)
(* the value is no document.                                               *)
DecodedIsMeant ==
    (pc \in {"idle", "dead"} /\ out # <<>>) =>
        LET o == Last(out)
            t == Tree(o.item)
        IN  (o.item # <<>> /\ IsValue(o.item)) =>
            /\ (o.fail = "" /\ ~o.saved) => Erased(o.v) = Meaning(t, o.call = "ScanObject")
            /\ Plain(t) => (o.fail = "" /\ ~o.saved)
            /\ o.fail = "errPhase" => (t.kind # "object" \/ \E n \in Nodes(t) : SignedCtor(n))
            /\ o.fail # "undo"

(* UseNumber says what numbers become, in every value of the stream: the   *)
(* constructors set the flag for their arguments and put it back.  Not     *)
(* Boolean, and none that fails: nothing is said of what comes after.      *)
RECURSIVE PlainNumbers(_)
PlainNumbers(v) ==
    IF v.kind \in NumberKinds THEN {v}
    ELSE IF v.kind \in Ctors THEN {} ELSE UNION {PlainNumbers(v.kids[i]) : i \in DOMAIN v.kids}

Undisturbed(i) == out[i].call = "DecodeMap" /\ \A j \in 1 .. i : out[j].fail = ""
AsAsked(i) == \A n \in PlainNumbers(out[i].v) : (n.kind = "Number") = useNumber

NumbersAreAsAsked ==
    pc = "idle" => \A i \in DOMAIN out :
        (Undisturbed(i) /\ \A j \in 1 .. i : \A n \in Nodes(Tree(out[j].item)) : n.kind # "Boolean") => AsAsked(i)

(* "UseNumber causes the Decoder to unmarshal a number into an interface{} *)
(* as a Number instead of as a float64" (stream.go:34): so nothing else    *)
(* does, also not a Boolean before the number, that means to "Prevent      *)
(* d.convertNumber() from parsing the argument" (boolean.go:44).           *)
OnlyUseNumberDoes == pc = "idle" => \A i \in DOMAIN out : Undisturbed(i) => AsAsked(i)

(* The Decoder cuts a stream into its values, stops for a reason and reads *)
(* no further than it has to.                                              *)
StreamIsRight == TypeOK /\ StreamIsSplit /\ StopsWithReason /\ NoNeedlessRead

(* A value is decoded to what it means, with the kind of numbers asked     *)
(* for.                                                                    *)
ValuesAreRight == DecodedIsMeant /\ NumbersAreAsAsked
=============================================================================
