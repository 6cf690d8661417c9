------------------------------ MODULE JsonParser ------------------------------
(***************************************************************************)
(* The part of the JSON parser in client/src/include/rapidjson that the    *)
(* client program runs on its configuration: reader.h (default flags) with *)
(* the document of document.h as its handler, over FileReadStream.         *)
(*                                                                         *)
(* A text is a sequence of symbols: a brace, bracket, colon, comma, quote, *)
(* digit or line break is one, and so are the words true, false and null   *)
(* and every run of characters between quotes that no write splits.  The   *)
(* recursive calls of ParseValue, ParseObject and ParseArray are the       *)
(* sequence "open", innermost call last, and the parser takes one symbol   *)
(* at a time.  Escapes, signs, fractions and exponents are left out: the   *)
(* configuration never holds any.                                          *)
(***************************************************************************)
EXTENDS Integers, Sequences, SequencesExt

Quote == "'"
Break == "\n"
EOF == "\\0"
LeftBrace == "{"
RightBrace == "}"
Digits == <<"0", "1", "2", "3", "4", "5", "6", "7", "8", "9">>
DigitSymbols == Range(Digits)
DigitValue(c) == (CHOOSE i \in 1..10 : Digits[i] = c) - 1

\* Values of the document.
Null == [type |-> "null"]
Bool(b) == [type |-> "bool", value |-> b]
Uint(n) == [type |-> "number", value |-> n]
String(chars) == [type |-> "string", value |-> chars]
Object(members) == [type |-> "object", value |-> members]
Array(elements) == [type |-> "array", value |-> elements]

(***************************************************************************)
(* A parser: what the innermost call expects, the open calls of            *)
(* ParseObject and ParseArray with their counts, the stack of the          *)
(* document, the string or number being read, and parseResult_.            *)
(***************************************************************************)
Start == [expects |-> "value", open |-> <<>>, stack |-> <<>>,
          chars |-> <<>>, number |-> 0, error |-> "none"]

Fails(p, code) == [p EXCEPT !.error = code]
Expect(p, what) == [p EXCEPT !.expects = what]

Push(p, v) == [p EXCEPT !.stack = Append(@, v)]
Enter(p, kind) == [p EXCEPT !.open = Append(@, [kind |-> kind, count |-> 0])]
Leave(p) == [p EXCEPT !.open = Front(@)]

\* ParseValue returns to the call that is open, which counts the value.
ValueDone(p) ==
  IF p.open = <<>> THEN Expect(p, "end")
  ELSE [p EXCEPT !.expects = "separator", !.open[Len(p.open)].count = @ + 1]

\* The n topmost entries of the stack become the contents of the one under them.
TopOf(p, n) == SubSeq(p.stack, Len(p.stack) - n + 1, Len(p.stack))
Under(p, n) == SubSeq(p.stack, 1, Len(p.stack) - n - 1)

\* The innermost call returns with its value in the place of n entries and their head.
Close(p, n, made) == ValueDone(Leave([p EXCEPT !.stack = Append(Under(p, n), made)]))

EndObject(p) ==
  LET count == Last(p.open).count
      raw   == TopOf(p, 2 * count)
  IN Close(p, 2 * count,
           Object([i \in 1..count |-> [name |-> raw[2 * i - 1].value, value |-> raw[2 * i]]]))

EndArray(p) ==
  LET count == Last(p.open).count IN Close(p, count, Array(TopOf(p, count)))

---------------------------------------------------------------------------
ParseNumber(p, c) ==
  IF c \in DigitSymbols
  THEN [Expect(p, IF c = "0" THEN "zero" ELSE "digits") EXCEPT !.number = DigitValue(c)]
  ELSE Fails(p, "ValueInvalid")

ParseDigit(p, c) == [p EXCEPT !.number = 10 * @ + DigitValue(c)]

InNumber(p, c) == \/ p.expects = "digits" /\ c \notin DigitSymbols
                  \/ p.expects = "zero"

NumberDone(p) == ValueDone(Push(p, Uint(p.number)))

ParseValue(p, c) ==
  CASE c = "null"  -> ValueDone(Push(p, Null))
    [] c = "true"  -> ValueDone(Push(p, Bool(TRUE)))
    [] c = "false" -> ValueDone(Push(p, Bool(FALSE)))
    [] c = Quote   -> [Expect(p, "valueChars") EXCEPT !.chars = <<>>]
    [] c = LeftBrace     -> Expect(Enter(Push(p, Object(<<>>)), "object"), "firstName")
    [] c = "["     -> Expect(Enter(Push(p, Array(<<>>)), "array"), "firstElement")
    [] c = EOF /\ p.stack = <<>> -> Fails(p, "DocumentEmpty")
    [] OTHER       -> ParseNumber(p, c)

ParseString(p, c) ==
  LET read == Push(p, String(p.chars))
  IN CASE c = Quote -> IF p.expects = "nameChars" THEN Expect(read, "colon") ELSE ValueDone(read)
       [] c = EOF   -> Fails(p, "StringMissQuotationMark")
       [] c = Break -> Fails(p, "StringInvalidEncoding")
       [] OTHER     -> [p EXCEPT !.chars = Append(@, c)]

ParseName(p, c) ==
  CASE c = Quote -> [Expect(p, "nameChars") EXCEPT !.chars = <<>>]
    [] c = RightBrace /\ p.expects = "firstName" -> EndObject(p)
    [] OTHER     -> Fails(p, "ObjectMissName")

ParseColon(p, c) ==
  IF c = ":" THEN Expect(p, "value") ELSE Fails(p, "ObjectMissColon")

ParseFirstElement(p, c) ==
  IF c = "]" THEN EndArray(p) ELSE ParseValue(p, c)

ParseSeparator(p, c) ==
  IF Last(p.open).kind = "object"
  THEN CASE c = "," -> Expect(p, "name")
         [] c = RightBrace -> EndObject(p)
         [] OTHER   -> Fails(p, "ObjectMissCommaOrCurlyBracket")
  ELSE CASE c = "," -> Expect(p, "value")
         [] c = "]" -> EndArray(p)
         [] OTHER   -> Fails(p, "ArrayMissCommaOrSquareBracket")

\* Mutant: what follows the root is not looked at.
ParseEndStopWhenDone(p, c) == p

\* Only white space may follow the root.
ParseEnd(p, c) ==
  IF c = EOF THEN p ELSE Fails(p, "DocumentRootNotSingular")

SkipsWhitespace(p, c) == c = Break /\ p.expects \notin {"valueChars", "nameChars"}

Scan(p, c) ==
  IF SkipsWhitespace(p, c) THEN p
  ELSE CASE p.expects = "value"                    -> ParseValue(p, c)
         [] p.expects \in {"valueChars", "nameChars"} -> ParseString(p, c)
         [] p.expects \in {"firstName", "name"}   -> ParseName(p, c)
         [] p.expects = "colon"                    -> ParseColon(p, c)
         [] p.expects = "firstElement"             -> ParseFirstElement(p, c)
         [] p.expects = "separator"                -> ParseSeparator(p, c)
         [] p.expects = "digits"                   -> ParseDigit(p, c)
         [] p.expects = "end"                      -> ParseEnd(p, c)

(***************************************************************************)
(* One symbol: nothing after an error; the first symbol that is not a      *)
(* digit ends a number and is then looked at by the call that is open.     *)
(***************************************************************************)
Step(p, c) ==
  IF p.error # "none" THEN p
  ELSE Scan(IF InNumber(p, c) THEN NumberDone(p) ELSE p, c)

Run(p, text) ==
  LET after[i \in 0..Len(text)] == IF i = 0 THEN p ELSE Step(after[i - 1], text[i])
  IN after[Len(text)]

Parse(text) == Step(Run(Start, text), EOF)

\* The document is the one value on the stack, and stays null after an error.
ParseStream(text) ==
  LET p == Parse(text) IN IF p.error = "none" THEN Head(p.stack) ELSE Null

HasMember(object, name) ==
  object.type = "object" /\ \E i \in DOMAIN object.value : object.value[i].name = <<name>>

Member(object, name) ==
  LET i == CHOOSE j \in DOMAIN object.value :
             /\ object.value[j].name = <<name>>
             /\ \A k \in 1..(j - 1) : object.value[k].name # <<name>>
  IN object.value[i].value
===============================================================================
