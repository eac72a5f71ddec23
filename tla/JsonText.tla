------------------------------ MODULE JsonText ------------------------------
(***************************************************************************)
(* The text side of JSON: the recursive descent that turns a text into a   *)
(* tree (ParseNode), and the getters that never build a tree but walk the  *)
(* text again for every call (FindKey, FindNestedKey).  The code has two   *)
(* of everything: a parser that keeps what it reads and one that only      *)
(* skips it.                                                               *)
(*                                                                         *)
(* A text is a sequence of symbols.  The words true, false and null and    *)
(* the letters, digits and control characters are one symbol each; "lf" is *)
(* a line feed, which is white space outside strings, and "ctl" a control  *)
(* character without an escape of its own.  Fractions and exponents are    *)
(* left out.  Position 0 stands for the failure of a function; there is    *)
(* nothing to read at it, so what reads on from a failure fails as well.   *)
(*                                                                         *)
(* A function of the code that calls itself or loops is a function over    *)
(* the positions of the text: what it gives at one position follows from   *)
(* what it gives further on.                                               *)
(***************************************************************************)
EXTENDS Integers, Sequences, FiniteSets

CONSTANTS
    Bodies,       \* the texts a client may send
    GetterKeys,   \* the keys the getters are asked for
    GetterPaths   \* the paths the nested getters are asked for

\* No symbol of a text stands for its end.
ASSUME BodiesAssumption == Bodies \subseteq Seq(STRING \ {"end"})
ASSUME PathsAssumption  == GetterPaths \subseteq Seq([key : Seq(STRING), index : Int])

VARIABLE bodies   \* the bodies of the requests at hand

Digits     == {"0", "1"}
Whitespace == {"lf"}
Fail       == 0

Positions(s) == 1 .. Len(s) + 1
At(s, pos)   == IF pos \in DOMAIN s THEN s[pos] ELSE "end"

\* The first position from pos on that is not in a set of symbols.
FirstNot(s, pos, symbols) ==
    CHOOSE q \in pos .. Len(s) + 1 :
        /\ At(s, q) \notin symbols
        /\ \A k \in pos .. q - 1 : At(s, k) \in symbols
SkipWhitespace(s, pos) == FirstNot(s, pos, Whitespace)

\* The position behind a symbol that must come next.
Past(s, pos, symbol)  == IF At(s, pos) = symbol THEN pos + 1 ELSE Fail
After(s, pos, symbol) == Past(s, SkipWhitespace(s, pos), symbol)

Parsed(next, value) == [next |-> next, value |-> value]
NotParsed == Parsed(Fail, <<>>)
\* What is read with an item in front of it, and what is read made a node.
Joined(item, rest) ==
    IF rest.next = Fail THEN NotParsed ELSE Parsed(rest.next, <<item>> \o rest.value)
Made(parsed, node) == IF parsed.next = Fail THEN NotParsed ELSE Parsed(parsed.next, node)

-----------------------------------------------------------------------------
(* Strings, numbers and words.                                             *)

\* What is read for the character behind a backslash; "u" is nothing special.
Unescaped(c) == IF c = "n" THEN "lf" ELSE c

\* The rest of a string, from every position behind its opening quote.
CharsFrom(s, rest, pos) ==
    CASE At(s, pos) = "end"   -> NotParsed
      [] At(s, pos) = "quote" -> Parsed(pos + 1, <<>>)
      [] At(s, pos) = "bs" /\ pos < Len(s) -> Joined(Unescaped(s[pos + 1]), rest[pos + 2])
      [] OTHER                -> Joined(s[pos], rest[pos + 1])
StringRest(s) == LET rest[pos \in Positions(s)] == CharsFrom(s, rest, pos) IN rest
OpenString(s, open)  == IF open = Fail THEN NotParsed ELSE StringRest(s)[open]
ParseString(s, from) == OpenString(s, After(s, from, "quote"))

\* strtod: a sign without digits is zero.
Decimal(ds) ==
    LET number[n \in 0 .. Len(ds)] ==
            IF n = 0 THEN 0 ELSE 10 * number[n - 1] + (IF ds[n] = "1" THEN 1 ELSE 0)
    IN  number[Len(ds)]
ParseNumber(s, from) ==
    LET start == SkipWhitespace(s, from)
        first == IF At(s, start) = "minus" THEN start + 1 ELSE start
        pos   == FirstNot(s, first, Digits)
        size  == Decimal(SubSeq(s, first, pos - 1))
    IN  IF pos = start THEN NotParsed
        ELSE Parsed(pos, IF first > start THEN -size ELSE size)

Booleans == {"true", "false"}
ParseBool(s, from) ==
    LET pos == SkipWhitespace(s, from) IN
    IF At(s, pos) \in Booleans THEN Parsed(pos + 1, At(s, pos) = "true") ELSE NotParsed
ParseNull(s, from) ==
    LET pos == SkipWhitespace(s, from) IN
    IF At(s, pos) = "null" THEN Parsed(pos + 1, TRUE) ELSE NotParsed

-----------------------------------------------------------------------------
(* The parser that builds a tree.                                          *)

MakeNull           == [null |-> TRUE]
MakeNumber(value)  == [number |-> value]
MakeBoolean(value) == [boolean |-> value]
MakeString(value)  == [string |-> value]
MakeObject(members)  == [object |-> members]
MakeArray(elements)  == [array |-> elements]
Is(type, node)       == type \in DOMAIN node

\* What can be read at a position: a value, or the rest of the members of an
\* object or of the elements of an array, without and with the end.
Parts == {"value", "members", "elements"}
ReadPart(read, pos, part) == IF pos = Fail THEN NotParsed ELSE read[pos][part]

ParseObjectNode(s, read, first) ==
    IF At(s, first) = "rbrace" THEN Parsed(first + 1, MakeObject(<<>>))
    ELSE Made(read[first]["members"], MakeObject(read[first]["members"].value))
ParseArrayNode(s, read, first) ==
    IF At(s, first) = "rbracket" THEN Parsed(first + 1, MakeArray(<<>>))
    ELSE Made(read[first]["elements"], MakeArray(read[first]["elements"].value))

NodeFrom(s, read, pos) ==
    CASE At(s, pos) = "end"   -> NotParsed
      [] At(s, pos) = "lbrace"   -> ParseObjectNode(s, read, SkipWhitespace(s, pos + 1))
      [] At(s, pos) = "lbracket" -> ParseArrayNode(s, read, SkipWhitespace(s, pos + 1))
      [] At(s, pos) = "quote" ->
             Made(ParseString(s, pos), MakeString(ParseString(s, pos).value))
      [] At(s, pos) \in Booleans ->
             Made(ParseBool(s, pos), MakeBoolean(ParseBool(s, pos).value))
      [] At(s, pos) \in {"null", "n"} -> Made(ParseNull(s, pos), MakeNull)
      [] OTHER -> Made(ParseNumber(s, pos), MakeNumber(ParseNumber(s, pos).value))
ValueFrom(s, read, pos) == NodeFrom(s, read, SkipWhitespace(s, pos))

\* Behind a member or an element: a comma and more, or the end.
More(s, read, pos, part, close) ==
    CASE At(s, pos) = close   -> Parsed(pos + 1, <<>>)
      [] At(s, pos) = "comma" -> read[pos + 1][part]
      [] OTHER                -> NotParsed
WithMember(s, read, key, value) ==
    Joined(<<key.value, value.value>>,
           More(s, read, SkipWhitespace(s, value.next), "members", "rbrace"))
MemberFrom(s, read, key) ==
    WithMember(s, read, key, ReadPart(read, After(s, key.next, "colon"), "value"))
MembersFrom(s, read, pos) == MemberFrom(s, read, ParseString(s, pos))
WithElement(s, read, value) ==
    Joined(value.value,
           More(s, read, SkipWhitespace(s, value.next), "elements", "rbracket"))
ElementsFrom(s, read, pos) == WithElement(s, read, ValueFrom(s, read, pos))

PartFrom(s, read, pos, part) ==
    CASE part = "value"    -> ValueFrom(s, read, pos)
      [] part = "members"  -> MembersFrom(s, read, pos)
      [] part = "elements" -> ElementsFrom(s, read, pos)
Read(s) ==
    LET read[pos \in Positions(s)] == [part \in Parts |-> PartFrom(s, read, pos, part)]
    IN  read
ParseNodeValue(s, from) == ReadPart(Read(s), from, "value")

\* Mutant: what follows the value is not looked at.
ParsePrefix(s) == ParseNodeValue(s, 1)

\* The whole text must be one value.
Whole(s, parsed) ==
    IF parsed.next # Fail /\ SkipWhitespace(s, parsed.next) = Len(s) + 1
    THEN parsed ELSE NotParsed
ParseNode(s) == Whole(s, ParseNodeValue(s, 1))
Accepted(s) == ParseNode(s).next # Fail

-----------------------------------------------------------------------------
(* The walk over the text.  Every function returns a position or Fail.     *)

SkipPart(skip, pos, part) == IF pos = Fail THEN Fail ELSE skip[pos][part]

SkipItems(s, skip, first, part, close) ==
    IF At(s, first) = close THEN first + 1 ELSE skip[first][part]
SkipFrom(s, skip, pos) ==
    CASE At(s, pos) = "end"   -> Fail
      [] At(s, pos) = "quote" -> ParseString(s, pos).next
      [] At(s, pos) = "lbrace" ->
             SkipItems(s, skip, SkipWhitespace(s, pos + 1), "members", "rbrace")
      [] At(s, pos) = "lbracket" ->
             SkipItems(s, skip, SkipWhitespace(s, pos + 1), "elements", "rbracket")
      [] At(s, pos) \in Booleans      -> ParseBool(s, pos).next
      [] At(s, pos) \in {"null", "n"} -> ParseNull(s, pos).next
      [] OTHER                -> ParseNumber(s, pos).next
SkipValueFrom(s, skip, pos) == SkipFrom(s, skip, SkipWhitespace(s, pos))

SkipMore(s, skip, pos, part, close) ==
    CASE At(s, pos) = close   -> pos + 1
      [] At(s, pos) = "comma" -> skip[pos + 1][part]
      [] OTHER                -> Fail
SkipMembersFrom(s, skip, pos) ==
    LET next == SkipPart(skip, After(s, ParseString(s, pos).next, "colon"), "value") IN
    SkipMore(s, skip, SkipWhitespace(s, next), "members", "rbrace")
SkipElementsFrom(s, skip, pos) ==
    LET next == SkipValueFrom(s, skip, pos) IN
    SkipMore(s, skip, SkipWhitespace(s, next), "elements", "rbracket")

SkipPartFrom(s, skip, pos, part) ==
    CASE part = "value"    -> SkipValueFrom(s, skip, pos)
      [] part = "members"  -> SkipMembersFrom(s, skip, pos)
      [] part = "elements" -> SkipElementsFrom(s, skip, pos)
Skip(s) ==
    LET skip[pos \in Positions(s)] == [part \in Parts |-> SkipPartFrom(s, skip, pos, part)]
    IN  skip
SkipValue(s, from) == SkipPart(Skip(s), from, "value")

\* Between two members or elements a missing comma goes unseen.
PastComma(s, pos)    == IF At(s, pos) = "comma" THEN pos + 1 ELSE pos
NextItem(s, from)    == PastComma(s, SkipWhitespace(s, SkipValue(s, from)))
MemberValue(s, name) == SkipWhitespace(s, After(s, name.next, "colon"))

FindPart(find, pos) == IF pos = Fail THEN Fail ELSE find[pos]

\* Mutant: the search goes on behind the first member that has the key.
ThisOrLater(s, find, name, value, key) ==
    LET later == FindPart(find, NextItem(s, value)) IN
    CASE value = Fail -> Fail
      [] value # Fail /\ (later # Fail \/ name.value # key) -> later
      [] OTHER -> value
LaterAt(s, find, name, key) == ThisOrLater(s, find, name, MemberValue(s, name), key)
LastKeyFrom(s, from, key) ==
    LET find[pos \in Positions(s)] == LaterAt(s, find, ParseString(s, pos), key)
    IN  FindPart(find, from)

\* Where the value of a key starts.
ThisOrNext(s, find, name, value, key) ==
    CASE value = Fail -> Fail
      [] value # Fail /\ name.value = key -> value
      [] OTHER -> FindPart(find, NextItem(s, value))
FindAt(s, find, name, key) == ThisOrNext(s, find, name, MemberValue(s, name), key)
FindKeyFrom(s, from, key) ==
    LET find[pos \in Positions(s)] == FindAt(s, find, ParseString(s, pos), key)
    IN  FindPart(find, from)
FindKey(s, key) == FindKeyFrom(s, After(s, 1, "lbrace"), key)

\* The text of the value at a position, <<>> when there is none.
Part(s, from, next) == IF next = Fail THEN <<>> ELSE SubSeq(s, from, next - 1)
ValueText(s, pos)   == Part(s, pos, SkipValue(s, pos))

\* The element of an array, by skipping those before it.
ElementFrom(s, from, index) ==
    LET item[i \in 0 .. index] == IF i = 0 THEN from ELSE NextItem(s, item[i - 1])
    IN  SkipWhitespace(s, item[index])
FindElement(s, index) == ElementFrom(s, After(s, 1, "lbracket"), index)

\* A path is a sequence of segments, a key (or none) and an index (or -1).
\* The text of the value it leads to, <<>> when there is none.
IntoKey(s, key)     == IF key = <<>> THEN s ELSE ValueText(s, FindKey(s, key))
IntoIndex(s, index) == IF index < 0 THEN s ELSE ValueText(s, FindElement(s, index))
FindNestedKey(s, path) ==
    LET subJson[i \in 0 .. Len(path)] ==
            IF i = 0 THEN s
            ELSE IntoIndex(IntoKey(subJson[i - 1], path[i].key), path[i].index)
    IN  subJson[Len(path)]

\* The getters: the value, or the script's default.
OrElse(parsed, default) == IF parsed.next = Fail THEN default ELSE parsed.value
GetString(s, key, default) == OrElse(ParseString(s, FindKey(s, key)), default)
GetInt(s, key, default)    == OrElse(ParseNumber(s, FindKey(s, key)), default)
GetBool(s, key, default)   == OrElse(ParseBool(s, FindKey(s, key)), default)
HasKey(s, key)             == FindKey(s, key) # Fail
GetNestedString(s, path, default) == OrElse(ParseString(FindNestedKey(s, path), 1), default)
GetNestedInt(s, path, default)    == OrElse(ParseNumber(FindNestedKey(s, path), 1), default)

\* A text that ends behind a comma ends the count.
OneMore(count) == IF count < 0 THEN -1 ELSE count + 1
CountRest(s, count, pos) ==
    CASE At(s, pos) = "rbracket" -> 1
      [] At(s, pos) = "comma"    -> OneMore(count[pos + 1])
      [] OTHER                   -> -1
CountAt(s, count, pos) ==
    IF pos > Len(s) THEN 0 ELSE CountRest(s, count, SkipWhitespace(s, SkipValue(s, pos)))
CountFrom(s, from) ==
    LET count[pos \in Positions(s)] == CountAt(s, count, pos) IN count[from]
LengthFrom(s, first) ==
    CASE At(s, first) = "end"      -> -1
      [] At(s, first) = "rbracket" -> 0
      [] OTHER                     -> CountFrom(s, first)
ArrayLength(s, key) ==
    LET from == IF key = <<>> THEN 1 ELSE FindKey(s, key) IN
    LengthFrom(s, SkipWhitespace(s, After(s, from, "lbracket")))

-----------------------------------------------------------------------------
(* The getters of a tree, and what the properties compare with.            *)

NoNode == [none |-> TRUE]
GetObjectMember(node, key) ==
    LET found == {i \in DOMAIN node.object : node.object[i][1] = key} IN
    IF ~Is("object", node) \/ found = {} THEN NoNode
    ELSE node.object[CHOOSE i \in found : \A k \in found : i <= k][2]
GetElement(node, index) ==
    IF ~Is("array", node) THEN NoNode
    ELSE IF index >= Len(node.array) THEN NoNode ELSE node.array[index + 1]

MemberAt(node, key)    == IF key = <<>> THEN node ELSE GetObjectMember(node, key)
ElementAt(node, index) == IF index < 0 THEN node ELSE GetElement(node, index)
NodeAt(node, path) ==
    LET below[i \in 0 .. Len(path)] ==
            IF i = 0 THEN node
            ELSE ElementAt(MemberAt(below[i - 1], path[i].key), path[i].index)
    IN  below[Len(path)]

NodeString(node, default) == IF Is("string", node) THEN node.string ELSE default
NodeInt(node, default)    == IF Is("number", node) THEN node.number ELSE default
NodeBool(node, default)   == IF Is("boolean", node) THEN node.boolean ELSE default
NodeLength(node)          == IF Is("array", node) THEN Len(node.array) ELSE -1

\* The grammar of a value, by splitting the text instead of reading it: what
\* the symbols from i to j are.
Solid(s, i, j)  == {k \in i .. j : At(s, k) \notin Whitespace}
IsWord(s, i, j) == i = j /\ s[i] \in Booleans \cup {"null"}
IsNumber(s, i, j) ==
    s[i] \in {"minus"} \cup Digits /\ \A k \in i + 1 .. j : s[k] \in Digits
\* From k on there are characters, escaped or not, up to j.
IsChars(s, chars, j, k) ==
    \/ k = j
    \/ k < j /\ s[k] \notin {"quote", "bs"} /\ chars[k + 1]
    \/ k < j - 1 /\ s[k] = "bs" /\ chars[k + 2]
Chars(s, j) == LET chars[k \in 1 .. j] == IsChars(s, chars, j, k) IN chars
IsString(s, i, j) == i < j /\ s[i] = "quote" /\ s[j] = "quote" /\ Chars(s, j)[i + 1]
\* Between the brackets at i and j there is nothing, or what belongs there.
IsEnclosed(s, is, i, j, open, close, part) ==
    /\ i < j /\ s[i] = open /\ s[j] = close
    /\ Solid(s, i + 1, j - 1) = {} \/ is[i + 1][j - 1][part]
IsTrimmedValue(s, is, i, j) ==
    \/ IsWord(s, i, j) \/ IsNumber(s, i, j) \/ IsString(s, i, j)
    \/ IsEnclosed(s, is, i, j, "lbracket", "rbracket", "elements")
    \/ IsEnclosed(s, is, i, j, "lbrace", "rbrace", "members")
\* The solid part of the symbols from i to j.
Trimmed(s, i, j, a, b) ==
    a \in Solid(s, i, j) /\ b \in Solid(s, i, j) /\ \A k \in Solid(s, i, j) : k \in a .. b
IsValue(s, is, i, j) ==
    \E a, b \in i .. j : Trimmed(s, i, j, a, b) /\ IsTrimmedValue(s, is, a, b)
IsElements(s, is, i, j) ==
    \/ IsValue(s, is, i, j)
    \/ \E k \in i .. j :
          s[k] = "comma" /\ is[i][k - 1]["value"] /\ is[k + 1][j]["elements"]
IsMember(s, is, i, j) ==
    \E k \in i .. j :
        /\ s[k] = "colon" /\ is[k + 1][j]["value"]
        /\ \E a, b \in i .. k - 1 : Trimmed(s, i, k - 1, a, b) /\ IsString(s, a, b)
IsMembers(s, is, i, j) ==
    \/ IsMember(s, is, i, j)
    \/ \E k \in i .. j :
          s[k] = "comma" /\ IsMember(s, is, i, k - 1) /\ is[k + 1][j]["members"]
IsPart(s, is, i, j, part) ==
    CASE part = "value"    -> IsValue(s, is, i, j)
      [] part = "members"  -> IsMembers(s, is, i, j)
      [] part = "elements" -> IsElements(s, is, i, j)
Grammar(s) ==
    LET is[i \in 1 .. Len(s) + 1] ==
            [j \in 0 .. Len(s) |-> [part \in Parts |-> IsPart(s, is, i, j, part)]]
    IN  is
Value(s) == Grammar(s)[1][Len(s)]["value"]

-----------------------------------------------------------------------------
(* Properties, of every body.                                              *)

\* ParseNode accepts a body exactly when it is one value of the grammar
\* with nothing behind it.
AcceptsExactlyValues == \A body \in bodies : Accepted(body) <=> Value(body)

\* The two ways of reading agree.  From every position of every body, broken
\* or not, the walk over the text ends where the parser of nodes ends, or
\* both fail; and on a body that is JSON the getters that walk give what
\* the getters of the parsed tree give, for every key and path: the first
\* of several members with one key, the default where the type does not fit.
SkipsWhatItParses(body) ==
    \A pos \in 1 .. Len(body) + 1 : SkipValue(body, pos) = ParseNodeValue(body, pos).next
KeyGettersAgree(body, node, key) ==
    LET child == GetObjectMember(node, key) IN
    /\ HasKey(body, key) <=> child # NoNode
    /\ GetString(body, key, "default") = NodeString(child, "default")
    /\ GetInt(body, key, "default") = NodeInt(child, "default")
    /\ GetBool(body, key, "default") = NodeBool(child, "default")
    /\ ArrayLength(body, key) = NodeLength(IF key = <<>> THEN node ELSE child)
PathGettersAgree(body, node, path) ==
    LET child == NodeAt(node, path) IN
    /\ GetNestedString(body, path, "default") = NodeString(child, "default")
    /\ GetNestedInt(body, path, "default") = NodeInt(child, "default")
GettersAgree(body) ==
    Accepted(body) =>
        LET node == ParseNode(body).value IN
        /\ \A key \in GetterKeys : KeyGettersAgree(body, node, key)
        /\ \A path \in GetterPaths : PathGettersAgree(body, node, path)
ReadersAgree == \A body \in bodies : SkipsWhatItParses(body) /\ GettersAgree(body)
=============================================================================
