----------------------------- MODULE JsonPrinter -----------------------------
(***************************************************************************)
(* The printer of trees (StringifyNode, Escape), and that the parser reads *)
(* back what it writes.  The recursion is over the tree, not over a text.  *)
(***************************************************************************)
EXTENDS JsonText

\* What is written for a character in a string.
Escape(c) ==
    CASE c \in {"quote", "bs"} -> <<"bs", c>>
      [] c = "lf"  -> <<"bs", "n">>
      [] c = "ctl" -> <<"bs", "u", "0", "0", "0", "1">>
      [] OTHER     -> <<c>>

RECURSIVE EscapeAll(_)
EscapeAll(chars) ==
    IF chars = <<>> THEN <<>> ELSE Escape(Head(chars)) \o EscapeAll(Tail(chars))

RECURSIVE DecimalDigits(_)
DecimalDigits(n) ==
    (IF n < 10 THEN <<>> ELSE DecimalDigits(n \div 10))
        \o <<IF n % 10 = 0 THEN "0" ELSE "1">>
NumberText(n) == IF n < 0 THEN <<"minus">> \o DecimalDigits(-n) ELSE DecimalDigits(n)

\* Mutant: a string is written as it is.
Quoted(chars) == <<"quote">> \o chars \o <<"quote">>

StringText(chars) == <<"quote">> \o EscapeAll(chars) \o <<"quote">>

RECURSIVE StringifyNode(_)
StringifyMember(member) == StringText(member[1]) \o <<"colon">> \o StringifyNode(member[2])
\* The items of an object or an array between their brackets.
RECURSIVE Commas(_)
Commas(texts) ==
    CASE texts = <<>>    -> <<>>
      [] Len(texts) = 1  -> texts[1]
      [] OTHER           -> texts[1] \o <<"comma">> \o Commas(Tail(texts))
StringifyNode(node) ==
    CASE Is("null", node)    -> <<"null">>
      [] Is("boolean", node) -> <<IF node.boolean THEN "true" ELSE "false">>
      [] Is("number", node)  -> NumberText(node.number)
      [] Is("string", node)  -> StringText(node.string)
      [] Is("object", node)  ->
             <<"lbrace">>
                 \o Commas([i \in DOMAIN node.object |-> StringifyMember(node.object[i])])
                 \o <<"rbrace">>
      [] Is("array", node)   ->
             <<"lbracket">>
                 \o Commas([i \in DOMAIN node.array |-> StringifyNode(node.array[i])])
                 \o <<"rbracket">>

-----------------------------------------------------------------------------
\* What StringifyNode writes for a tree, ParseNode reads as the same tree.
\* A control character that has no short escape is the exception: it is
\* written as \u0001 and read as the letters u0001.
RoundTrip ==
    \A body \in bodies :
        LET node == ParseNode(body).value IN
        Accepted(body) /\ (\A i \in DOMAIN body : body[i] # "ctl") =>
            ParseNode(StringifyNode(node)) = Parsed(Len(StringifyNode(node)) + 1, node)
=============================================================================
