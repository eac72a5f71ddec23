-------------------------------- MODULE MCJson --------------------------------
(* The run of JsonNodes and JsonText.  The two share no state: a behaviour    *)
(* works on nodes, or has one body to read.                                   *)
EXTENDS JsonNodes, JsonPrinter

\* Parsed texts: an object that has a key twice, one with the empty key, one
\* without members, and an array.
Kid(key, node)   == [key |-> key, node |-> node]
Object(children) == [type |-> "object", value |-> NoValue, children |-> children]
Scalar(value)    == [type |-> "scalar", value |-> value, children |-> <<>>]
MCTrees ==
    { <<Object(<<Kid("k", 2), Kid("k", 3)>>), Object(<<>>), Scalar("x")>>,
      <<Object(<<Kid("", 2)>>), Scalar("x")>>, <<Object(<<>>)>>,
      <<[Object(<<Kid("", 2)>>) EXCEPT !.type = "array"], Scalar("x")>> }

\* Builder calls: well formed, with the empty key, with a -1 between good
\* nodes, with one node given twice.
Arg(key, from) == [key |-> key, from |-> from]
MCObjectCalls ==
    { <<Arg("k", 1)>>, <<Arg("k", 1), Arg("k", 2)>>, <<Arg("k", 1), Arg("", 2)>>,
      <<Arg("k", 1), Arg("k", 0), Arg("k", 2)>> }
MCArrayCalls ==
    { <<>>, <<Arg("", 1), Arg("", 1)>>, <<Arg("", 2), Arg("", 0), Arg("", 1)>> }

\* Documents: objects with a key twice, nested values, escapes, white space;
\* and every text that one edit makes of them, or two edits of a short list.
Str(chars) == <<"quote">> \o chars \o <<"quote">>
Documents ==
    { <<"lbrace">> \o Str(<<"a">>) \o <<"colon", "1", "rbrace">>,
      <<"lbrace">> \o Str(<<"a">>)
          \o <<"colon", "lbracket", "0", "comma", "lf", "true", "rbracket", "comma">>
          \o Str(<<"a">>) \o <<"colon", "null", "rbrace">>,
      <<"lbrace">> \o Str(<<"a">>) \o <<"colon", "lbrace">>
          \o Str(<<"n">>) \o <<"colon", "lbracket">>
          \o Str(<<"a">>) \o <<"comma", "minus", "1", "0", "rbracket", "rbrace", "lf", "rbrace">>,
      <<"lbrace">> \o Str(<<>>) \o <<"colon">>
          \o Str(<<"bs", "n", "bs", "quote">>) \o <<"rbrace">>,
      <<"lbracket", "lbracket", "rbracket", "comma", "lbrace", "rbrace", "comma",
        "false", "rbracket">>,
      <<"minus", "1">>, <<>> }
Symbols == {"lbrace", "rbrace", "lbracket", "rbracket", "comma", "colon", "quote", "bs",
            "a", "n", "lf", "ctl", "1", "minus", "true", "null"}
Brackets == {"lbrace", "lbracket", "rbracket", "comma", "quote", "1"}
Edits(s, symbols) ==
    { SubSeq(s, 1, i - 1) \o new \o SubSeq(s, i + 1, Len(s)) :
          i \in DOMAIN s, new \in {<<>>} \cup {<<x>> : x \in symbols} }
    \cup { SubSeq(s, 1, i) \o <<x>> \o SubSeq(s, i + 1, Len(s)) :
               i \in 0 .. Len(s), x \in symbols }
MCBodies ==
    Documents \cup UNION {Edits(s, Symbols) : s \in Documents}
    \cup UNION {Edits(s, Brackets) :
                    s \in Edits(<<"lbracket", "1", "comma", "0", "rbracket">>, Brackets)}

MCKeys == {<<>>, <<"a">>, <<"n">>}
Segment(key, index) == [key |-> key, index |-> index]
MCPaths ==
    { <<Segment(<<"a">>, -1)>>, <<Segment(<<"a">>, 0)>>, <<Segment(<<"a">>, 1)>>,
      <<Segment(<<>>, 1)>>, <<Segment(<<"a">>, -1), Segment(<<"n">>, 0)>>,
      <<Segment(<<"a">>, -1), Segment(<<"n">>, 1)>> }

\* A behaviour does anything with few nodes, or it begins with two parsed
\* trees of four nodes or more and has some left to merge them, or it has a
\* body to read.
VARIABLE mode   \* "few", "merge" or "read"

FewNodes  == 5
TwoParsed ==
    /\ nextJsonNodeId <= 2 => \E tree \in Trees : ParseJsonNode(tree)
    /\ nextJsonNodeId = 2 => nextAddress' > 4

MCInit ==
    /\ Init
    /\ \/ bodies = {} /\ mode \in {"few", "merge"}
       \/ mode = "read" /\ \E body \in Bodies : bodies = {body}
MCNext ==
    /\ Next /\ UNCHANGED <<bodies, mode>>
    /\ \/ mode = "few" /\ nextAddress' <= FewNodes + 1
       \/ mode = "merge" /\ TwoParsed
MCSpec == MCInit /\ [][MCNext]_<<vars, bodies, mode>>
=============================================================================
