------------------------------ MODULE MCEncodings ------------------------------
EXTENDS Encodings

---------------------------------------------------------------------------
(* Values of JSON, each with what follows it. *)
Unmarked(how, kind, text, whole, means) ==
    [how |-> how, kind |-> kind, text |-> text, whole |-> whole, means |-> means]
NoValue == Unmarked("none", "none", <<>>, 0, <<>>)

(* The marks of a value, found by reading it once. *)
Until(v, i, S) == CHOOSE j \in i..(Len(v.text) + 1) : Run(v, i, j, S)
AMark(v, i, inside, stack, got) ==
    [from |-> i, at |-> IF inside THEN i ELSE Until(v, i, {" "}),
     inside |-> inside, stack |-> stack, got |-> got]
Gets(v, a, n) == IF v.how = "skip" THEN 0 ELSE a.got + n
MarkInString(v, a) ==
    LET i == a.from
        x == At(v, i)
        E == {e \in EscapesOfJson : EscapeAt(v, i, e)}
    IN  CASE x = "\"" -> { AMark(v, i + 1, FALSE, a.stack, a.got) }
          [] x = "\\" -> { AMark(v, i + Len(e.text), TRUE, a.stack, Gets(v, a, Len(e.means))) : e \in E }
          [] x = Eof -> {}
          [] OTHER -> { AMark(v, i + 1, TRUE, a.stack, Gets(v, a, 1)) }
MarkOutside(v, a) ==
    LET i == a.at
        x == At(v, i)
        Mk(j, stack) == { AMark(v, j, x = "\"", stack, a.got) }
    IN  CASE x = Eof \/ (x # "\"" /\ v.how # "skip") -> {}
          [] x = "{" -> Mk(i + 1, Append(a.stack, "}"))
          [] x = "[" -> Mk(i + 1, Append(a.stack, "]"))
          [] x \in {"}", "]"} -> Mk(i + 1, Front(a.stack))
          [] x = "n" -> Mk(Until(v, i + 1, Letters), a.stack)
          [] x \in Numeric -> Mk(Until(v, i + 1, Numeric), a.stack)
          [] OTHER -> Mk(i + 1, a.stack)
RECURSIVE MarksFrom(_, _)
MarksFrom(v, a) ==
    LET next == IF a.inside THEN MarkInString(v, a)
                ELSE IF a.from > 1 /\ a.stack = <<>> THEN {} ELSE MarkOutside(v, a)
    IN  IF next = {} THEN <<a>> ELSE <<a>> \o MarksFrom(v, CHOOSE b \in next : TRUE)
MarksOf(v) ==
    LET a == AMark(v, 1, FALSE, <<>>, 0)
    IN  IF v.how = "number"
        THEN <<a, AMark(v, Until(v, a.at, Digits), FALSE, <<>>, 0)>>
        ELSE MarksFrom(v, a)
V(how, kind, text, whole, means) ==
    LET v == Unmarked(how, kind, text, whole, means)
    IN  [how |-> how, kind |-> kind, text |-> text, whole |-> whole, means |-> means,
         marks |-> MarksOf(v)]

Q == <<"\"">>
One(x) == << <<x, 1>> >>
Two == << <<"h2", 1>>, <<"h2", 2>> >>
Three == << <<"h3", 1>>, <<"h3", 2>>, <<"h3", 3>> >>
Four == [k \in 1..4 |-> <<"pair", k>>]

(* Pieces of strings and what they stand for. *)
Good == { [text |-> <<"x">>, means |-> One("x")],
          [text |-> <<"\\", "\"">>, means |-> One("\"")],
          [text |-> <<"\\", "\\">>, means |-> One("\\")],
          [text |-> <<"\\", "u", "h1">>, means |-> One("h1")],
          [text |-> <<"\\", "u", "h2">>, means |-> Two],
          [text |-> <<"\\", "u", "h3">>, means |-> Three],
          [text |-> <<"\\", "u", "hi", "\\", "u", "lo">>, means |-> Four] }
Broken == { <<"\\", "x">>, <<"\\", "u", "lo">>, <<"\\", "u", "x">>, <<"\\", "u", "hi", "x">>,
            <<"\\", "u", "hi", "\\", "n">>, <<"\\", "u", "hi", "\\", "u", "h1">> }
Texts(ps) == FlattenSeq([i \in DOMAIN ps |-> ps[i].text])
Meaning(ps) == FlattenSeq([i \in DOMAIN ps |-> ps[i].means])
Behind == <<",", "x">>
Str(ps) == Q \o Texts(ps) \o Q

Strings ==
    LET P == BoundedSeq(Good, 2)
    IN  {V("string", "good", Str(ps) \o Behind, Len(Str(ps)), Meaning(ps)) : ps \in BoundedSeq(Good, 3)}
        \cup {V("nullable", "good", <<" ">> \o Str(ps) \o Behind, Len(Str(ps)) + 1, Meaning(ps)) : ps \in P}
        \cup {V("string", "bad", Q \o Texts(ps) \o b \o Q, 0, Meaning(ps)) : ps \in P, b \in Broken}
        \cup UNION {{V("string", "cut", SubSeq(Str(ps), 1, n), 0, Meaning(ps)) : n \in 0..(Len(Str(ps)) - 1)}
                    : ps \in P}
        \cup {V("nullable", "good", <<"n", "u", "l", "l", ",">>, 4, <<>>),
              V("nullable", "bad", <<"n", "u", "x", ",">>, 0, <<>>),
              V("string", "bad", <<"1", ",">>, 0, <<>>)}
Numbers ==
    {V("number", "good", t \o Behind, Len(t), <<>>) :
        t \in {<<"1">>, <<"-", "1", "1">>, <<"1", ".", "1">>, <<"1", "e", "-", "1">>}}
    \cup {V("number", "scientific", <<"1", ".", "1", "e", "1">> \o Behind, 0, <<>>)}
    \cup {V("number", "bad", t \o Behind, 0, <<>>) : t \in {<<>>, <<"-">>, <<"1", "-", "1">>, <<"x">>}}

Atoms == { Q \o <<"]">> \o Q, Q \o <<"\\", "\"", "}">> \o Q, Q \o Q,
           <<"-", "1", ".", "1", "e", "1">>, <<"n", "u", "l", "l">> }
Members(v, w) == { <<"[">> \o v \o <<"]">>, <<"{">> \o Q \o <<"}">> \o Q \o <<":", " ">> \o v \o <<"}">>,
                   <<"[">> \o v \o <<",", " ">> \o w \o <<" ", "]">> }
Flat == { <<"[", "]">>, <<"{", " ", "}">> } \cup UNION {Members(v, w) : v \in Atoms, w \in Atoms}
Nested == UNION {Members(v, w) : v \in Flat, w \in {Q \o <<"]">> \o Q}}
Skipped ==
    {V("skip", "good", v \o b, Len(v), <<>>) :
        v \in Atoms \cup Flat \cup Nested, b \in {<<",">>, <<"}">>, <<"]">>, <<" ">>}}
    \cup UNION {{V("skip", "cut", SubSeq(v, 1, n), 0, <<>>) : n \in 0..(Len(v) - 1)} : v \in Flat \cup Nested}

MCSymbols == {Quote, "\\", "n", "u", "l", "e", "x", "h1", "h2", "h3", "hi", "lo", "pair",
              "1", "-", ".", "{", "}", "[", "]", ",", ":", " "}

---------------------------------------------------------------------------
(* Names: every short one, and longer ones around the cap. *)
Item(raw, kind, uti) == [raw |-> raw, kind |-> kind, uti |-> uti]
Short == BoundedSeq({"a", ".", " ", "/", "*"}, 4)
Long == { <<"a", "a", "a", "a", "a">>, <<"a", ".", "a", "a", "a">>, <<"a", ".", "a", "a", "a", "a">>,
          <<"a", "a", "a", "a", ".", "a">>, <<"a", "a", ".", "a", "a", ".">>, <<"a", " ", "(", "2", ")">>,
          <<"/", ".", ".", "/", "a", "a">>, <<"a", "a", " ", " ", ".", "a">> }
Same3(raw) == [i \in 1..3 |-> Item(raw, "file", <<>>)]
MCRunes == {"a", ".", " ", "/", "*", "(", ")", "_", "#", "png", "bin", "gif", "1", "2", "3"}
MCNumerals == <<"1", "2", "3">>
Offers ==
    {Same3(raw) : raw \in Short \cup Long}
    \cup {<<Item(r, "image", <<>>), Item(s, "text", u)>> : r \in Long, s \in Long \cup {<<>>}, u \in {<<>>, <<"gif">>}}
    \cup {<<Item(<<"a">>, "file", <<>>), Item(<<"a", " ", "(", "2", ")">>, "file", <<>>), Item(<<"a">>, "file", <<>>)>>}

---------------------------------------------------------------------------
(* Deliveries. *)
NoItem == [type |-> <<>>, sender |-> <<>>, path |-> <<>>, hasText |-> FALSE, text |-> <<>>,
           replyTo |-> FALSE, cid |-> <<>>]
MCBytes == {"a", ":", " ", NL, "]", "[cid=", "type", "sender", "path", "text"}
MessageTexts == BoundedSeq({"a", ":", " ", NL, "]", "[cid=", "text"}, 4)
Senders == {<<>>, <<"a">>, <<" ", "a">>, <<"text", ":", " ", "a">>, <<"a", NL, "text", ":", "a">>}
Deliveries ==
    {[NoItem EXCEPT !.type = <<"a">>, !.sender = s, !.hasText = TRUE, !.text = t] :
        s \in Senders, t \in MessageTexts}
    \cup {[NoItem EXCEPT !.type = <<"a">>, !.hasText = TRUE, !.text = t, !.replyTo = TRUE, !.cid = c] :
            t \in MessageTexts, c \in {<<"a">>, <<"[cid=">>, <<"a", "]">>}}
    \cup {[NoItem EXCEPT !.type = <<"a">>, !.sender = s, !.path = p] :
            s \in Senders, p \in {<<"a">>, <<"a", ":", " ", "a">>, <<" ", "path", ":", "a">>}}

MCWorks ==
    {[value |-> v, offered |-> <<>>, item |-> NoItem] : v \in Strings \cup Numbers \cup Skipped}
    \cup {[value |-> NoValue, offered |-> o, item |-> NoItem] : o \in Offers}
    \cup {[value |-> NoValue, offered |-> <<>>, item |-> d] : d \in Deliveries}
================================================================================
