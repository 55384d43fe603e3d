------------------------------- MODULE RecvBody -------------------------------
(***************************************************************************)
(* The labeled body of /recv: written by recvBodyString (verbs_read.go,    *)
(* and the daemon's of the same text), taken apart line by line by         *)
(* parseRecvBody (recvparse.go), with the correlation token that msg       *)
(* --reply-to puts before a text.  A label, the opening of a token and     *)
(* each other byte that matters are one symbol.                            *)
(***************************************************************************)
EXTENDS Naturals, Sequences, SequencesExt

CONSTANT Bytes         \* the symbols

ASSUME BytesAssumption ==
    {"\n", ":", " ", "]", "[cid=", "type", "sender", "path", "text"} \subseteq Bytes

VARIABLES item,        \* what was delivered, and how its text was made
          rest,        \* what is left to parse
          parsed,      \* the recvItem so far
          finished

recvVars == <<item, rest, parsed, finished>>

NL == "\n"
IsColon(x) == x = ":"
IsNL(x) == x = NL
IsClose(x) == x = "]"
Line(label, v) == <<label, ":", " ">> \o v

PrependCid(cid, text) == <<"[cid=">> \o cid \o <<"]", " ">> \o text
Sent(i) == IF i.replyTo THEN PrependCid(i.cid, i.text) ELSE i.text
RecvBodyString(i) ==
    Line("type", i.type) \o <<NL>> \o Line("sender", i.sender)
    \o (IF i.path # <<>> THEN <<NL>> \o Line("path", i.path) ELSE <<>>)
    \o (IF i.hasText THEN <<NL>> \o Line("text", Sent(i)) ELSE <<>>)

(* A delivery has a kind (a fixed word) and a token only if one was asked   *)
(* for.  Without a kind there is none.                                      *)
Deliverable(i) ==
    /\ i \in [type : Seq(Bytes), sender : Seq(Bytes), path : Seq(Bytes), hasText : BOOLEAN,
             text : Seq(Bytes), replyTo : BOOLEAN, cid : Seq(Bytes)]
    /\ NL \notin ToSet(i.type)
    /\ ~i.replyTo => i.cid = <<>>

RecvInit(i) ==
    /\ item = i
    /\ rest = IF i.type = <<>> THEN <<>> ELSE RecvBodyString(i)
    /\ parsed = [type |-> <<>>, sender |-> <<>>, path |-> <<>>, text |-> <<>>,
                 hasText |-> FALSE, cid |-> <<>>]
    /\ finished = (i.type = <<>>)

DropSpace(v) == IF v # <<>> /\ v[1] = " " THEN Tail(v) ELSE v
SplitLastColon(line) ==  \* mutant: LastIndexByte
    LET i == SelectLastInSeq(line, IsColon)
    IN  IF i = 0 THEN [label |-> <<>>, value |-> line]
        ELSE [label |-> SubSeq(line, 1, i - 1),
              value |-> DropSpace(SubSeq(line, i + 1, Len(line)))]
SplitFirstColon(line) ==
    LET i == SelectInSeq(line, IsColon)
    IN  IF i = 0 THEN [label |-> <<>>, value |-> line]
        ELSE [label |-> SubSeq(line, 1, i - 1),
              value |-> DropSpace(SubSeq(line, i + 1, Len(line)))]

ExtractCid(p) ==
    LET end == SelectInSeq(p.text, IsClose)
    IN  IF p.hasText /\ p.text # <<>> /\ p.text[1] = "[cid=" /\ end > 0
        THEN [p EXCEPT !.cid = SubSeq(p.text, 2, end - 1),
                       !.text = DropSpace(SubSeq(p.text, end + 1, Len(p.text)))]
        ELSE p

(* One turn of the loop of parseRecvBody; the text takes what is behind    *)
(* its line, and a newline between only if something is.                   *)
ParseLine ==
    /\ ~finished
    /\ LET nl == SelectInSeq(rest, IsNL)
           line == IF nl = 0 THEN rest ELSE SubSeq(rest, 1, nl - 1)
           more == IF nl = 0 THEN <<>> ELSE SubSeq(rest, nl + 1, Len(rest))
           f == SplitFirstColon(line)
           p == CASE f.label = <<"type">> -> [parsed EXCEPT !.type = f.value]
                  [] f.label = <<"sender">> -> [parsed EXCEPT !.sender = f.value]
                  [] f.label = <<"path">> -> [parsed EXCEPT !.path = f.value]
                  [] f.label = <<"text">> ->
                         [parsed EXCEPT !.hasText = TRUE,
                                        !.text = IF more = <<>> THEN f.value
                                                 ELSE f.value \o <<NL>> \o more]
                  [] OTHER -> parsed
       IN  /\ rest' = IF f.label = <<"text">> THEN <<>> ELSE more
           /\ finished' = (rest' = <<>>)
           /\ parsed' = IF rest' = <<>> THEN ExtractCid(p) ELSE p
    /\ UNCHANGED item

(* A text whose only newline is its last byte loses it. *)
Kept(text) ==
    IF text # <<>> /\ SelectInSeq(text, IsNL) = Len(text) THEN Front(text) ELSE text

(***************************************************************************)
(* What was delivered is what recv --json and watch report, as long as the *)
(* sender and the path have no newline, and the correlation token is an    *)
(* id: the labels that a text or a sender contains are not taken for       *)
(* labels, and a token comes off, as written.  Not so for a text that      *)
(* itself begins like a token, nor for the one newline of a text that ends *)
(* in it, which is lost.                                                   *)
(***************************************************************************)
BodiesComeBack ==
    /\ finished /\ item.type # <<>>
    /\ NL \notin ToSet(item.sender \o item.path) /\ {NL, "]"} \cap ToSet(item.cid) = {}
    =>
        /\ parsed.type = item.type
        /\ parsed.sender = item.sender
        /\ parsed.path = item.path
        /\ parsed.hasText = item.hasText
        /\ item.hasText =>
              \/ parsed.text = Kept(item.text) /\ parsed.cid = item.cid
              \/ ~item.replyTo /\ item.text[1] = "[cid=" /\ "]" \in ToSet(item.text)
===============================================================================
