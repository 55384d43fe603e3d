------------------------------ MODULE JsonValues ------------------------------
(***************************************************************************)
(* The values that JsonStream is given: what makes a value of JSON         *)
(* correct, cut short or broken, and what a string stands for.  It is said *)
(* part by part, of the marks between the parts, which a value brings      *)
(* along.  A part in a string is a symbol or an escape; outside, it is a   *)
(* bracket, a comma, a colon, a quote, a number or a literal, with the     *)
(* blanks before it.                                                       *)
(***************************************************************************)
EXTENDS JsonStream

At(v, i) == IF i \in DOMAIN v.text THEN v.text[i] ELSE Eof

(* Nothing but symbols of S from i up to j, where one of another kind is. *)
Run(v, i, j, S) ==
    /\ j \in i..(Len(v.text) + 1) /\ At(v, j) \notin S
    /\ \A k \in i..(j - 1) : At(v, k) \in S

(* The escapes, and the bytes that they stand for. *)
Escape(t, m, n) == [text |-> t, means |-> [k \in 1..n |-> <<m, k>>]]
EscapesOfJson ==
    { Escape(<<"\\", Quote>>, Quote, 1), Escape(<<"\\", "\\">>, "\\", 1), Escape(<<"\\", "n">>, "n", 1),
      Escape(<<"\\", "u", "h1">>, "h1", 1), Escape(<<"\\", "u", "h2">>, "h2", 2),
      Escape(<<"\\", "u", "h3">>, "h3", 3),
      Escape(<<"\\", "u", "hi", "\\", "u", "lo">>, "pair", 4) }
EscapeAt(v, i, e) == \A k \in DOMAIN e.text : At(v, i + k - 1) = e.text[k]

(* At a mark a part begins: at `from', or at `at' when the blanks are over; inside a
   string or not; within the containers that `stack' would close; when `got' bytes of
   what the string stands for are known. *)
Places(v) == 1..(Len(v.text) + 1)
MarksIn(v) == [from : Places(v), at : Places(v), inside : BOOLEAN,
             stack : Seq({"]", "}"}), got : 0..Len(v.means)]
Marked(v) ==
    /\ v.text \in Seq(Symbols) /\ v.means \in Seq(Symbols \X Nat)
    /\ v.marks \in Seq(MarksIn(v)) /\ v.marks # <<>>
    /\ \A k \in DOMAIN v.marks :
          ~v.marks[k].inside => Run(v, v.marks[k].from, v.marks[k].at, {" "})
    /\ LET a == v.marks[1] IN a.from = 1 /\ ~a.inside /\ a.stack = <<>> /\ a.got = 0

(* From one mark to the next in a string.  What a string stands for is what its
   parts do, unless it is skipped. *)
Says(v, a, b, bytes) ==
    v.how # "skip" => b.got = a.got + Len(bytes) /\ SubSeq(v.means, a.got + 1, b.got) = bytes
InString(v, a, b) ==
    LET x == At(v, a.from)
    IN  /\ b.stack = a.stack
        /\ \/ x = Quote /\ b.from = a.from + 1 /\ ~b.inside /\ Says(v, a, b, <<>>)
           \/ /\ x \notin {Quote, "\\", Eof} /\ b.inside
              /\ b.from = a.from + 1 /\ Says(v, a, b, << <<x, 1>> >>)
           \/ \E e \in EscapesOfJson :
                 /\ EscapeAt(v, a.from, e) /\ b.inside
                 /\ b.from = a.from + Len(e.text) /\ Says(v, a, b, e.means)

(* From one mark to the next outside. *)
Outside(v, a, b) ==
    LET x == At(v, a.at)
        JustBehind == b.from = a.at + 1
    IN  /\ b.inside <=> x = Quote
        /\ b.got = a.got
        /\ \/ x = Quote /\ JustBehind /\ b.stack = a.stack
           \/ x = "{" /\ JustBehind /\ b.stack = Append(a.stack, "}")
           \/ x = "[" /\ JustBehind /\ b.stack = Append(a.stack, "]")
           \/ a.stack # <<>> /\ x = Last(a.stack) /\ JustBehind /\ b.stack = Front(a.stack)
           \/ a.stack # <<>> /\ x \in {",", ":"} /\ JustBehind /\ b.stack = a.stack
           \/ x = "n" /\ Run(v, a.at + 1, b.from, Letters) /\ b.stack = a.stack
           \/ x \in Numeric /\ Run(v, a.at + 1, b.from, Numeric) /\ b.stack = a.stack

IsNull(v, i) == \A k \in 0..3 : At(v, i + k) = <<"n", "u", "l", "l">>[k + 1]

(* Where a correct value ends, and where one stops that is cut short or broken. *)
Complete(v, a) == a.from = v.whole + 1 /\ a.got = Len(v.means)
Stops(v, a) ==
    IF a.inside
    THEN \/ At(v, a.from) = Eof
         \/ At(v, a.from) = "\\" /\ \A e \in EscapesOfJson : ~EscapeAt(v, a.from, e)
    ELSE IF v.how = "skip" THEN At(v, a.at) = Eof
    ELSE At(v, a.at) # Quote /\ ~IsNull(v, a.at)

(* A value ends when it is neither in a string nor in a container, and not before. *)
Open(a) == a.inside \/ a.stack # <<>>
Parted(v) ==
    LET n == Len(v.marks)
    IN  /\ \A k \in 2..(n - 1) : Open(v.marks[k])
        /\ \A k \in 1..(n - 1) : LET a == v.marks[k]
                                     b == v.marks[k + 1]
                                 IN  IF a.inside THEN InString(v, a, b) ELSE Outside(v, a, b)
        /\ v.how # "skip" /\ n > 1 => At(v, v.marks[1].at) = Quote
        /\ \/ v.kind = "good" /\ n > 1 /\ ~Open(v.marks[n]) /\ Complete(v, v.marks[n])
           \/ v.kind \in {"cut", "bad"} /\ (n > 1 => Open(v.marks[n])) /\ Stops(v, v.marks[n])

(* A number: digits, at most a sign before them, and at most one part more.  The
   second mark is where the first digits end. *)
IsNumber(v) ==
    LET i == v.marks[1].at
        j == v.marks[2].from
        integer == /\ \E k \in i..(j - 1) : At(v, k) = "1"
                   /\ \A k \in (i + 1)..(j - 1) : At(v, k) # "-"
    IN  /\ Len(v.marks) = 2 /\ Run(v, i, j, Digits)
        /\ \/ v.kind = "bad" /\ ~integer
           \/ /\ v.kind = "good" /\ integer
              /\ At(v, v.whole + 1) \notin Numeric
              /\ IF At(v, j) \in {".", "e"} THEN Run(v, j + 1, v.whole + 1, Digits)
                 ELSE j = v.whole + 1
           \/ /\ v.kind = "scientific" /\ integer /\ At(v, j) = "."
              /\ \E k \in Places(v) : Run(v, j + 1, k, Digits) /\ At(v, k) = "e"

Readable(v) ==
    \/ v.how = "none" /\ v.kind = "none"
    \/ v.how = "number" /\ Marked(v) /\ IsNumber(v)
    \/ /\ v.how = "nullable" /\ v.kind = "good" /\ Marked(v) /\ IsNull(v, v.marks[1].at)
       /\ v.whole = v.marks[1].at + 3 /\ v.means = <<>>
    \/ v.how \in {"string", "nullable", "skip"} /\ Marked(v) /\ Parted(v)
===============================================================================
