------------------------------ MODULE JsonStream ------------------------------
(***************************************************************************)
(* How the body of /clip is taken apart without holding it in memory       *)
(* (internal/httpd/jsonstream.go, clip.go:490-713): one value at a time,   *)
(* as a string into whatever buffer the caller has, as a string or null,   *)
(* as a number, or skipped because its key is unknown.  The reader goes on *)
(* behind the value: one that stops early or late takes the payload of one *)
(* key for the name of another.                                            *)
(*                                                                         *)
(* The bytes are symbols, one for each kind that the reader tells apart.   *)
(* The four digits behind \u are one symbol, for what they stand for: a    *)
(* code point of one, two or three bytes in UTF-8, or half of a pair.      *)
(***************************************************************************)
EXTENDS Integers, Sequences, SequencesExt

CONSTANTS Symbols,     \* what a body is written with
          MaxBuf       \* bound: the largest buffer of a Read

Eof == "eof"
Quote == "\""

ASSUME JsonAssumption ==
    /\ MaxBuf \in Nat \ {0}
    /\ {Quote, "\\", "n", "u", "h1", "h2", "h3", "pair"} \subseteq Symbols
    /\ Eof \notin Symbols

VARIABLES value,       \* the body from the value on, with what it holds
          pos,         \* the next byte
          at,          \* "start", "string", "container", or "done"
          closers,     \* the closing brackets of the open containers
          room,        \* what is left of the buffer of a Read
          pending,     \* bytes of an escape that found no room
          out,         \* what the readers of strings were given
          res          \* "-", "ok", "null", "malformed" or "incomplete"

jsonVars == <<value, pos, at, closers, room, pending, out, res>>

Digits == {"1", "-"}
Numeric == Digits \cup {".", "e"}
Letters == {"n", "u", "l", "e", "x"}
Byte(i) == IF i <= Len(value.text) THEN value.text[i] ELSE Eof
(* The first byte from i on that is none of S; skipWS. *)
Past(i, S) == CHOOSE j \in i..(Len(value.text) + 1) :
                  Byte(j) \notin S /\ \A k \in i..(j - 1) : Byte(k) \in S
SkipWS(i) == Past(i, {" "})

JsonInit(v) ==
    /\ value = v
    /\ pos = 1 /\ at = IF v.how = "none" THEN "done" ELSE "start"
    /\ closers = <<>> /\ room = 0 /\ pending = <<>> /\ out = <<>> /\ res = "-"

Ends(r, i) ==
    /\ res' = r /\ at' = "done" /\ pos' = i
    /\ UNCHANGED <<closers, room, pending, out>>
Enters(l, i, cs) ==
    /\ at' = l /\ pos' = i /\ closers' = cs
    /\ UNCHANGED <<room, pending, out, res>>
(* A value in a container is followed by more of the container. *)
ValueEnds(i) == IF closers = <<>> THEN Ends("ok", i) ELSE Enters("container", i, closers)

---------------------------------------------------------------------------
(* jsonStringReader. *)

(* encodeRune: the n bytes of a code point. *)
Rune(cp, n) == [k \in 1..n |-> <<cp, k>>]

Yields(bytes, n) == [bytes |-> bytes, len |-> n]
Bad == Yields(<<>>, 0)
UnicodeEscape(i) ==
    CASE Byte(i) = "h1" -> Yields(Rune("h1", 1), 1)
      [] Byte(i) = "h2" -> Yields(Rune("h2", 2), 1)
      [] Byte(i) = "h3" -> Yields(Rune("h3", 3), 1)
      [] \A k \in 0..3 : Byte(i + k) = <<"hi", "\\", "u", "lo">>[k + 1]
         -> Yields(Rune("pair", 4), 4)
      [] OTHER -> Bad
(* What a backslash before byte i yields, and the bytes that it takes. *)
ReadEscape(i) ==
    LET u == UnicodeEscape(i + 1)
    IN  CASE Byte(i) \in {Quote, "\\", "n"} -> Yields(Rune(Byte(i), 1), 1)
          [] Byte(i) = "u" /\ u.len > 0 -> Yields(u.bytes, 1 + u.len)
          [] OTHER -> Bad

LeastOf(a, b) == IF a < b THEN a ELSE b
Rest(bytes, n) == SubSeq(bytes, n + 1, Len(bytes))
NoRest(bytes, n) == <<>>  \* mutant: what does not fit the buffer is lost
Left(bytes, n) == Rest(bytes, n)
(* The bytes go to the caller's buffer, which has r left, then to pending. *)
Give(bytes, r) ==
    LET n == LeastOf(r, Len(bytes))
    IN  /\ out' = out \o SubSeq(bytes, 1, n)
        /\ pending' = Left(bytes, n)
        /\ room' = r - n

(* A Read with a buffer of k bytes drains what is pending. *)
Read(k) ==
    /\ at = "string" /\ room = 0
    /\ Give(pending, k)
    /\ UNCHANGED <<value, pos, at, closers, res>>

(* Its loop, while the buffer has room: the closing quote is the end of    *)
(* the string, for this Read or the next.                                  *)
ReadByte ==
    /\ at = "string" /\ room > 0
    /\ LET b == Byte(pos)
           e == ReadEscape(pos + 1)
       IN  \/ /\ b = Quote \/ b = Eof \/ (b = "\\" /\ e.len = 0)
              /\ room' = 0
              /\ IF b = Quote /\ closers # <<>>
                 THEN at' = "container" /\ UNCHANGED res
                 ELSE at' = "done" /\ res' = IF b = Quote THEN "ok" ELSE "malformed"
              /\ pos' = pos + 1
              /\ UNCHANGED <<pending, out>>
           \/ /\ b \notin {Quote, "\\", Eof}
              /\ Give(<<<<b, 1>>>>, room) /\ pos' = pos + 1
              /\ UNCHANGED <<at, res>>
           \/ /\ b = "\\" /\ e.len > 0
              /\ Give(e.bytes, room) /\ pos' = pos + 1 + e.len
              /\ UNCHANGED <<at, res>>
    /\ UNCHANGED <<value, closers>>

---------------------------------------------------------------------------
(* readJSONStringValue and readJSONStringOrNull. *)
StringAt(i) ==
    CASE Byte(i) = Quote -> Enters("string", i + 1, closers)
      [] Byte(i) = Eof -> Ends("incomplete", i)
      [] OTHER -> Ends("malformed", i)
NullAt(i) ==
    IF \A k \in 1..3 : Byte(i + k) = <<"u", "l", "l">>[k]
    THEN Ends("null", i + 4) ELSE Ends("malformed", i)

(* readJSONNumber: behind a point or an e only digits are read, and Atoi   *)
(* takes a sign only in front.                                             *)
NumberAt(i) ==
    LET d == SubSeq(value.text, i, Past(i, Digits) - 1)
        j == i + Len(d)
        atoi == "1" \in ToSet(d) /\ "-" \notin ToSet(Tail(d))
    IN  CASE Byte(i) = Eof -> Ends("incomplete", i)
          [] Byte(i) # Eof /\ ~atoi -> Ends("malformed", j)
          [] atoi /\ Byte(j) \in {".", "e"} -> Ends("ok", Past(j + 1, Digits))
          [] atoi /\ Byte(j) \notin {".", "e"} -> Ends("ok", j)

(* skipJSONValue: a literal is its letters, and whatever is not a string,  *)
(* a container or a literal is a number.                                   *)
SkipAt(i) ==
    CASE Byte(i) = Eof -> Ends("incomplete", i)
      [] Byte(i) = Quote -> Enters("string", i + 1, closers)
      [] Byte(i) = "{" -> Enters("container", i + 1, Append(closers, "}"))
      [] Byte(i) = "[" -> Enters("container", i + 1, Append(closers, "]"))
      [] Byte(i) = "n" -> ValueEnds(Past(i + 1, Letters))
      [] OTHER -> ValueEnds(Past(i + 1, Numeric))

(* skipContainer. *)
SkipContainer ==
    /\ at = "container"
    /\ LET i == SkipWS(pos)
       IN  IF Byte(i) = Last(closers)
           THEN IF Len(closers) = 1
                THEN Ends("ok", i + 1)
                ELSE Enters("container", i + 1, Front(closers))
           ELSE IF Byte(i) \in {",", ":"} THEN Enters("container", i + 1, closers)
           ELSE SkipAt(i)
    /\ UNCHANGED value

(* What follows the colon of a key. *)
ReadValue ==
    /\ at = "start"
    /\ LET i == SkipWS(pos)
       IN  CASE value.how = "string" -> StringAt(i)
             [] value.how = "nullable" -> IF Byte(i) = "n" THEN NullAt(i) ELSE StringAt(i)
             [] value.how = "number" -> NumberAt(i)
             [] value.how = "skip" -> SkipAt(i)
    /\ UNCHANGED value

ParseJson == ReadValue \/ SkipContainer \/ ReadByte \/ \E k \in 1..MaxBuf : Read(k)

(***************************************************************************)
(* Whatever the buffers, a value of correct JSON is consumed to its last   *)
(* byte and not beyond, and a string gives what it stands for; no string   *)
(* and no container that is cut short, or has an escape that is none, is   *)
(* taken for complete.  (A number with a fraction and an exponent is the   *)
(* exception: it is left at its e.)                                        *)
(***************************************************************************)
ValuesAreConsumedWhole ==
    /\ value.kind \in {"good", "cut", "bad"} /\ value.how \in {"string", "nullable"} =>
          IsPrefix(out, value.means)
    /\ at = "done" =>
          /\ value.kind = "good" =>
                /\ res \in {"ok", "null"}
                /\ pos = value.whole + 1
                /\ value.how \in {"string", "nullable"} => out = value.means
          /\ value.kind \in {"cut", "bad"} => res \in {"malformed", "incomplete"}
          /\ value.kind = "scientific" => res = "ok" /\ Byte(pos) = "e"
===============================================================================
