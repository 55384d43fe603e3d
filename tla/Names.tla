--------------------------------- MODULE Names ---------------------------------
(***************************************************************************)
(* The names that payloads are saved under (internal/sanitize/sanitize.go, *)
(* and uniqueLeaf of internal/store/concrete.go).  A name is a sequence of *)
(* symbols: "a" for the letters, "2" for the digits, "*" for a rune that is *)
(* not allowed, "#" for the clipbeam-<UTC> of a fallback, "png" and "bin"  *)
(* for its extensions.  Behind the allowlist every rune is one byte, so    *)
(* the length of a name is its length in bytes.                            *)
(***************************************************************************)
EXTENDS Naturals, Sequences, SequencesExt, FiniteSets

CONSTANTS NameMaxBytes,
          Runes,        \* the symbols
          Numerals      \* the decimals of 1, 2, ..., each one symbol

ASSUME NamesAssumption ==
    /\ NameMaxBytes \in Nat /\ NameMaxBytes > 2
    /\ {".", "/", " ", "(", ")", "_", "#", "png", "bin"} \subseteq Runes
    /\ Numerals \in Seq(Runes)
    /\ \A m, n \in DOMAIN Numerals : Numerals[m] = Numerals[n] => m = n
    /\ {".", "/", "("} \cap ToSet(Numerals) = {}

(* What may be offered: names of any symbols, and types of whose extensions *)
(* (utiExt, a table) none has a symbol that is special in a name; no more   *)
(* items than there are numbers.                                            *)
ItemNames == [raw : Seq(Runes), kind : STRING, uti : Seq(Runes)]
Offerable(items) ==
    /\ items \in Seq(ItemNames)
    /\ Len(items) <= Len(Numerals)
    /\ \A i \in DOMAIN items : {".", "/", "("} \cap ToSet(items[i].uti) = {}

VARIABLES offered,     \* items still to be saved: their raw names, kinds and types
          saved        \* history: the leaf and the name of each, and the item

namesVars == <<offered, saved>>
NamesInit(items) == offered = items /\ saved = <<>>

Dot == "."
Allowed == {"a", "2", Dot, "_", " "}
IsDot(c) == c = Dot
IsSlash(c) == c = "/"
NotSlash(c) == c # "/"
NotSpace(c) == c # " "

(* filepath.Base: what follows the last slash that is not at the end. *)
Base(raw) ==
    LET p == SubSeq(raw, 1, SelectLastInSeq(raw, NotSlash))
    IN  CASE raw = <<>> -> <<Dot>>
          [] p = <<>> -> <<"/">>
          [] OTHER -> SubSeq(p, SelectLastInSeq(p, IsSlash) + 1, Len(p))
Mapped(s) == [i \in DOMAIN s |-> IF s[i] \in Allowed THEN s[i] ELSE "_"]
Trimmed(s) ==
    IF \A i \in DOMAIN s : s[i] = " " THEN <<>>
    ELSE SubSeq(s, SelectInSeq(s, NotSpace), SelectLastInSeq(s, NotSpace))

(* The extension has a dot before it that is not the first symbol. *)
PathExtension(s) ==
    LET d == SelectLastInSeq(s, IsDot)
    IN  IF d <= 1 \/ d = Len(s) THEN <<>> ELSE SubSeq(s, d + 1, Len(s))
DotExt(s) == IF PathExtension(s) = <<>> THEN <<>> ELSE <<Dot>> \o PathExtension(s)
DeletingPathExtension(s) == SubSeq(s, 1, Len(s) - Len(DotExt(s)))
TruncateBytes(s, n) == SubSeq(s, 1, IF n < Len(s) THEN n ELSE Len(s))

CapLength(s) ==
    LET budget == NameMaxBytes - Len(DotExt(s))
    IN  IF Len(s) <= NameMaxBytes THEN s
        ELSE IF Len(DotExt(s)) >= NameMaxBytes THEN TruncateBytes(s, NameMaxBytes)
        ELSE TruncateBytes(DeletingPathExtension(s), budget) \o DotExt(s)

FallbackName(item) ==
    LET ext == IF item.uti # <<>> THEN item.uti
               ELSE CASE item.kind = "image" -> <<"png">> [] item.kind = "file" -> <<"bin">>
                      [] OTHER -> <<>>
    IN  IF ext = <<>> THEN <<"#">> ELSE <<"#", Dot>> \o ext

CleanLeaf(item) ==
    LET s == Trimmed(Mapped(Base(item.raw)))
    IN  CapLength(IF s = <<>> \/ s[1] = Dot THEN FallbackName(item) ELSE s)
(* SafeLeaf: the name joined to the directory must still be below it. *)
Escapes(leaf) == "/" \in ToSet(leaf) \/ leaf \in {<<>>, <<Dot>>, <<Dot, Dot>>}

Mark(n) == <<" ", "(", Numerals[n], ")">>
SuffixAtEnd(leaf, n) == leaf \o Mark(n)  \* mutant: base.ext (2)
CollisionName(leaf, n) ==
    DeletingPathExtension(leaf) \o Mark(n) \o DotExt(leaf)

(* uniqueLeaf. *)
Numbered(leaf, n) == IF n = 1 THEN leaf ELSE CollisionName(leaf, n)
Exists(name) == \E i \in DOMAIN saved : saved[i].name = name
UniqueLeaf(leaf) ==
    LET n == CHOOSE k \in 1..(Len(saved) + 1) :
                 /\ ~Exists(Numbered(leaf, k))
                 /\ \A j \in 1..(k - 1) : Exists(Numbered(leaf, j))
    IN  Numbered(leaf, n)

SaveNext ==
    /\ offered # <<>>
    /\ LET leaf == CleanLeaf(Head(offered))
       IN  IF Escapes(leaf) THEN UNCHANGED saved
           ELSE saved' = Append(saved, [item |-> Head(offered), leaf |-> leaf,
                                        name |-> UniqueLeaf(leaf)])
    /\ offered' = Tail(offered)

(***************************************************************************)
(* Every item is saved, under a name that is below the directory, is not   *)
(* hidden and does not begin with a space, and has at most a number more   *)
(* than the cap.  It has the extension of the name it came with whenever   *)
(* that has room under the cap: numbers and cuts go before it.  And the    *)
(* number tells how many came before under the same leaf, since no name    *)
(* that a client sends can look like a numbered one.                       *)
(***************************************************************************)
NamesAreSafe ==
    \A i \in DOMAIN saved :
        LET s == saved[i]
            came == Trimmed(Mapped(Base(s.item.raw)))
            before == {j \in 1..(i - 1) : saved[j].leaf = s.leaf}
        IN  /\ ~Escapes(s.name) /\ s.name[1] \notin {Dot, " "}
            /\ Len(s.name) <= NameMaxBytes + Len(Mark(2))
            /\ came # <<>> /\ came[1] # Dot /\ PathExtension(came) # <<>>
                  /\ Len(PathExtension(came)) + 1 < NameMaxBytes
               => PathExtension(s.name) = PathExtension(came)
            /\ s.name = Numbered(s.leaf, 1 + Cardinality(before))
===============================================================================
