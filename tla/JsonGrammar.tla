----------------------------- MODULE JsonGrammar -----------------------------
(***************************************************************************)
(* What is JSON, said of whole texts and not of positions in them: a text   *)
(* is a value if it can be cut into the parts the grammar names.  The       *)
(* reference the reader of JsonText and the writer of                       *)
(* EngineOutputSerializer are compared with.                                *)
(***************************************************************************)
EXTENDS JsonText

From(s, i) == SubSeq(s, i, Len(s))
UpTo(s, i) == SubSeq(s, 1, i)
Inside(s) == SubSeq(s, 2, Len(s) - 1)

IsDigits(s) == s # <<>> /\ \A i \in DOMAIN s : s[i] \in Digits
IsNatural(s) == IsDigits(s) /\ (s[1] = Zero => Len(s) = 1)
IsInteger(s) == IsNatural(s) \/ (s # <<>> /\ s[1] = Minus /\ IsNatural(Tail(s)))
IsFraction(s) == s = <<>> \/ (s[1] = Dot /\ IsDigits(Tail(s)))
IsExponent(s) ==
  \/ s = <<>>
  \/ s[1] \in Exponents /\ IsDigits(Tail(s))
  \/ Len(s) > 2 /\ s[1] \in Exponents /\ s[2] \in {Plus, Minus} /\ IsDigits(From(s, 3))

IsNumber(s) ==
  \E i \in 1 .. Len(s) : \E j \in i .. Len(s) :
    IsInteger(UpTo(s, i)) /\ IsFraction(SubSeq(s, i + 1, j)) /\ IsExponent(From(s, j + 1))

\* \uXXXX: one code unit that is no surrogate, or a pair of them.
IsCodeUnit(s) ==
  Len(s) = 6 /\ s[1] = Backslash /\ s[2] = LetterU /\ \A i \in 3 .. 6 : s[i] \in HexDigits

Unit(s) ==
  (((HexValue(s[3]) * 16 + HexValue(s[4])) * 16) + HexValue(s[5])) * 16 + HexValue(s[6])

IsCharacter(s) ==
  \/ Len(s) = 1 /\ s[1] >= 32 /\ s[1] \notin {Quote, Backslash}
  \/ Len(s) = 2 /\ s[1] = Backslash /\ s[2] \in {34, 47, 92, 98, 102, 110, 114, 116}
  \/ IsCodeUnit(s) /\ Unit(s) \notin HighSurrogates \cup LowSurrogates
  \/ /\ Len(s) = 12 /\ IsCodeUnit(UpTo(s, 6)) /\ IsCodeUnit(From(s, 7))
     /\ Unit(UpTo(s, 6)) \in HighSurrogates /\ Unit(From(s, 7)) \in LowSurrogates

RECURSIVE AreCharacters(_)
AreCharacters(s) ==
  s = <<>> \/ \E i \in {1, 2, 6, 12} :
               i <= Len(s) /\ IsCharacter(UpTo(s, i)) /\ AreCharacters(From(s, i + 1))

IsString(s) ==
  Len(s) > 1 /\ s[1] = Quote /\ s[Len(s)] = Quote /\ AreCharacters(Inside(s))

Trimmed(s) ==
  LET shown == {i \in DOMAIN s : s[i] \notin Whitespace}
  IN  IF shown = {} THEN <<>>
      ELSE SubSeq(s, CHOOSE i \in shown : \A j \in shown : i <= j,
                     CHOOSE i \in shown : \A j \in shown : i >= j)

\* The places where a list may be cut into its first part and the rest.
Commas(s) == {i \in DOMAIN s : s[i] = Comma}

RECURSIVE IsValue(_), AreElements(_), AreMembers(_, _)

AreElements(s) ==
  \/ IsValue(Trimmed(s))
  \/ \E i \in Commas(s) : IsValue(Trimmed(UpTo(s, i - 1))) /\ AreElements(From(s, i + 1))

IsMember(s, names) ==
  \E c \in DOMAIN s :
    /\ s[c] = Colon
    /\ IsString(Trimmed(UpTo(s, c - 1)))
    /\ Trimmed(UpTo(s, c - 1)) \notin names
    /\ IsValue(Trimmed(From(s, c + 1)))

\* The key of a member: what is before its first colon outside the quotes.
Key(s) ==
  LET keys == {c \in DOMAIN s : s[c] = Colon /\ IsString(Trimmed(UpTo(s, c - 1)))}
  IN  Trimmed(UpTo(s, (CHOOSE c \in keys : \A d \in keys : c <= d) - 1))

AreMembers(s, names) ==
  \/ IsMember(s, names)
  \/ \E i \in Commas(s) :
       /\ IsMember(UpTo(s, i - 1), names)
       /\ AreMembers(From(s, i + 1), names \cup {Key(UpTo(s, i - 1))})

IsValue(s) ==
  \/ IsNumber(s) \/ IsString(s) \/ \E l \in DOMAIN Literals : s = Literals[l]
  \/ /\ Len(s) > 1 /\ s[1] = OpenBracket /\ s[Len(s)] = CloseBracket
     /\ Trimmed(Inside(s)) = <<>> \/ AreElements(Inside(s))
  \/ /\ Len(s) > 1 /\ s[1] = OpenBrace /\ s[Len(s)] = CloseBrace
     /\ Trimmed(Inside(s)) = <<>> \/ AreMembers(Inside(s), {})

IsJson(s) == IsValue(Trimmed(s))
=============================================================================
