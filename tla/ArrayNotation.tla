--------------------------- MODULE ArrayNotation ---------------------------
(***************************************************************************)
(* Lists in a reply: Response::setResponseArgument writes a vector as a    *)
(* text in array notation, arrayStringToVectorString reads it. A text is a *)
(* sequence of characters, which are strings of length one.                *)
(***************************************************************************)
EXTENDS Integers, Sequences, SequencesExt

Comma == ","
Space == " "

\* What Response::setResponseArgument makes of a vector.
arrayText(list) ==
  <<"[">> \o FlattenSeq([i \in DOMAIN list |->
               IF i = Len(list) THEN list[i] ELSE Append(list[i], Comma)])
          \o <<"]">>

-----------------------------------------------------------------------------
(* arrayStringToVectorString.                                              *)

\* One character more for getline; a comma ends the token.
cut(parts, char) ==
  IF char = Comma
  THEN [tokens |-> Append(parts.tokens, parts.token), token |-> <<>>]
  ELSE [parts EXCEPT !.token = Append(@, char)]

\* What getline has found once it has read the first n characters.
partsRead(parts, text) ==
  LET after[n \in 0..Len(text)] ==
        IF n = 0 THEN parts ELSE cut(after[n - 1], text[n])
  IN  after

split(parts, text) == partsRead(parts, text)[Len(text)]

NoParts == [tokens |-> <<>>, token |-> <<>>]

\* A plausible bug of the next one: what is behind the last comma is lost.
tokensEndedByComma(text) == split(NoParts, text).tokens

\* The tokens that getline finds. There is none behind a comma at the end.
tokensOf(text) ==
  LET parts == split(NoParts, text)
  IN  IF parts.token = <<>> THEN parts.tokens
      ELSE Append(parts.tokens, parts.token)

\* The token without spaces around it.
trim(token) ==
  LET marks == {i \in DOMAIN token : token[i] # Space}
  IN  IF marks = {} THEN <<>> ELSE SubSeq(token, Min(marks), Max(marks))

\* The text has its two brackets; Exchange says what happens without.
arrayStringToVectorString(text) ==
  LET tokens == tokensOf(SubSeq(text, 2, Len(text) - 1))
  IN  [i \in DOMAIN tokens |-> trim(tokens[i])]
=============================================================================
