-------------------------------- MODULE Jan --------------------------------
(***************************************************************************)
(* JAN codes (crates/domain): a code of 13 digits whose last one checks    *)
(* the others; a code of 12 digits is completed.                           *)
(* A text is the sequence of its characters without the spaces around it,  *)
(* each a digit or NonDigit.                                               *)
(***************************************************************************)
EXTENDS Naturals, Sequences

CONSTANT NonDigit

Digit == 0..9

\* No other character is a digit.
ASSUME AlphabetAssumption == NonDigit \notin Digit

\* The codes of n digits.
Code(n) == {s \in Seq(Digit) : Len(s) = n}

JanError == {"Empty", "NonDigit", "InvalidLength", "InvalidChecksum"}

\* Every second digit counts three times, the one before the check digit first.
Total(body) ==
  (body[1] + body[3] + body[5] + body[7] + body[9] + body[11])
    + 3 * (body[2] + body[4] + body[6] + body[8] + body[10] + body[12])

\* checksum, which is only asked for the first 12 digits
Checksum(body) == (10 - (Total(body) % 10)) % 10

\* Parsed has the digits, or else the error.
Parsed(digits) == [error |-> "None", digits |-> digits]
Refused(error) == [error |-> error, digits |-> <<>>]

\* Jan::parse
Parse(text) ==
  IF text = <<>> THEN Refused("Empty")
  ELSE IF \E i \in DOMAIN text : text[i] = NonDigit THEN Refused("NonDigit")
  ELSE CASE Len(text) = 12 -> Parsed(Append(text, Checksum(text)))
         [] Len(text) = 13 -> IF Checksum(text) = text[13]
                              THEN Parsed(text)
                              ELSE Refused("InvalidChecksum")
         [] OTHER -> Refused("InvalidLength")

Accepts(text) == Parse(text).error = "None"
=============================================================================
