------------------------------ MODULE CsvText ------------------------------
(***************************************************************************)
(* Rows of values as text, Helper.DataTableToCsv, and back again: the      *)
(* rows of CsvToDataTableSimple, which CsvParser takes apart character by  *)
(* character, and beside it what CsvToDataTableRegex makes of the same     *)
(* line.  The header is left out (it is written and split plainly), and so *)
(* are line breaks inside of a value, which none of the readers knows.     *)
(*                                                                         *)
(* A character is the separator, the qualifier, white space or any other.  *)
(* A separator may be white space as well (a tab), which the constant      *)
(* White says, or mean any character to a regular expression (a full       *)
(* stop), which Matched says.  It is not the qualifier, and the qualifier  *)
(* is the double quote, which is the default and all that the writer and   *)
(* the regular expression know.                                            *)
(*                                                                         *)
(* Positions count from 1, so last is one more than in the code.           *)
(***************************************************************************)
EXTENDS Naturals, FiniteSets, SequencesExt

CONSTANTS
  MaxColumns,  \* bound: values of a row written
  MaxValue,    \* bound: characters of such a value
  MaxLine,     \* bound: characters of a line that someone else wrote
  White,       \* the kinds of character that are white space
  Matched      \* the kinds that the separator matches as a regular expression

ASSUME CsvAssumption == MaxColumns \in Nat /\ MaxValue \in Nat /\ MaxLine \in Nat

Chars == {"sep", "qual", "blank", "x"}

ASSUME SeparatorAssumption ==
  /\ White \in {{"blank"}, {"blank", "sep"}}
  /\ Matched \in {{"sep"}, Chars}

VARIABLES
  values,         \* the row that was written, <<>> if the line is not ours
  line,           \* the line that is read
  reader,         \* "idle", "parsing", "parsed", "skipped"
  current, last,  \* CsvParser's positions
  inText,         \* whether a qualifier is open
  tokens

csvVars == <<values, line, reader, current, last, inText, tokens>>

-----------------------------------------------------------------------------
(* DataTableToCsv, one row.  What a value itself has of qualifiers is not   *)
(* doubled.  A plausible bug: it does not quote at all.                     *)
Fault_NeverQuoted(v) == v

Quoted(v) == IF Contains(v, "sep") THEN <<"qual">> \o v \o <<"qual">> ELSE v

LineOf(vs) ==
  FlattenSeq([i \in 1..Len(vs) |-> IF i = 1 THEN Quoted(vs[i]) ELSE <<"sep">> \o Quoted(vs[i])])

(* Trim, and Replace of the qualifier before it.                            *)
Trimmed(t) ==
  LET ink == {i \in 1..Len(t) : t[i] \notin White}
  IN  IF ink = {} THEN <<>>
      ELSE SubSeq(t, CHOOSE i \in ink : \A j \in ink : i <= j,
                     CHOOSE i \in ink : \A j \in ink : j <= i)

WithoutQualifiers(t) ==
  LET kept[i \in 0..Len(t)] ==
        IF i = 0 THEN <<>>
                 ELSE IF t[i] = "qual" THEN kept[i - 1] ELSE Append(kept[i - 1], t[i])
  IN  kept[Len(t)]

Token(from, to) == Trimmed(WithoutQualifiers(SubSeq(line, from, to)))

IsBlank(t) == \A i \in 1..Len(t) : t[i] \in White

-----------------------------------------------------------------------------
CsvInit ==
  /\ values = <<>> /\ line = <<>> /\ reader = "idle"
  /\ current = 1 /\ last = 0 /\ inText = FALSE /\ tokens = <<>>

(* The loop of CsvToDataTableSimple reads a line; a blank one is no row.    *)
ReadLine(text) ==
  /\ line' = text
  /\ reader' = IF IsBlank(text) THEN "skipped" ELSE "parsing"
  /\ UNCHANGED <<current, last, inText, tokens>>

ReadOwn(vs) == values' = vs /\ ReadLine(LineOf(vs))

ReadForeign(text) == values' = values /\ ReadLine(text)

CsvParser == reader = "parsing" /\ current <= Len(line)

(* A plausible bug: a second qualifier does not close the text.             *)
Fault_QualifierOpens ==
  /\ CsvParser /\ line[current] = "qual"
  /\ inText' = TRUE
  /\ current' = current + 1
  /\ UNCHANGED <<values, line, reader, last, tokens>>

Qualifier ==
  /\ CsvParser /\ line[current] = "qual"
  /\ inText' = ~inText
  /\ current' = current + 1
  /\ UNCHANGED <<values, line, reader, last, tokens>>

(* A plausible bug: the next token begins one character late.               *)
Fault_TokenLate ==
  /\ CsvParser /\ line[current] = "sep" /\ ~inText
  /\ tokens' = Append(tokens, Token(last + 1, current - 1))
  /\ last' = current + 1 /\ current' = current + 1
  /\ UNCHANGED <<values, line, reader, inText>>

Separator ==
  /\ CsvParser /\ line[current] = "sep" /\ ~inText
  /\ tokens' = Append(tokens, Token(last + 1, current - 1))
  /\ last' = current /\ current' = current + 1
  /\ UNCHANGED <<values, line, reader, inText>>

Other ==
  /\ CsvParser /\ line[current] # "qual" /\ (line[current] = "sep" => inText)
  /\ current' = current + 1
  /\ UNCHANGED <<values, line, reader, last, inText, tokens>>

(* A plausible bug: a token is added for the end in any case.               *)
Fault_LastAlways ==
  /\ reader = "parsing" /\ current > Len(line)
  /\ tokens' = Append(tokens, Token(last + 1, Len(line)))
  /\ reader' = "parsed"
  /\ UNCHANGED <<values, line, current, last, inText>>

(* What follows the last separator is a token, unless nothing follows it.   *)
EndOfLine ==
  /\ reader = "parsing" /\ current > Len(line)
  /\ tokens' = IF last # Len(line) THEN Append(tokens, Token(last + 1, Len(line))) ELSE tokens
  /\ reader' = "parsed"
  /\ UNCHANGED <<values, line, current, last, inText>>

(* The row has its values: the columns without a token stay null.           *)
NextRow ==
  /\ reader \in {"parsed", "skipped"}
  /\ values' = <<>> /\ line' = <<>> /\ reader' = "idle"
  /\ current' = 1 /\ last' = 0 /\ inText' = FALSE /\ tokens' = <<>>

Read ==
  /\ reader = "idle"
  /\ \/ \E n \in 1..MaxColumns : \E vs \in [1..n -> BoundedSeq(Chars, MaxValue)] : ReadOwn(vs)
     \/ \E text \in BoundedSeq(Chars, MaxLine) : ReadForeign(text)

CsvNext == Read \/ Qualifier \/ Separator \/ Other \/ EndOfLine \/ NextRow

CsvSpec == CsvInit /\ [][CsvNext]_csvVars

-----------------------------------------------------------------------------
(* The other reader: CsvToDataTableRegex splits a line wherever its pattern *)
(* matches and an even number of qualifiers follows.  The delimiter is put *)
(* into the pattern as it is: most match themselves, a full stop matches   *)
(* every character.  Not modelled are delimiters that match between        *)
(* characters (bar, caret, dollar) and those with which there is no        *)
(* pattern, so that it throws (star, plus, question mark, round brackets,  *)
(* an opening square bracket, backslash).                                  *)
Qualifiers(text, positions) == Cardinality({i \in positions : text[i] = "qual"})

RegexCuts(text) ==
  {i \in 1..Len(text) : text[i] \in Matched /\ Qualifiers(text, (i + 1)..Len(text)) % 2 = 0}

\* The cells lie between the cuts and the ends of the line; of these bounds,
\* in ascending order, the one after k others.
Bound(bounds, k) == CHOOSE i \in bounds : Cardinality({j \in bounds : j < i}) = k

RegexCells(text) ==
  LET bounds == {0, Len(text) + 1} \union RegexCuts(text)
  IN  [k \in 1..(Cardinality(bounds) - 1) |->
         WithoutQualifiers(SubSeq(text, Bound(bounds, k - 1) + 1, Bound(bounds, k) - 1))]

-----------------------------------------------------------------------------
(***************************************************************************)
(* Properties.                                                             *)
(***************************************************************************)

(* Type invariant.  A token never begins behind the place that is read.    *)
CsvTypeOK ==
  /\ values \in Seq(Seq(Chars)) /\ line \in Seq(Chars)
  /\ reader \in {"idle", "parsing", "parsed", "skipped"}
  /\ current \in 1..(Len(line) + 1)
  /\ last \in 0..(current - 1)
  /\ inText \in BOOLEAN
  /\ tokens \in Seq(Seq(Chars))

(* CsvParser cuts the line at the separators with an even number of        *)
(* qualifiers before them, and at no others: the last cut is the latest of *)
(* them that has been read, and there are as many tokens as cuts.          *)
InText(i) == Qualifiers(line, 1..(i - 1)) % 2 = 1
Cuts(to) == {i \in 1..to : line[i] = "sep" /\ ~InText(i)}

CutsOutsideText ==
  reader = "parsing" =>
    /\ last # 0 => last \in Cuts(current - 1)
    /\ \A i \in Cuts(current - 1) : i <= last
    /\ Len(tokens) = Cardinality(Cuts(current - 1))

(* A row that DataTableToCsv has written is read back: the same values in  *)
(* the same columns, with the white space around them gone, and an empty   *)
(* last value missing (so that its column is null).  A row is skipped only *)
(* if all its values are blank, and, unless it has only one, the separator *)
(* is white space itself.  Values with qualifiers are excluded, which the  *)
(* writer does not double.                                                 *)
ReadsBack ==
  values # <<>> /\ (\A i \in 1..Len(values) : ~Contains(values[i], "qual")) =>
    LET n    == Len(values)
        kept == IF values[n] = <<>> THEN n - 1 ELSE n
    IN  /\ reader = "parsed" => tokens = [i \in 1..kept |-> Trimmed(values[i])]
        /\ reader = "skipped" => /\ n = 1 \/ "sep" \in White
                              /\ \A i \in 1..n : Trimmed(values[i]) = <<>>

(* The two readers agree on every line whose qualifiers are in pairs, up   *)
(* to the white space that only CsvParser trims and the empty last value   *)
(* that it leaves out.  With a full stop for a separator they agree only   *)
(* where the pattern finds nothing but separators.                         *)
ParsersAgree ==
  /\ reader = "parsed"
  /\ Qualifiers(line, 1..Len(line)) % 2 = 0
  /\ \A i \in RegexCuts(line) : line[i] = "sep"
  =>
    LET cells == RegexCells(line)
        kept  == IF Len(line) \in RegexCuts(line) THEN Len(cells) - 1 ELSE Len(cells)
    IN  tokens = [i \in 1..kept |-> Trimmed(cells[i])]
=============================================================================
