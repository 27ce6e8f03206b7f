--------------------------- MODULE DelimitedText ---------------------------
(***************************************************************************)
(* The inventory as a delimited text: how the client writes it and how it  *)
(* reads such a text, character by character                               *)
(* (frontend/src/features/importExport/importExportHelpers.tsx:443-540).   *)
(*                                                                         *)
(* A text is a sequence of characters.  "a" stands for every character     *)
(* without a meaning, and there are no blanks: what is written has none at *)
(* the ends of a cell, and reading removes none elsewhere.                 *)
(***************************************************************************)
EXTENDS Naturals, Sequences, SequencesExt

CONSTANTS Tables   \* tables of cells below the header that are written

Quote == "quote"
NewLine == "newline"
Characters == {"a", ";", ",", Quote, NewLine}
Header == <<<<"a">>, <<"a">>>>     \* labels of fields have no delimiters

\* What an instance assumes of the constants; a line has a cell for each field.
ConstantsFit == Tables \subseteq Seq(Seq(Seq(Characters)) \ {<<>>})

VARIABLES table, text, index, delimiter, rows, row, current, quoted
textVars == <<table, text, index, delimiter, rows, row, current, quoted>>

----------------------------------------------------------------------------
(* Writing.                                                                *)

\* fault: a line break does not put a cell in quotes
EscapeNoBreaks(cell) ==
    IF \E i \in DOMAIN cell : cell[i] \in {Quote, ";"}
      THEN <<Quote>> \o FlattenSeq([i \in DOMAIN cell |->
             IF cell[i] = Quote THEN <<Quote, Quote>> ELSE <<cell[i]>>]) \o <<Quote>>
      ELSE cell

Escape(cell) ==
    IF \E i \in DOMAIN cell : cell[i] \in {Quote, ";", NewLine}
      THEN <<Quote>> \o FlattenSeq([i \in DOMAIN cell |->
             IF cell[i] = Quote THEN <<Quote, Quote>> ELSE <<cell[i]>>]) \o <<Quote>>
      ELSE cell

Joined(parts, separator) ==
    FlattenSeq([i \in DOMAIN parts |->
                 IF i = 1 THEN parts[i] ELSE <<separator>> \o parts[i]])

Line(cells) == Joined([i \in DOMAIN cells |-> Escape(cells[i])], ";")

Written(cells) == Joined([i \in DOMAIN cells |-> Line(cells[i])], NewLine)

----------------------------------------------------------------------------
(* Reading.                                                                *)

FirstLine(t) ==
    LET breaks == {i \in DOMAIN t : t[i] = NewLine}
    IN  IF breaks = {} THEN t
        ELSE SubSeq(t, 1, (CHOOSE i \in breaks : \A j \in breaks : i <= j) - 1)

Count(t, c) == Cardinality({i \in DOMAIN t : t[i] = c})

Detected(t) ==
    LET first == FirstLine(t)
    IN  IF Count(first, "tab") > Count(first, ";") /\ Count(first, "tab") > Count(first, ",")
          THEN "tab"
        ELSE IF Count(first, ";") >= Count(first, ",") THEN ";" ELSE ","

TextInit ==
    /\ table \in Tables
    /\ text = Written(<<Header>> \o table)
    /\ index = 1
    /\ delimiter = Detected(text)
    /\ rows = <<>> /\ row = <<>> /\ current = <<>> /\ quoted = FALSE

Read(c) == index <= Len(text) /\ text[index] = c

Follows(c) == index < Len(text) /\ text[index + 1] = c

Blank(cells) == \A i \in DOMAIN cells : cells[i] = <<>>

EndRow ==
    LET cells == Append(row, current)
    IN  /\ rows' = IF Blank(cells) THEN rows ELSE Append(rows, cells)
        /\ row' = <<>>
        /\ current' = <<>>

DoubledQuote ==
    /\ Read(Quote) /\ quoted /\ Follows(Quote)
    /\ current' = Append(current, Quote)
    /\ index' = index + 2
    /\ UNCHANGED <<table, text, delimiter, rows, row, quoted>>

SingleQuote ==
    /\ Read(Quote) /\ ~(quoted /\ Follows(Quote))
    /\ quoted' = ~quoted
    /\ index' = index + 1
    /\ UNCHANGED <<table, text, delimiter, rows, row, current>>

EndCell ==
    /\ Read(delimiter) /\ ~quoted
    /\ row' = Append(row, current)
    /\ current' = <<>>
    /\ index' = index + 1
    /\ UNCHANGED <<table, text, delimiter, rows, quoted>>

EndLine ==
    /\ Read(NewLine) /\ ~quoted
    /\ EndRow
    /\ index' = index + 1
    /\ UNCHANGED <<table, text, delimiter, quoted>>

OtherCharacter ==
    /\ index <= Len(text) /\ text[index] # Quote
    /\ quoted \/ text[index] \notin {delimiter, NewLine}
    /\ current' = Append(current, text[index])
    /\ index' = index + 1
    /\ UNCHANGED <<table, text, delimiter, rows, row, quoted>>

EndText ==
    /\ index = Len(text) + 1
    /\ EndRow
    /\ index' = index + 1
    /\ UNCHANGED <<table, text, delimiter, quoted>>

ParseDelimited ==
    DoubledQuote \/ SingleQuote \/ EndCell \/ EndLine \/ OtherCharacter \/ EndText
=============================================================================
