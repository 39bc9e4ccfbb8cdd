------------------------------- MODULE MCInput -------------------------------
(***************************************************************************)
(* A user who knows some commands, has cards and a PIN, makes mistakes,    *)
(* and tries a PIN that is too long for the buffers.                       *)
(***************************************************************************)
EXTENDS InputProps

(* parseHexUUID of two cards with four bytes and of one with seven.        *)
CardLetters ==
    {"0", "1", "2", "3", "4", "5", "6", "7", "8", "9", "A", "B", "C", "D", "E", "F", "-"}

FirstCard == <<"1", "A", "-", "0", "2", "-", "F", "3", "-", "4", "4">>

SecondCard == <<"2", "B", "-", "0", "2", "-", "F", "3", "-", "4", "4">>

LongCard == <<"0", "4", "-", "0", "2", "-", "F", "3", "-", "4", "4", "-",
              "5", "5", "-", "6", "6", "-", "8", "0">>

SeveralCards == {FirstCard, SecondCard, LongCard}

Typed(text) == Append(text, Enter)

CommandLine(c) == Typed(<<"/">> \o CommandEvents[c])

(* The longest PIN that the reader takes at once.                          *)
FittingPin == Typed(<<"*", "1", "1", "1", "1", "1", "1", "1", "1">>)

(* The longest PIN the gateway accepts.                                    *)
LongPin == Typed(<<"*", "1", "1", "1", "1", "1", "1", "1", "1", "1", "1">>)

UserLines ==
    {CommandLine(c) : c \in DOMAIN CommandEvents \ {"GUEST_ACCESS_DISABLE"}}
    \cup {FittingPin, Typed(<<>>), <<Backspace>>,
          <<"1", "1", Backspace, "2", Enter>>, LongPin}

(* What InputProofs assumes of the lines.                                  *)
ASSUME UserLinesAreSimple == LinesAreSimple

CardBounds == [slow \in BOOLEAN |-> IF slow THEN 1 ELSE 3]

InputBounds == [slow \in BOOLEAN |-> IF slow THEN 4 ELSE 3]
=============================================================================
