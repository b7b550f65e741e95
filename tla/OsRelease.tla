----------------------------- MODULE OsRelease -----------------------------
(***************************************************************************)
(* The os-release parser that reads the version out of an installed        *)
(* systemd-boot (OsRelease::from_str in rust/tool/shared/src/              *)
(* os_release.rs), one character per step, and the writer for the .osrel   *)
(* section of a stub (its Display).  A text is a sequence of characters,   *)
(* each given by its name; "k" stands for all that are like any other, and *)
(* "nbsp" for all that only Unicode counts as whitespace.                  *)
(***************************************************************************)
EXTENDS Integers, Sequences, FiniteSets, SequencesExt

CONSTANTS
  Texts,   \* bound: the texts that are parsed as they are
  Values   \* bound: the values that are written first, in every style

ASSUME OsAssumption == Texts \cup Values \subseteq Seq(STRING)

Comments == {"hash", "semicolon"}
Newline == {"newline", "return"}
Whitespace == {"space", "tab"} \cup Newline
\* What trim_end takes for whitespace: Unicode's White_Space (external).
UnicodeWhitespace == Whitespace \cup {"nbsp"}
ShellNeedEscape == {"quote", "backslash", "backtick", "dollar"}

VARIABLES
  text,    \* the characters that have not been read
  written, \* how the text was made: [style, value], style "none" if it was not
  state, current_key, current_value,
  map      \* pairs of a key and a value, the last one for a key last

osVars == <<text, written, state, current_key, current_value, map>>

OsInit ==
  /\ text = <<>> /\ written = [style |-> "none", value |-> <<>>]
  /\ state = "Idle" /\ current_key = <<>> /\ current_value = <<>> /\ map = <<>>

-----------------------------------------------------------------------------
(* The texts.                                                              *)

Key == <<"k">>

\* Display: key=value, nothing quoted.
Bare(value) == Key \o <<"equals">> \o value \o <<"newline">>

\* As systemd-boot writes it: in quotes, a backslash before what a shell takes.
DoubleQuoted(value) ==
  Key \o <<"equals", "quote">>
      \o FlattenSeq([i \in 1..Len(value) |->
           IF value[i] \in ShellNeedEscape THEN <<"backslash", value[i]>> ELSE <<value[i]>>])
      \o <<"quote", "newline">>

SingleQuoted(value) == Key \o <<"equals", "apostrophe">> \o value \o <<"apostrophe", "newline">>

Begin(chars, style, value) ==
  /\ text' = chars /\ written' = [style |-> style, value |-> value]
  /\ state' = "PreKey"
  /\ UNCHANGED <<current_key, current_value, map>>

BeginParse ==
  /\ state = "Idle"
  /\ \/ \E t \in Texts : Begin(t, "none", <<>>)
     \/ \E v \in Values : \/ Begin(Bare(v), "bare", v)
                          \/ Begin(DoubleQuoted(v), "double", v)
                          \/ Begin(SingleQuoted(v), "single", v)

-----------------------------------------------------------------------------
(* from_str: `Go` takes one character to the next state.                   *)

\* Mutant: whitespace at the end of a value stays.
NoTrim(chars) == chars

\* trim_end: without the whitespace at its end, which is more than what the
\* parser itself skips.
TrimEnd(chars) ==
  LET kept == {n \in 0..Len(chars) : \A i \in (n + 1)..Len(chars) : chars[i] \in UnicodeWhitespace}
  IN  SubSeq(chars, 1, CHOOSE n \in kept : \A m \in kept : n <= m)

Push(next, c) ==
  state' = next /\ current_value' = Append(current_value, c) /\ UNCHANGED <<current_key, map>>

Go(next) == state' = next /\ UNCHANGED <<current_key, current_value, map>>

\* Mutant: the value is not cleared.
StoreUncleared(value) ==
  /\ map' = Append(map, <<TrimEnd(current_key), value>>)
  /\ state' = "PreKey" /\ current_key' = <<>> /\ current_value' = current_value

\* The end of a line with a value.
Store(value) ==
  /\ map' = Append(map, <<TrimEnd(current_key), value>>)
  /\ state' = "PreKey" /\ current_key' = <<>> /\ current_value' = <<>>

PreKey(c) ==
  \/ c \in Comments /\ Go("Comment")
  \/ c \in Whitespace /\ Go("PreKey")
  \/ /\ c \notin Comments \cup Whitespace
     /\ state' = "Key" /\ current_key' = Append(current_key, c)
     /\ UNCHANGED <<current_value, map>>

\* A line without an equals sign is ignored.
ReadKey(c) ==
  \/ c \in Newline /\ state' = "PreKey" /\ current_key' = <<>> /\ UNCHANGED <<current_value, map>>
  \/ c = "equals" /\ Go("PreValue")
  \/ /\ c \notin Newline \cup {"equals"}
     /\ state' = "Key" /\ current_key' = Append(current_key, c)
     /\ UNCHANGED <<current_value, map>>

PreValue(c) ==
  \/ c \in Newline /\ Store(current_value)
  \/ c = "apostrophe" /\ Go("SingleQuoteValue")
  \/ c = "quote" /\ Go("DoubleQuoteValue")
  \/ c = "backslash" /\ Go("ValueEscape")
  \/ c \in Whitespace \ Newline /\ Go("PreValue")
  \/ c \notin Whitespace \cup {"apostrophe", "quote", "backslash"} /\ Push("Value", c)

Value(c) ==
  \/ c \in Newline /\ Store(TrimEnd(current_value))
  \/ c = "backslash" /\ Go("ValueEscape")
  \/ c \notin Newline \cup {"backslash"} /\ Push("Value", c)

ValueEscape(c) == IF c \in Newline THEN Go("Value") ELSE Push("Value", c)

SingleQuoteValue(c) == IF c = "apostrophe" THEN Go("PreValue") ELSE Push("SingleQuoteValue", c)

DoubleQuoteValue(c) ==
  \/ c = "quote" /\ Go("PreValue")
  \/ c = "backslash" /\ Go("DoubleQuoteValueEscape")
  \/ c \notin {"quote", "backslash"} /\ Push("DoubleQuoteValue", c)

\* Mutant: the backslash stays whatever follows it.
DoubleQuoteValueEscapeKept(c) ==
  /\ state' = "DoubleQuoteValue"
  /\ current_value' = current_value \o <<"backslash", c>> /\ UNCHANGED <<current_key, map>>

\* A backslash that escapes nothing stays, one before a line feed goes with it.
DoubleQuoteValueEscape(c) ==
  \/ c \in ShellNeedEscape /\ Push("DoubleQuoteValue", c)
  \/ c = "newline" /\ Go("DoubleQuoteValue")
  \/ /\ c \notin ShellNeedEscape \cup {"newline"}
     /\ state' = "DoubleQuoteValue"
     /\ current_value' = current_value \o <<"backslash", c>> /\ UNCHANGED <<current_key, map>>

Comment(c) ==
  \/ c = "backslash" /\ Go("CommentEscape")
  \/ c \in Newline /\ Go("PreKey")
  \/ c \notin Newline \cup {"backslash"} /\ Go("Comment")

CommentEscape(c) == IF c \in Newline THEN Go("PreKey") ELSE Go("Comment")

ReadChar ==
  /\ text # <<>>
  /\ LET c == Head(text)
     IN  \/ state = "PreKey" /\ PreKey(c)
         \/ state = "Key" /\ ReadKey(c)
         \/ state = "PreValue" /\ PreValue(c)
         \/ state = "Value" /\ Value(c)
         \/ state = "ValueEscape" /\ ValueEscape(c)
         \/ state = "SingleQuoteValue" /\ SingleQuoteValue(c)
         \/ state = "DoubleQuoteValue" /\ DoubleQuoteValue(c)
         \/ state = "DoubleQuoteValueEscape" /\ DoubleQuoteValueEscape(c)
         \/ state = "Comment" /\ Comment(c)
         \/ state = "CommentEscape" /\ CommentEscape(c)
  /\ text' = Tail(text)
  /\ UNCHANGED written

InValue == {"PreValue", "Value", "ValueEscape", "SingleQuoteValue",
            "DoubleQuoteValue", "DoubleQuoteValueEscape"}

\* The end of the text ends a value too, and the parse.
EndOfText ==
  /\ text = <<>> /\ state \notin {"Idle", "Done"}
  /\ map' = IF state \in InValue
            THEN Append(map, <<TrimEnd(current_key),
                   IF state = "Value" THEN TrimEnd(current_value) ELSE current_value>>)
            ELSE map
  /\ state' = "Done"
  /\ UNCHANGED <<text, written, current_key, current_value>>

OsNext == BeginParse \/ ReadChar \/ EndOfText

-----------------------------------------------------------------------------
\* Between lines the parser remembers nothing: what a line means does not
\* depend on the lines before it.
LinesIndependent ==
  state = "PreKey" => current_key = <<>> /\ current_value = <<>>

\* A value that systemd-boot or an administrator has quoted is read back as it
\* was, whatever characters it has: newlines, backslashes, quotes of the other
\* kind, whitespace at either end.
QuotedRoundTrip ==
  state = "Done" /\ \/ written.style = "double"
                    \/ written.style = "single" /\ ~Contains(written.value, "apostrophe")
    => map = <<<<Key, written.value>>>>

\* No whitespace at either end (at the end none of Unicode's), no backslash, no
\* newline, no quote in front.
Plain(value) ==
  /\ value # <<>> => /\ value[1] \notin Whitespace \cup {"apostrophe", "quote"}
                     /\ value[Len(value)] \notin UnicodeWhitespace
  /\ \A i \in 1..Len(value) : value[i] \notin Newline \cup {"backslash"}

\* What Display writes without quotes is read back for these values and for
\* no others, so these are the labels and versions the .osrel section of a
\* stub can carry.
BareRoundTrip ==
  state = "Done" /\ written.style = "bare" =>
    (map = <<<<Key, written.value>>>> <=> Plain(written.value))
=============================================================================
