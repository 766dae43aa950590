---------------------------- MODULE ErrorResponse ----------------------------
(***************************************************************************)
(* What receiveError() answers to a request that fails: the cause in a     *)
(* JSON body, and the headers Http2Headers builds.  Texts are sequences of *)
(* bytes; the fixed parts of the body and the sizes are left out.          *)
(***************************************************************************)
EXTENDS Integers, Sequences, SequencesExt

QUOTE == 34
BACKSLASH == 92
COMMA == 44
BLANK == 32

LOWER_XDIGITS == <<48, 49, 50, 51, 52, 53, 54, 55, 56, 57, 97, 98, 99, 100, 101, 102>>

\* The bytes with an escape of two characters: " \ newline return tab \b \f.
shortEscape == [c \in {QUOTE, BACKSLASH, 10, 13, 9, 8, 12} |->
    CASE c = 10 -> 110   [] c = 13 -> 114   [] c = 9 -> 116
      [] c = 8  -> 98    [] c = 12 -> 102   [] OTHER -> c]

\* Mutant of escapedByte: the backslash is taken for an ordinary character.
escapedByteButBackslash(c) ==
    IF c \in DOMAIN shortEscape \ {BACKSLASH} THEN <<BACKSLASH, shortEscape[c]>>
    ELSE IF c < 32
    THEN <<BACKSLASH, 117, 48, 48, LOWER_XDIGITS[(c \div 16) + 1], LOWER_XDIGITS[(c % 16) + 1]>>
    ELSE <<c>>

\* One byte of the cause; the other control characters as \u00XX.
escapedByte(c) ==
    IF c \in DOMAIN shortEscape THEN <<BACKSLASH, shortEscape[c]>>
    ELSE IF c < 32
    THEN <<BACKSLASH, 117, 48, 48, LOWER_XDIGITS[(c \div 16) + 1], LOWER_XDIGITS[(c % 16) + 1]>>
    ELSE <<c>>

\* What stands between the quotes of "cause".
escaped_cause(cause) == FlattenSeq([i \in 1..Len(cause) |-> escapedByte(cause[i])])

\* The members of the JSON body: {} for an error without a cause.
responseBody(cause) ==
    IF cause = <<>> THEN {} ELSE {[key |-> "cause", value |-> escaped_cause(cause)]}

-----------------------------------------------------------------------------
\* Http2Headers::emplace(): an empty value adds nothing.
emplace(headers, key, value) ==
    IF value = <<>> THEN headers ELSE headers \union {[key |-> key, value |-> value]}

\* Mutant of serialized: the list begins with its second method.
serializedFromSecond(methods) ==
    FlattenSeq([i \in 1..Len(methods) |->
        IF i = 1 THEN <<>> ELSE <<COMMA, BLANK>> \o methods[i]])

\* The methods of addAllowedMethods(), separated by a comma and a blank.
serialized(methods) ==
    FlattenSeq([i \in 1..Len(methods) |->
        IF i = 1 THEN methods[i] ELSE <<COMMA, BLANK>> \o methods[i]])

\* The headers that are not always there: version, location and methods.
optionalHeaders(version, location, allowedMethods) ==
    LET withVersion == emplace({}, "x-version", version)
        withLocation == emplace(withVersion, "location", location)
    IN  emplace(withLocation, "Allow", serialized(allowedMethods))
=============================================================================
