----------------------------- MODULE URLFunctions -----------------------------
(***************************************************************************)
(* URLFunctions and the API path of Http2Server: conversions of texts,     *)
(* which are sequences of bytes.                                           *)
(***************************************************************************)
EXTENDS Integers, Sequences, SequencesExt

SPACE == 32
PERCENT == 37
PLUS == 43
SLASH == 47

digits == 48..57
isalnum(c) == c \in digits \union 65..90 \union 97..122
isxdigit(c) == c \in digits \union 65..70 \union 97..102

UPPER_XDIGITS == <<48, 49, 50, 51, 52, 53, 54, 55, 56, 57, 65, 66, 67, 68, 69, 70>>

\* What strtol() makes of one hexadecimal digit.
xvalue(c) ==
    CASE c \in digits  -> c - 48
      [] c \in 65..70  -> c - 55
      [] c \in 97..102 -> c - 87

-----------------------------------------------------------------------------
\* unreserved (RFC 3986): letters, digits, and - _ . ~
unreserved(c) == isalnum(c) \/ c \in {45, 95, 46, 126}

percentEncoded(c) == <<PERCENT, UPPER_XDIGITS[(c \div 16) + 1], UPPER_XDIGITS[(c % 16) + 1]>>

\* Mutant of encode: the percent sign stays as it is.
encodeButPercent(decodedUrl) ==
    FlattenSeq([i \in 1..Len(decodedUrl) |->
        IF unreserved(decodedUrl[i]) \/ decodedUrl[i] = PERCENT THEN <<decodedUrl[i]>>
        ELSE percentEncoded(decodedUrl[i])])

encode(decodedUrl) ==
    FlattenSeq([i \in 1..Len(decodedUrl) |->
        IF unreserved(decodedUrl[i]) THEN <<decodedUrl[i]>>
        ELSE percentEncoded(decodedUrl[i])])

\* std::string::operator[], with the terminator behind the last byte.
at(text, i) == IF i <= Len(text) THEN text[i] ELSE 0

plain(c) == IF c = PLUS THEN SPACE ELSE c

\* Mutant of decode: the two digits are read again.
decodeWithoutSkip(encodedUrl) ==
    [i \in 1..Len(encodedUrl) |->
        IF /\ encodedUrl[i] = PERCENT
           /\ isxdigit(at(encodedUrl, i + 1)) /\ isxdigit(at(encodedUrl, i + 2))
        THEN 16 * xvalue(encodedUrl[i + 1]) + xvalue(encodedUrl[i + 2])
        ELSE plain(encodedUrl[i])]

\* decode(): its test (i + 2) <= size() lets a single byte follow the percent
\* sign; the second digit is then the terminator.
decode(encodedUrl) ==
    LET size == Len(encodedUrl)
        from[i \in 1..size + 1] ==
            IF i > size THEN <<>>
            ELSE IF /\ encodedUrl[i] = PERCENT
                    /\ i + 1 <= size
                    /\ isxdigit(encodedUrl[i + 1])
                    /\ isxdigit(at(encodedUrl, i + 2))
            THEN <<16 * xvalue(encodedUrl[i + 1]) + xvalue(encodedUrl[i + 2])>> \o from[i + 3]
            ELSE <<plain(encodedUrl[i])>> \o from[i + 1]
    IN  from[1]

-----------------------------------------------------------------------------
\* Mutant of normalized: no slash is added behind the text.
normalizedInFront(path) ==
    IF path # <<>> /\ Head(path) # SLASH THEN <<SLASH>> \o path ELSE path

\* A slash at both sides, unless there is nothing between them.
normalized(path) ==
    IF path = <<>> THEN path
    ELSE (IF Head(path) # SLASH THEN <<SLASH>> ELSE <<>>)
         \o path
         \o (IF Last(path) # SLASH THEN <<SLASH>> ELSE <<>>)

\* find() at position 0.
matchPrefix(urlPath, pathPrefix) == IsPrefix(normalized(pathPrefix), normalized(urlPath))

\* The path reception() matches the requests with, if the API has a name.
getApiPath(api_name, api_version) ==
    IF api_name = <<>> THEN <<>>
    ELSE <<SLASH>> \o api_name
         \o (IF api_version = <<>> THEN <<>> ELSE <<SLASH>> \o api_version)
=============================================================================
