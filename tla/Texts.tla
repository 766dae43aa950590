-------------------------------- MODULE Texts --------------------------------
(***************************************************************************)
(* The conversions of URLFunctions and ErrorResponse against what they are *)
(* meant to compute, for every text of up to MaxLength bytes.              *)
(***************************************************************************)
EXTENDS URLFunctions, ErrorResponse, FiniteSets

CONSTANTS
    Alphabet,       \* the bytes of the texts
    MaxLength       \* bound

ASSUME TextsAssumption == Alphabet \subseteq 0..255 /\ MaxLength \in Nat

VARIABLE text

vars == text

Init == text = <<>>

Next ==
    /\ Len(text) < MaxLength
    /\ \E c \in Alphabet : text' = Append(text, c)

Spec == Init /\ [][Next]_vars

-----------------------------------------------------------------------------
(***************************************************************************)
(* The texts between two separators.                                       *)
(***************************************************************************)
\* The members of a set of positions in their order: each by how many are before it.
Ascending(S) ==
    [k \in 1..Cardinality(S) |-> CHOOSE i \in S : Cardinality({j \in S : j < i}) = k - 1]

\* A path in normal form begins and ends with a slash, and its segments are
\* between them.
Segments(path) ==
    LET slashes == Ascending({i \in 1..Len(path) : path[i] = SLASH})
    IN  [k \in 1..Len(slashes) - 1 |-> SubSeq(path, slashes[k] + 1, slashes[k + 1] - 1)]

\* The elements of a comma separated list, without the blank before them.
Elements(list) ==
    LET ends == Ascending({i \in 1..Len(list) : list[i] = COMMA} \union {Len(list) + 1})
    IN  [k \in 1..Len(ends) |->
            SubSeq(list, IF k = 1 THEN 1 ELSE ends[k - 1] + 2, ends[k] - 1)]

Slashed(path) ==
    (IF path[1] = SLASH THEN path ELSE <<SLASH>> \o path)
        \o (IF path[Len(path)] = SLASH THEN <<>> ELSE <<SLASH>>)

-----------------------------------------------------------------------------
\* Every text survives encode() and decode(), and what is on its way in between
\* has no byte a URL would give a meaning to (URLFunctions.cpp).
EncodingIsReversible ==
    /\ decode(encode(text)) = text
    /\ \A i \in 1..Len(encode(text)) :
         unreserved(encode(text)[i]) \/ encode(text)[i] = PERCENT

\* decode() replaces each %XX, and nothing else, by its byte, each + by a space, and
\* leaves what is malformed or cut off at the end (URLFunctions.cpp, decode(): an
\* index that moves in the loop, and a bound that is one too large).
DecodesEachEscapeOnce ==
    LET escape(i) ==
            /\ i \in 1..Len(text) - 2
            /\ text[i] = PERCENT /\ isxdigit(text[i + 1]) /\ isxdigit(text[i + 2])
        meant == Ascending({i \in 1..Len(text) : ~escape(i - 1) /\ ~escape(i - 2)})
    IN  decode(text) =
            [k \in 1..Len(meant) |->
                LET i == meant[k]
                IN  IF escape(i) THEN 16 * xvalue(text[i + 1]) + xvalue(text[i + 2])
                    ELSE IF text[i] = PLUS THEN SPACE ELSE text[i]]

\* The prefixes of the check, those of getApiPath() among them.
SomePaths ==
    LET bytes == {c \in Alphabet : c = SLASH \/ isalnum(c)}
    IN  (UNION {[1..n -> bytes] : n \in 0..2})
        \union {getApiPath(<<name>>, version) : name \in bytes \ {SLASH},
                                                version \in {<<>>} \union {<<c>> : c \in bytes}}

\* A prefix matches whole segments of the path, never a part of one, so that
\* /api/v1 is not a prefix of /api/v10 (URLFunctions.cpp, matchPrefix(), and
\* Stream.cpp, reception(), which matches with getApiPath()).
PrefixesAreWholeSegments ==
    \A pathPrefix \in SomePaths :
        matchPrefix(text, pathPrefix) <=>
            \/ pathPrefix = <<>>
            \/ /\ text # <<>>
               /\ IsPrefix(Segments(Slashed(pathPrefix)), Segments(Slashed(text)))

-----------------------------------------------------------------------------
\* A reader of JSON: the bytes up to the closing quote, and where that is; an
\* empty value at position 0 if there is none or a control character is in the way.
\* It does not mind bytes that are no UTF-8.
JsonString(body) ==
    LET size == Len(body)
        meaning == [c \in {QUOTE, BACKSLASH, 110, 114, 116, 98, 102} |->
            CASE c = 110 -> 10 [] c = 114 -> 13 [] c = 116 -> 9
              [] c = 98 -> 8 [] c = 102 -> 12 [] OTHER -> c]
        read[i \in 1..size + 1] ==
            LET then(c, next) == [read[next] EXCEPT !.value = <<c>> \o @]
            IN  CASE i > size -> [value |-> <<>>, end |-> 0]
                  [] i <= size /\ body[i] = QUOTE -> [value |-> <<>>, end |-> i]
                  [] i <= size /\ body[i] = BACKSLASH ->
                       IF i < size /\ body[i + 1] \in DOMAIN meaning
                       THEN then(meaning[body[i + 1]], i + 2)
                       ELSE IF i + 5 <= size /\ body[i + 1] = 117
                       THEN then(16 * xvalue(body[i + 4]) + xvalue(body[i + 5]), i + 6)
                       ELSE [value |-> <<>>, end |-> 0]
                  [] i <= size /\ body[i] < 32 -> [value |-> <<>>, end |-> 0]
                  [] OTHER -> then(body[i], i + 1)
    IN  read[1]

\* Whatever bytes a cause has, a reader of the body gets them back, and the string
\* ends where receiveError() ends it: no byte of the cause closes it before; only
\* an error without a cause has no member for it (Http2Server.cpp, receiveError()).
CauseIsReadBack ==
    /\ responseBody(text) = {} <=> text = <<>>
    /\ \A member \in responseBody(text) :
         JsonString(member.value \o <<QUOTE>>) =
             [value |-> text, end |-> Len(member.value) + 1]

\* The Allow header names the methods one by one and in their order, and is left
\* out if there are none (Http2Headers.cpp, addAllowedMethods() and emplace()).
AllowNamesTheMethods ==
    (\A i \in 1..Len(text) : isalnum(text[i])) =>
        LET methods == [i \in 1..Len(text) |-> <<text[i]>>]
            headers == optionalHeaders(<<>>, <<>>, methods)
        IN  IF methods = <<>> THEN headers = {}
            ELSE /\ {header.key : header \in headers} = {"Allow"}
                 /\ \A header \in headers : Elements(header.value) = methods
=============================================================================
