------------------------------- MODULE Bencode -------------------------------
(***************************************************************************)
(* Bencode on sequences of symbols: the decoder (meta/bencode.go), and how *)
(* numbers and strings are written.  A word, a key, an address or a hash is*)
(* one symbol of a string.                                                 *)
(*                                                                         *)
(* A node is [int |-> k], [str |-> symbols], [list |-> nodes] or           *)
(* [dict |-> f], where f maps strings to nodes.                            *)
(***************************************************************************)
EXTENDS Integers, SequencesExt

Numeral == <<"0", "1", "2", "3", "4", "5", "6", "7", "8", "9">>
Digit == { Numeral[i] : i \in 1..10 }

-----------------------------------------------------------------------------
(* Encoding. *)

Digits(k) ==
    LET upTo[n \in 0..k] ==
            (IF n < 10 THEN <<>> ELSE upTo[n \div 10]) \o <<Numeral[(n % 10) + 1]>>
    IN  upTo[k]

Decimal(k) == IF k < 0 THEN <<"-">> \o Digits(-k) ELSE Digits(k)

BInt(k) == <<"i">> \o Decimal(k) \o <<"e">>
BStr(s) == Digits(Len(s)) \o <<":">> \o s

Entry(word, value) == BStr(<<word>>) \o value

-----------------------------------------------------------------------------
(* Decoding: what begins at a position and where the next begins, or Failed. *)

Failed == [ok |-> FALSE]
Decoded(node, next) == [ok |-> TRUE, node |-> node, next |-> next]

\* Where c is found first, not before position i; 0 if nowhere.
First(s, i, c) == SelectInSubSeq(s, i, Len(s), LAMBDA x : x = c)

\* Sscanf with %d: a sign, digits, and whatever follows them.
Leading(t) == SubSeq(t, 1, SelectInSeq(Append(t, ":"), LAMBDA x : x \notin Digit) - 1)

DigitValue(x) == CHOOSE k \in 0..9 : Numeral[k + 1] = x

Value(digits) ==
    LET upTo[n \in 0..Len(digits)] ==
            IF n = 0 THEN 0 ELSE 10 * upTo[n - 1] + DigitValue(digits[n])
    IN  upTo[Len(digits)]

ScanDigits(digits, sign) == [ok |-> digits # <<>>, value |-> sign * Value(digits)]

Scan(s) ==
    IF s # <<>> /\ s[1] \in {"-", "+"}
    THEN ScanDigits(Leading(Tail(s)), IF s[1] = "-" THEN -1 ELSE 1)
    ELSE ScanDigits(Leading(s), 1)

\* What follows the "i".
parseInt(s, i) ==
    LET end == First(s, i, "e")
        num == Scan(SubSeq(s, i, end - 1))
    IN  IF end = 0 \/ ~num.ok THEN Failed ELSE Decoded([int |-> num.value], end + 1)

parseString(s, i) ==
    LET colon == First(s, i, ":")
        num == Scan(SubSeq(s, i, colon - 1))
        end == colon + num.value
    IN  IF colon = 0 \/ ~num.ok \/ end > Len(s) THEN Failed
        ELSE Decoded([str |-> SubSeq(s, colon + 1, end)], end + 1)

\* A list or a dictionary ends where the input does.
AfterEndOrEOF(s, i) == IF i > Len(s) THEN i ELSE IF s[i] = "e" THEN i + 1 ELSE 0

\* What follows the end of a list or a dictionary, 0 if it does not end here.
AfterEnd(s, i) == IF i <= Len(s) /\ s[i] = "e" THEN i + 1 ELSE 0

AsList(items) == IF items.ok THEN Decoded([list |-> items.node], items.next) ELSE Failed
AsDict(entries) == IF entries.ok THEN Decoded([dict |-> entries.node], entries.next) ELSE Failed

\* `parsed` has what the lists and the dictionaries hold from a position on.
parseNode(s, parsed, i) ==
    IF i > Len(s) THEN Failed
    ELSE CASE s[i] = "i" -> parseInt(s, i + 1)
           [] s[i] \in Digit -> parseString(s, i)
           [] s[i] = "l" -> AsList(parsed[<<"list", i + 1>>])
           [] s[i] = "d" -> AsDict(parsed[<<"dict", i + 1>>])
           [] OTHER -> Failed

parseList(s, parsed, i) ==
    LET value == parseNode(s, parsed, i)
        others == parsed[<<"list", value.next>>]
    IN  IF AfterEnd(s, i) # 0 THEN Decoded(<<>>, AfterEnd(s, i))
        ELSE IF value.ok /\ others.ok
        THEN Decoded(<<value.node>> \o others.node, others.next)
        ELSE Failed

\* The last of several entries with one key stays.
WithEntry(key, value, others) ==
    [k \in {key} \cup DOMAIN others |-> IF k \in DOMAIN others THEN others[k] ELSE value]

parseDict(s, parsed, i) ==
    LET key == parseString(s, i)
        value == parseNode(s, parsed, key.next)
        others == parsed[<<"dict", value.next>>]
    IN  IF AfterEnd(s, i) # 0 THEN Decoded(<<>>, AfterEnd(s, i))
        ELSE IF i <= Len(s) /\ s[i] \in Digit /\ key.ok /\ value.ok /\ others.ok
        THEN Decoded(WithEntry(key.node.str, value.node, others.node), others.next)
        ELSE Failed

Decode(s) ==
    LET parsed[at \in {"list", "dict"} \X (1..Len(s) + 1)] ==
            IF at[1] = "list" THEN parseList(s, parsed, at[2]) ELSE parseDict(s, parsed, at[2])
    IN  parseNode(s, parsed, 1)

-----------------------------------------------------------------------------
(* Entries of a decoded dictionary, by a key of one word. *)

Has(dict, word) == <<word>> \in DOMAIN dict
At(dict, word) == dict[<<word>>]
HasA(kind, dict, word) == Has(dict, word) /\ kind \in DOMAIN At(dict, word)

=============================================================================
