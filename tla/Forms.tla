-------------------------------- MODULE Forms --------------------------------
(***************************************************************************)
(* Query strings and form bodies (crates/http/src: query.rs, form.rs and   *)
(* percent.rs). A body is a sequence of bytes. A client that encodes its   *)
(* fields by the rules, in any of the spellings they allow, sends one      *)
(* body; another body is what it is. The characters of a text take up to   *)
(* two bytes of UTF-8.                                                     *)
(***************************************************************************)
EXTENDS Integers, Sequences, FiniteSets, SequencesExt

CONSTANTS
  FmFields,    \* sequences of pairs of byte sequences that clients submit
  FmBodies,    \* bodies that nobody encoded
  FmMaxBytes,  \* FormLimits::max_bytes
  FmMaxPairs   \* FormLimits::max_pairs

ASSUME FormsAssumption ==
  /\ FmMaxBytes \in Nat /\ FmMaxPairs \in Nat
  /\ FmBodies \subseteq Seq(0..255) /\ <<>> \notin FmFields

VARIABLES
  fmSent,    \* the fields that were submitted, <<>> if nobody encoded it
  fmBody,    \* the body
  fmStatus,  \* 0 before it is parsed, 200 or the status of the error
  fmResult   \* the fields that parse_form_with_limit returns

fmVars == <<fmSent, fmBody, fmStatus, fmResult>>

Amp == 38
Percent == 37
Plus == 43
Space == 32
Equals == 61

-----------------------------------------------------------------------------
(* percent.rs                                                              *)

NoDigit == 16
\* Mutation of HexValue: digits are upper case.
UpperDigits(b) ==
  CASE b \in 48..57 -> b - 48
    [] b \in 65..70 -> b - 55
    [] OTHER -> NoDigit
HexValue(b) ==
  CASE b \in 48..57 -> b - 48
    [] b \in 65..70 -> b - 55
    [] b \in 97..102 -> b - 87
    [] OTHER -> NoDigit

\* What decode_bytes stops at, "" if nothing. No digit is a percent sign, so
\* escapes do not overlap.
EscapeError(s) ==
  LET wrong == {i \in 1..Len(s) : s[i] = Percent /\
                  \/ i + 2 > Len(s)
                  \/ NoDigit \in {HexValue(s[i + 1]), HexValue(s[i + 2])}}
      first == CHOOSE i \in wrong : \A j \in wrong : i <= j
  IN IF wrong = {} THEN ""
     ELSE IF first + 2 > Len(s) THEN "TruncatedEscape" ELSE "InvalidHexDigit"

\* The bytes of a text without wrong escapes.
DecodeBytes(s) ==
  LET digit(i) == \E k \in 1..2 : i > k /\ s[i - k] = Percent
      kept == SelectSeq([i \in 1..Len(s) |-> i], LAMBDA i : ~digit(i))
  IN [k \in 1..Len(kept) |->
        IF s[kept[k]] # Percent THEN s[kept[k]]
        ELSE HexValue(s[kept[k] + 1]) * 16 + HexValue(s[kept[k] + 2])]

\* Every byte is ASCII, or the first of two, or the second of two.
Leads(s, i) == i \in 1..Len(s) /\ s[i] \in 194..223
Follows(s, i) == i \in 1..Len(s) /\ s[i] \in 128..191
ValidUtf8(s) ==
  \A i \in 1..Len(s) : \/ s[i] < 128
                       \/ Leads(s, i) /\ Follows(s, i + 1)
                       \/ Follows(s, i) /\ Leads(s, i - 1)

\* Mutation of DecodeComponent: the plus signs are replaced after decoding.
PlusLast(s) ==
  LET out == DecodeBytes(s)
  IN IF EscapeError(s) # "" THEN [error |-> EscapeError(s), text |-> <<>>]
     ELSE IF ~ValidUtf8(out) THEN [error |-> "InvalidUtf8", text |-> <<>>]
     ELSE [error |-> "", text |-> [i \in 1..Len(out) |-> IF out[i] = Plus THEN Space ELSE out[i]]]
\* decode_form_component: first the plus signs, then decode_str
DecodeComponent(c) ==
  LET s == [i \in 1..Len(c) |-> IF c[i] = Plus THEN Space ELSE c[i]]
      out == DecodeBytes(s)
  IN IF EscapeError(s) # "" THEN [error |-> EscapeError(s), text |-> <<>>]
     ELSE IF ~ValidUtf8(out) THEN [error |-> "InvalidUtf8", text |-> <<>>]
     ELSE [error |-> "", text |-> out]

-----------------------------------------------------------------------------
(* query.rs and form.rs                                                    *)

\* The parts of a text between the bytes sep.
Split(s, sep) ==
  LET at == SelectSeq([i \in 1..Len(s) |-> i], LAMBDA i : s[i] = sep)
      cuts == <<0>> \o at \o <<Len(s) + 1>>
  IN [k \in 1..(Len(at) + 1) |-> SubSeq(s, cuts[k] + 1, cuts[k + 1] - 1)]

\* A segment at its first equals sign; without one it is a key.
Pair(seg) ==
  LET at == {i \in 1..Len(seg) : seg[i] = Equals}
      eq == CHOOSE i \in at : \A j \in at : i <= j
  IN IF at = {} THEN <<seg, <<>>>>
     ELSE <<SubSeq(seg, 1, eq - 1), SubSeq(seg, eq + 1, Len(seg))>>

\* Mutation of QueryPairs: the iterator ends at an empty segment.
UpToEmpty(s) ==
  LET segs == Split(s, Amp)
      empty == {i \in 1..Len(segs) : segs[i] = <<>>} \cup {Len(segs) + 1}
      stop == CHOOSE i \in empty : \A j \in empty : i <= j
  IN [i \in 1..(stop - 1) |-> Pair(segs[i])]
\* Mutation of QueryPairs: a segment without an equals sign is passed over.
WithEquals(s) ==
  LET segs == SelectSeq(Split(s, Amp), LAMBDA seg : Equals \in ToSet(seg))
  IN [i \in 1..Len(segs) |-> Pair(segs[i])]
\* parse_query: the segments that are not empty, in their order
QueryPairs(s) ==
  LET segs == SelectSeq(Split(s, Amp), LAMBDA seg : seg # <<>>)
  IN [i \in 1..Len(segs) |-> Pair(segs[i])]

\* Mutation of FormStatus: only the number of pairs is limited.
AnyLength(s) ==
  LET pairs == QueryPairs(s)
  IN IF ~ValidUtf8(s) THEN 400
     ELSE IF Len(pairs) > FmMaxPairs THEN 413
     ELSE IF \E i \in 1..Len(pairs), k \in 1..2 : DecodeComponent(pairs[i][k]).error # "" THEN 400
     ELSE 200
\* The status of the FormError that HttpError makes of it, 200 for none.
FormStatus(s) ==
  LET pairs == QueryPairs(s)
  IN IF Len(s) > FmMaxBytes THEN 413
     ELSE IF ~ValidUtf8(s) THEN 400
     ELSE IF Len(pairs) > FmMaxPairs THEN 413
     ELSE IF \E i \in 1..Len(pairs), k \in 1..2 : DecodeComponent(pairs[i][k]).error # "" THEN 400
     ELSE 200

Decoded(pairs) ==
  [i \in 1..Len(pairs) |-> <<DecodeComponent(pairs[i][1]).text, DecodeComponent(pairs[i][2]).text>>]

ParseForm ==
  /\ fmStatus = 0
  /\ fmStatus' = FormStatus(fmBody)
  /\ fmResult' = IF fmStatus' = 200 THEN Decoded(QueryPairs(fmBody)) ELSE <<>>
  /\ UNCHANGED <<fmSent, fmBody>>

-----------------------------------------------------------------------------
(* Clients. A byte that has no other meaning may stand for itself, a space  *)
(* may be a plus sign, and any byte may be an escape in either case.        *)

Unreserved(b) == b \in 48..57 \/ b \in 65..90 \/ b \in 97..122
Digit(d, upper) == IF d < 10 THEN 48 + d ELSE IF upper THEN 55 + d ELSE 87 + d
Escape(b, upper) == <<Percent, Digit(b \div 16, upper), Digit(b % 16, upper)>>
EncodeByte(b, style) ==
  CASE style = "short" /\ Unreserved(b) -> <<b>>
    [] style = "short" /\ b = Space -> <<Plus>>
    [] OTHER -> Escape(b, style # "lower")
EncodeText(s, style) == FlattenSeq([i \in 1..Len(s) |-> EncodeByte(s[i], style)])
Encode(fields, style, sep) ==
  FlattenSeq([i \in 1..Len(fields) |->
    (IF i = 1 THEN <<>> ELSE sep)
    \o EncodeText(fields[i][1], style) \o <<Equals>> \o EncodeText(fields[i][2], style)])

FmStyles == {"short", "upper", "lower"}
FmSeparators == {<<Amp>>, <<Amp, Amp>>}

Submit ==
  \E f \in FmFields, style \in FmStyles, sep \in FmSeparators :
    fmSent = f /\ fmBody = Encode(f, style, sep)

FormsInit ==
  /\ \/ Submit
     \/ fmBody \in FmBodies /\ fmSent = <<>>
  /\ fmStatus = 0 /\ fmResult = <<>>

FormsNext == ParseForm

-----------------------------------------------------------------------------
(* Properties. The first definitions say what a body is, position by        *)
(* position and without splitting it.                                      *)

\* Where a field begins.
Starts(body) == {i \in 1..Len(body) : body[i] # Amp /\ (i = 1 \/ body[i - 1] = Amp)}

\* The numbers that a byte is a digit for: one or none.
Nibbles(b) == {d \in 0..15 : b \in {Digit(d, TRUE), Digit(d, FALSE)}}
WellEscaped(body) ==
  \A i \in 1..Len(body) : body[i] = Percent =>
    i + 2 <= Len(body) /\ Nibbles(body[i + 1]) # {} /\ Nibbles(body[i + 2]) # {}

\* What a body with good escapes says, read once from its first byte to its
\* last: an ampersand ends a field, the first equals sign of a field ends its
\* key, and everything else is a byte of the key or of the value.
Said(body) ==
  LET fresh == [fields |-> <<>>, texts |-> <<<<>>, <<>>>>, side |-> 1, begun |-> FALSE]
      end(a) == [fresh EXCEPT !.fields = IF a.begun THEN Append(a.fields, a.texts) ELSE a.fields]
      value(i) == 16 * (CHOOSE d \in Nibbles(body[i + 1]) : TRUE)
                  + (CHOOSE d \in Nibbles(body[i + 2]) : TRUE)
      byte(i) == IF body[i] = Percent THEN value(i) ELSE IF body[i] = Plus THEN Space ELSE body[i]
      read(a, i) ==
        CASE \E k \in {1, 2} : i > k /\ body[i - k] = Percent -> a
          [] body[i] = Amp -> end(a)
          [] body[i] = Equals /\ a.side = 1 -> [a EXCEPT !.side = 2, !.begun = TRUE]
          [] OTHER -> [a EXCEPT !.texts[a.side] = Append(@, byte(i)), !.begun = TRUE]
  IN end(FoldLeft(read, fresh, [i \in 1..Len(body) |-> i])).fields

\* Fields that a client encoded, in whatever spelling, are read as they were
\* written: keys and values, empty ones and repeated ones, in their order, and
\* are refused only for their size. Any body is 413 exactly if it is longer
\* than max_bytes or, being UTF-8, has more than max_pairs fields; otherwise it
\* is read exactly if it is UTF-8 before and after its escapes are, all good,
\* replaced, and then as all of what it says, no field left out, joined to
\* another or cut short (parse_form_with_limit, QueryPairs::next,
\* decode_bytes).
FormFaithful ==
  fmStatus # 0 =>
    LET large == \/ Len(fmBody) > FmMaxBytes
                 \/ ValidUtf8(fmBody) /\ Cardinality(Starts(fmBody)) > FmMaxPairs
        readable == /\ ValidUtf8(fmBody) /\ WellEscaped(fmBody)
                    /\ \A f \in ToSet(Said(fmBody)) : ValidUtf8(f[1]) /\ ValidUtf8(f[2])
    IN /\ fmStatus = IF large THEN 413 ELSE IF readable THEN 200 ELSE 400
       /\ fmResult = IF fmStatus = 200 THEN Said(fmBody) ELSE <<>>
       /\ fmSent # <<>> =>
            /\ fmStatus = 413 <=> Len(fmBody) > FmMaxBytes \/ Len(fmSent) > FmMaxPairs
            /\ fmStatus # 413 => fmStatus = 200 /\ fmResult = fmSent
=============================================================================
