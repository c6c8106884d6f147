------------------------------ MODULE Compare ------------------------------
(***************************************************************************)
(* Output comparison (crates/judge/src/compare.rs) over sequences of       *)
(* bytes.  The message of a mismatch is left out: a comparison is TRUE or  *)
(* FALSE.  Numbers are unsigned decimal integers and eps is a fraction,    *)
(* <<numerator, denominator>>: signs, decimal points, exponents and the    *)
(* rounding of f64 are left out.                                           *)
(***************************************************************************)
EXTENDS Integers, SequencesExt

HT == 9
LF == 10
FF == 12
CR == 13
SP == 32

Blank  == {SP, HT, CR}
White  == Blank \cup {LF, FF}    \* u8::is_ascii_whitespace
Digits == 48 .. 57

(* slice::split: the parts between the separators, empty ones included;     *)
(* parts[k] are those of the last k elements.                               *)
Split(data, separators) ==
  LET parts[k \in 0 .. Len(data)] ==
        IF k = 0 THEN << <<>> >>
        ELSE LET b    == data[Len(data) - k + 1]
                 rest == parts[k - 1]
             IN  IF b \in separators THEN Cons(<<>>, rest)
                 ELSE Cons(Cons(b, Head(rest)), Tail(rest))
  IN  parts[Len(data)]

TrimOne(s, junk) ==  \* mutant: at most one element
  IF s # <<>> /\ Last(s) \in junk THEN Front(s) ELSE s

TrimEnd(s, junk) == SubSeq(s, 1, Max({0} \cup {i \in DOMAIN s : s[i] \notin junk}))

NormalizedLines(data) ==
  LET lines == Split(data, {LF})
  IN  TrimEnd([i \in DOMAIN lines |-> TrimEnd(lines[i], Blank)], {<<>>})

CompareLines(expected, actual) == NormalizedLines(expected) = NormalizedLines(actual)

(* The elements of s at the given places, in order.                        *)
Subsequence(s, places) ==
  LET kept[k \in 0 .. Len(s)] ==
        IF k = 0 THEN <<>>
        ELSE LET i == Len(s) - k + 1
             IN  IF i \in places THEN Cons(s[i], kept[k - 1]) ELSE kept[k - 1]
  IN  kept[Len(s)]

KeepEmpty(data) == Split(data, White)  \* mutant: empty tokens are kept

Tokens(data) ==
  LET parts == Split(data, White)
  IN  Subsequence(parts, {i \in DOMAIN parts : parts[i] # <<>>})

IsNumber(token) == \A i \in DOMAIN token : token[i] \in Digits
Value(token) == FoldLeft(LAMBDA n, b : 10 * n + (b - 48), 0, token)

(* Within eps of the expected value, absolutely or relative to it.          *)
FloatsMatch(expected, actual, eps) ==
  /\ IsNumber(expected) /\ IsNumber(actual)
  /\ LET e == Value(expected)
         a == Value(actual)
         scaled == eps[2] * (IF e < a THEN a - e ELSE e - a)
     IN  scaled <= eps[1] \/ scaled <= eps[1] * e

None == <<>>  \* Option::None

CompareTokens(expected, actual, eps) ==
  LET e == Tokens(expected)
      a == Tokens(actual)
  IN  /\ Len(e) = Len(a)
      /\ \A i \in DOMAIN e : e[i] = a[i] \/ (eps # None /\ FloatsMatch(e[i], a[i], eps))

Matches(comparer, expected, actual) ==
  CASE comparer.kind = "lines"  -> CompareLines(expected, actual)
    [] comparer.kind = "tokens" -> CompareTokens(expected, actual, None)
    [] comparer.kind = "float"  -> CompareTokens(expected, actual, comparer.eps)

-----------------------------------------------------------------------------
(* What the comparers promise, byte by byte (the comments on Comparer): no   *)
(* lines, no tokens, only which bytes of an output matter.                   *)

(* Some ink follows byte i, before the next byte of stop.                    *)
InkAfter(data, i, stop) ==
  \E j \in i + 1 .. Len(data) :
     /\ data[j] \notin Blank \cup {LF}
     /\ \A k \in i + 1 .. j : data[k] \notin stop

LinesSkeleton(data) ==
  Subsequence(data, {i \in DOMAIN data : CASE data[i] \in Blank -> InkAfter(data, i, {LF})
                                          [] data[i] = LF      -> InkAfter(data, i, {})
                                          [] OTHER             -> TRUE})

(* The ink, each byte with whether it ends a word.                           *)
Words(data) ==
  Subsequence([i \in DOMAIN data |-> <<data[i], i = Len(data) \/ data[i + 1] \in White>>],
              {i \in DOMAIN data : data[i] \notin White})

(* A verdict on an output: "lines" and "tokens" accept exactly the outputs   *)
(* with the right skeleton, "float" at least those "tokens" accepts, and     *)
(* only outputs with as many tokens.                                         *)
JudgesRight(comparer, expected, actual, accepts) ==
  CASE comparer.kind = "lines"  -> accepts <=> LinesSkeleton(expected) = LinesSkeleton(actual)
    [] comparer.kind = "tokens" -> accepts <=> Words(expected) = Words(actual)
    [] comparer.kind = "float"  ->
         /\ Words(expected) = Words(actual) => accepts
         /\ accepts => Len(Tokens(expected)) = Len(Tokens(actual))
=============================================================================
