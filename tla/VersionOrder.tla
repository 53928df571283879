---------------------------- MODULE VersionOrder ----------------------------
(***************************************************************************)
(* How the directory orders versions (CompareVersion), loop by loop, next  *)
(* to the order it is meant to be: dpkg's, as deb-version(7) defines it.   *)
(* A text is a sequence of one-character strings.                          *)
(***************************************************************************)
EXTENDS Integers, Sequences

CONSTANT Texts     \* bound: the version strings that are compared

Digits == {"0", "1", "2"}
Letters == {"a", "b"}
Marks == {"~", ".", "+", "-", ":"}
Code == [c \in Digits \cup Letters \cup Marks |->
            CASE c = "0" -> 48 [] c = "1" -> 49 [] c = "2" -> 50 [] c = "a" -> 97
              [] c = "b" -> 98 [] c = "~" -> 126 [] c = "." -> 46 [] c = "+" -> 43
              [] c = "-" -> 45 [] c = ":" -> 58]

TextsAssumption == \A t \in Texts : t \in Seq(DOMAIN Code)

VARIABLES
    a, b,        \* the versions, split
    part,        \* "upstream" or "revision", once the epochs are equal
    i, j,        \* the next character of each
    firstDiff,
    pc,          \* "epoch", then per fragment "outer", "runs", "zeros", "digits"; "done"
    result

vars == <<a, b, part, i, j, firstDiff, pc, result>>

-----------------------------------------------------------------------------
IsDigit(s, n) == n <= Len(s) /\ s[n] \in Digits
IsOther(s, n) == n <= Len(s) /\ s[n] \notin Digits

\* The number a run of digits writes.
Number(s) ==
    LET value[n \in 0..Len(s)] == IF n = 0 THEN 0 ELSE 10 * value[n - 1] + Code[s[n]] - 48
    IN  value[Len(s)]

First(s, c) == {n \in DOMAIN s : s[n] = c /\ \A m \in 1..(n - 1) : s[m] # c}
Last(s, c) == {n \in DOMAIN s : s[n] = c /\ \A m \in (n + 1)..Len(s) : s[m] # c}

\* The epoch is what stands before the first colon, if that is a number, and
\* the revision what follows the last hyphen.
SplitVersion(text) ==
    LET epochs == {n \in First(text, ":") : n > 1 /\ \A m \in 1..(n - 1) : text[m] \in Digits}
        epoch == IF epochs = {} THEN 0 ELSE Number(SubSeq(text, 1, (CHOOSE n \in epochs : TRUE) - 1))
        rest == IF epochs = {} THEN text
                ELSE SubSeq(text, (CHOOSE n \in epochs : TRUE) + 1, Len(text))
        hyphens == Last(rest, "-")
        hyphen == CHOOSE n \in hyphens : TRUE
    IN  [epoch |-> epoch,
         upstream |-> IF hyphens = {} THEN rest ELSE SubSeq(rest, 1, hyphen - 1),
         revision |-> IF hyphens = {} THEN <<>> ELSE SubSeq(rest, hyphen + 1, Len(rest))]

\* Mutant: letters are not set apart.
RankByCode(c) == IF c = "~" THEN -1 ELSE Code[c]

Rank(c) == IF c = "~" THEN -1 ELSE IF c \in Letters THEN Code[c] ELSE Code[c] + 256

\* The rank at a position; past the end it is zero.
RankAt(s, n) == IF n <= Len(s) THEN Rank(s[n]) ELSE 0

-----------------------------------------------------------------------------
(* The comparison *)

Return(value) == pc' = "done" /\ result' = value

CompareEpochs ==
    /\ pc = "epoch"
    /\ IF a.epoch # b.epoch THEN Return(a.epoch - b.epoch)
       ELSE pc' = "outer" /\ UNCHANGED result
    /\ UNCHANGED <<a, b, part, i, j, firstDiff>>

\* Both fragments are used up: the next fragment, or equal.
Outer ==
    /\ pc = "outer"
    /\ IF i <= Len(a[part]) \/ j <= Len(b[part])
       THEN pc' = "runs" /\ UNCHANGED <<part, i, j, result>>
       ELSE IF part = "upstream"
       THEN part' = "revision" /\ i' = 1 /\ j' = 1 /\ UNCHANGED <<pc, result>>
       ELSE Return(0) /\ UNCHANGED <<part, i, j>>
    /\ UNCHANGED <<a, b, firstDiff>>

\* A turn of the loop over what is not a digit, of either.
Runs ==
    /\ pc = "runs"
    /\ IF IsOther(a[part], i) \/ IsOther(b[part], j)
       THEN LET ac == RankAt(a[part], i)
                bc == RankAt(b[part], j)
            IN  IF ac # bc THEN Return(ac - bc) /\ UNCHANGED <<i, j>>
                ELSE i' = i + 1 /\ j' = j + 1 /\ UNCHANGED <<pc, result>>
       ELSE pc' = "zeros" /\ UNCHANGED <<i, j, result>>
    /\ UNCHANGED <<a, b, part, firstDiff>>

SkipZero(s, n) == n <= Len(s) /\ s[n] = "0"

\* A turn of the loops over leading zeros.
Zeros ==
    /\ pc = "zeros"
    /\ i' = IF SkipZero(a[part], i) THEN i + 1 ELSE i
    /\ j' = IF SkipZero(b[part], j) THEN j + 1 ELSE j
    /\ IF i' = i /\ j' = j THEN pc' = "digits" /\ firstDiff' = 0
       ELSE UNCHANGED <<pc, firstDiff>>
    /\ UNCHANGED <<a, b, part, result>>

\* A turn of the loop over the digits of both; then the longer run, or the
\* first difference, or the next pair of runs.
CompareDigits ==
    /\ pc = "digits"
    /\ IF IsDigit(a[part], i) /\ IsDigit(b[part], j)
       THEN /\ firstDiff' = IF firstDiff # 0 THEN firstDiff
                            ELSE Code[a[part][i]] - Code[b[part][j]]
            /\ i' = i + 1 /\ j' = j + 1
            /\ UNCHANGED <<pc, result>>
       ELSE /\ CASE IsDigit(a[part], i) -> Return(1)
                 [] IsDigit(b[part], j) -> Return(-1)
                 [] firstDiff # 0 /\ ~IsDigit(a[part], i) /\ ~IsDigit(b[part], j) ->
                        Return(firstDiff)
                 [] OTHER -> pc' = "outer" /\ UNCHANGED result
            /\ UNCHANGED <<i, j, firstDiff>>
    /\ UNCHANGED <<a, b, part>>

-----------------------------------------------------------------------------
Init ==
    /\ \E s, t \in Texts : a = SplitVersion(s) /\ b = SplitVersion(t)
    /\ part = "upstream" /\ i = 1 /\ j = 1 /\ firstDiff = 0
    /\ pc = "epoch" /\ result = 0

Next == CompareEpochs \/ Outer \/ Runs \/ Zeros \/ CompareDigits

Spec == Init /\ [][Next]_vars

-----------------------------------------------------------------------------
(* deb-version(7) *)

Sign(n) == IF n < 0 THEN -1 ELSE IF n > 0 THEN 1 ELSE 0

\* The end of the run that starts at n.
RunEnd(s, n, digits) ==
    CHOOSE m \in n..(Len(s) + 1) :
        /\ \A k \in n..(m - 1) : (s[k] \in Digits) = digits
        /\ m <= Len(s) => (s[m] \in Digits) # digits

\* Two runs of non-digits: at the first position where they differ, a tilde
\* comes before the end, the end before a letter, a letter before the rest.
Weight(run, n) ==
    IF n > Len(run) THEN 0
    ELSE IF run[n] = "~" THEN -1 ELSE IF run[n] \in Letters THEN Code[run[n]] ELSE Code[run[n]] + 256
CompareRuns(p, q) ==
    LET differ == {n \in 1..(Len(p) + Len(q)) : Weight(p, n) # Weight(q, n)}
    IN  IF differ = {} THEN 0
        ELSE LET n == CHOOSE n \in differ : \A m \in differ : n <= m
             IN  Sign(Weight(p, n) - Weight(q, n))

\* A run of non-digits, then a number: where the pair that begins at x ends, and how
\* it compares with the one that begins at y.
PairEnd(s, x) == RunEnd(s, RunEnd(s, x, FALSE), TRUE)
ComparePair(s, x, t, y) ==
    LET x1 == RunEnd(s, x, FALSE)
        y1 == RunEnd(t, y, FALSE)
        runs == CompareRuns(SubSeq(s, x, x1 - 1), SubSeq(t, y, y1 - 1))
    IN  IF runs # 0 THEN runs
        ELSE Sign(Number(SubSeq(s, x1, PairEnd(s, x) - 1)) - Number(SubSeq(t, y1, PairEnd(t, y) - 1)))

\* Where the pairs of s begin, the first `last` of them and the one after.
Pairs(s, last) ==
    LET begin[n \in 0..last] == IF n = 0 THEN 1 ELSE PairEnd(s, begin[n - 1])
    IN  begin

\* The first pairs that differ decide; a text that is used up goes on with empty pairs.
DpkgFragment(s, t) ==
    LET last == Len(s) + Len(t)
        p == Pairs(s, last)
        q == Pairs(t, last)
        differ == {n \in 0..last : ComparePair(s, p[n], t, q[n]) # 0}
    IN  IF differ = {} THEN 0
        ELSE LET n == CHOOSE n \in differ : \A m \in differ : n <= m
             IN  ComparePair(s, p[n], t, q[n])

Dpkg(v, w) ==
    LET upstream == DpkgFragment(v.upstream, w.upstream)
    IN  IF v.epoch # w.epoch THEN Sign(v.epoch - w.epoch)
        ELSE IF upstream # 0 THEN upstream ELSE DpkgFragment(v.revision, w.revision)

-----------------------------------------------------------------------------
\* A fragment of numbers with single separators, as releases have.
Plain(s) ==
    /\ s # <<>> => s[1] \in Digits
    /\ \A n \in 1..(Len(s) - 1) : s[n] \notin Digits => s[n + 1] \in Digits

\* CompareVersion is dpkg's order on versions whose fragments are numbers with
\* single separators between them: 1.9 before 1.10, 1.0~1 before 1.0, letters
\* before other separators, leading zeros of no account.
PlainAgrees ==
    pc = "done" /\ (\A v \in {a, b} : Plain(v.upstream) /\ Plain(v.revision)) =>
        Sign(result) = Dpkg(a, b)
=============================================================================
