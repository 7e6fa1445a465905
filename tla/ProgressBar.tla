------------------------------ MODULE ProgressBar ------------------------------
(***************************************************************************)
(* The progress bar of a terminal: the scan of its output for OSC 9;4      *)
(* sequences (packages/web/src/lib/parseOsc9_4.ts) and the bar that hides  *)
(* itself (hooks/useProgressBar.ts).  Output is a sequence of bytes, those *)
(* that matter by name.                                                    *)
(***************************************************************************)
EXTENDS Integers, Sequences, FiniteSetsExt

CONSTANTS
    NoInfo,         \* null
    MaxPieces       \* bound of the model: pieces of output in one message

VARIABLES
    data,           \* the output of one message, as it is put together
    pieces,         \* of how many pieces
    progress,
    timer           \* timerRef: the bar will hide

vars == <<data, pieces, progress, timer>>

Prefix == <<"ESC", "]", "9", ";", "4", ";">>
Digit == {"0", "4", "9"}
Value(b) == CASE b = "0" -> 0 [] b = "4" -> 4 [] b = "9" -> 9

Bytes == Digit \union {"ESC", "]", ";", "BEL", "\\"}

\* Whole sequences, their parts, and bytes that break them
Piece == {<<b>> : b \in Digit \union {";", "BEL", "ESC"}} \union
         {Prefix, <<";", "9">>, <<"ESC", "\\">>,
          Prefix \o <<"4", ";", "9", "BEL">>, Prefix \o <<"0", ";", "0", "BEL">>}

Info == [state : 0..4, value : 0..100]

TypeOK ==
    /\ data \in Seq(Bytes) /\ pieces \in 0..MaxPieces
    /\ progress \in Info \union {NoInfo} /\ timer \in BOOLEAN

Init == data = <<>> /\ pieces = 0 /\ progress = NoInfo /\ timer = FALSE

-----------------------------------------------------------------------------
\* parseOsc9_4.  Positions count from 1, so what is outside is at Len(d) + 1.

At(d, i) == IF i <= Len(d) THEN d[i] ELSE ""

\* parseDigits: the value and the next position
Parsed(d, a, b) ==
    LET val[i \in a - 1..b] == IF i < a THEN 0 ELSE 10 * val[i - 1] + Value(d[i])
    IN val[b]
NoDigit(d, start) == Min({i \in start..Len(d) + 1 : At(d, i) \notin Digit})
Digits(d, start) == <<Parsed(d, start, NoDigit(d, start) - 1), NoDigit(d, start)>>

HasPrefix(d, i) == i + 5 <= Len(d) /\ SubSeq(d, i, i + 5) = Prefix

BugShort(d, i) == i + 10 >= Len(d)          \* one byte too many is asked for
TooShort(d, i) == i + 9 > Len(d)

\* The info of a sequence that starts at i, and its last position; or position i
\* if there is none
Sequence(d, i) ==
    LET st == Digits(d, i + 6)
        va == Digits(d, st[2] + 1)
        info == [state |-> st[1], value |-> IF va[1] > 100 THEN 100 ELSE va[1]]
        end == IF At(d, va[2]) = "BEL" THEN va[2]
               ELSE IF At(d, va[2]) = "ESC" /\ At(d, va[2] + 1) = "\\" THEN va[2] + 1 ELSE i
    IN IF /\ HasPrefix(d, i)
          /\ At(d, i + 6) \in Digit /\ st[1] <= 4
          /\ At(d, st[2]) = ";" /\ At(d, st[2] + 1) \in Digit
          /\ end # i
       THEN <<info, end>> ELSE <<NoInfo, i>>

\* scan[i] is the last of the sequences the loop finds from i on
ParseOsc9_4(d) ==
    LET scan[i \in 1..Len(d) + 1] ==
          IF i > Len(d) THEN NoInfo
          ELSE IF d[i] # "ESC" THEN scan[i + 1]
          ELSE IF TooShort(d, i) THEN NoInfo
          ELSE LET found == Sequence(d, i)
                   rest == scan[found[2] + 1]
               IN IF rest = NoInfo THEN found[1] ELSE rest
    IN scan[1]

-----------------------------------------------------------------------------
Output(p) ==
    /\ pieces < MaxPieces /\ pieces' = pieces + 1
    /\ data' = data \o p
    /\ UNCHANGED <<progress, timer>>

Running(info) == info.state # 0

Feed ==
    /\ data # <<>> /\ data' = <<>> /\ pieces' = 0
    /\ LET info == ParseOsc9_4(data) IN
       IF info = NoInfo THEN UNCHANGED <<progress, timer>>
       ELSE /\ progress' = IF info.state = 0 THEN NoInfo ELSE info
            /\ timer' = Running(info)

AutoHide ==
    /\ timer /\ timer' = FALSE /\ progress' = NoInfo
    /\ UNCHANGED <<data, pieces>>

Next == Feed \/ AutoHide \/ \E p \in Piece : Output(p)
Spec == Init /\ [][Next]_vars

-----------------------------------------------------------------------------
\* Properties

\* What the scan returns is the last sequence of the output that has the form
\* ESC ] 9 ; 4 ; state ; value, then BEL or ESC \, with numbers of any length
\* and a state of 4 at most.  A number is the sum of its digits by their places:
\* sum[i] is that of the digits from i on, and the value of the place before.
Number(d, a, b) ==
    LET sum[i \in a..b + 1] ==
          IF i > b THEN <<0, 1>>
          ELSE <<sum[i + 1][1] + Value(d[i]) * sum[i + 1][2], 10 * sum[i + 1][2]>>
    IN sum[a][1]
WellFormed(d, i, s, t) ==
    /\ HasPrefix(d, i) /\ d[s] = ";"
    /\ s > i + 6 /\ t > s + 1 /\ \A j \in (i + 6..t - 1) \ {s} : d[j] \in Digit
    /\ At(d, t) = "BEL" \/ (At(d, t) = "ESC" /\ At(d, t + 1) = "\\")
    /\ Number(d, i + 6, s - 1) <= 4
Escapes(d) == {i \in DOMAIN d : d[i] = "ESC"}
Infos(d, i) ==
    {[state |-> Number(d, i + 6, p[1] - 1), value |-> Min({100, Number(d, p[1] + 1, p[2] - 1)})] :
       p \in {q \in (i..Len(d)) \X (i..Len(d)) : WellFormed(d, i, q[1], q[2])}}
LastSequenceFound ==
    LET starts == {i \in Escapes(data) : Infos(data, i) # {}} IN
    IF starts = {} THEN ParseOsc9_4(data) = NoInfo
    ELSE ParseOsc9_4(data) \in Infos(data, Max(starts))

\* A bar that is shown will hide, and only then is there a timer, whatever
\* sequences come while it runs.
BarWillHide == timer <=> progress # NoInfo

ProgressIsTrue == LastSequenceFound /\ BarWillHide
=============================================================================
