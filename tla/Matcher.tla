------------------------------ MODULE Matcher ------------------------------
(***************************************************************************)
(* The matcher of log messages (match.go): % stands for any text, _ for    *)
(* any character, [..] for any character between the brackets.  It keeps   *)
(* two positions and goes back to the last % when they do not fit; one     *)
(* action is one turn of its loop.  The route of log queries puts a % on   *)
(* both sides of what was asked for (log_router.go).                       *)
(***************************************************************************)
EXTENDS Integers, SequencesExt

CONSTANTS Letter,        \* characters that stand for themselves
          MaxPattern,    \* bound on the characters asked for
          MaxTarget      \* bound on the characters of a message

ASSUME MatcherAssumption ==
    /\ Letter \cap {"%", "_", "[", "]"} = {}
    /\ MaxPattern \in Nat
    /\ MaxTarget \in Nat

VARIABLES
    pattern, target,
    pi, ti,         \* the positions in them
    star,           \* the position of the last %, 0 for none
    matchIdx,       \* where what it stands for ends
    verdict         \* "none" until the matcher returns

matcherVars == <<pattern, target, pi, ti, star, matchIdx, verdict>>

MatcherInit ==
    /\ \E asked \in BoundedSeq(Letter \cup {"%", "_", "[", "]"}, MaxPattern) :
          pattern \in {asked, <<"%">> \o asked \o <<"%">>}
    /\ target \in BoundedSeq(Letter, MaxTarget)
    /\ pi = 1
    /\ ti = 1
    /\ star = 0
    /\ matchIdx = 1
    /\ verdict = "none"

-----------------------------------------------------------------------------
\* The position of the bracket that closes the one at i, or one too many.
Closing(i) ==
    Min({Len(pattern) + 1} \cup {e \in i + 1 .. Len(pattern) : pattern[e] = "]"})

InClass(i, c) ==
    /\ Closing(i) <= Len(pattern)
    /\ c \in ToSet(SubSeq(pattern, i + 1, Closing(i) - 1))

Looping == verdict = "none" /\ ti <= Len(target)
AtPercent == pi <= Len(pattern) /\ pattern[pi] = "%"

\* One character of the pattern, or one class, takes one of the target.
OneFits ==
    /\ pi <= Len(pattern)
    /\ CASE pattern[pi] = "[" -> InClass(pi, target[ti])
         [] pattern[pi] = "_" -> TRUE
         [] pattern[pi] = "%" -> FALSE
         [] OTHER -> pattern[pi] = target[ti]

TakeOne ==
    /\ Looping
    /\ OneFits
    /\ pi' = (IF pattern[pi] = "[" THEN Closing(pi) ELSE pi) + 1
    /\ ti' = ti + 1
    /\ UNCHANGED <<pattern, target, star, matchIdx, verdict>>

TakePercent ==
    /\ Looping
    /\ AtPercent
    /\ star' = pi
    /\ matchIdx' = ti
    /\ pi' = pi + 1
    /\ UNCHANGED <<pattern, target, ti, verdict>>

BugResume == ti + 1
Resume == matchIdx + 1

Backtrack ==
    /\ Looping
    /\ ~AtPercent
    /\ ~OneFits
    /\ IF star # 0
       THEN /\ pi' = star + 1
            /\ matchIdx' = Resume
            /\ ti' = Resume
            /\ UNCHANGED verdict
       ELSE /\ verdict' = "no"
            /\ UNCHANGED <<pi, ti, matchIdx>>
    /\ UNCHANGED <<pattern, target, star>>

\* The target is at its end: what is left of the pattern has to be %.
Finish ==
    /\ verdict = "none"
    /\ ti > Len(target)
    /\ verdict' = IF \A i \in pi .. Len(pattern) : pattern[i] = "%" THEN "yes" ELSE "no"
    /\ UNCHANGED <<pattern, target, pi, ti, star, matchIdx>>

MatcherNext == TakeOne \/ TakePercent \/ Backtrack \/ Finish

MatcherSpec == MatcherInit /\ [][MatcherNext]_matcherVars

-----------------------------------------------------------------------------
\* What the notation means: the places in the target at which a text may begin
\* that the pattern from p on stands for.
Beginnings ==
    LET from[p \in 1 .. Len(pattern) + 1] ==
            IF p > Len(pattern) THEN {Len(target) + 1}
            ELSE IF pattern[p] = "%"
            THEN {t \in 1 .. Len(target) + 1 : \E u \in from[p + 1] : t <= u}
            ELSE IF pattern[p] = "["
            THEN {t \in 1 .. Len(target) :
                     InClass(p, target[t]) /\ t + 1 \in from[Closing(p) + 1]}
            ELSE {t \in 1 .. Len(target) :
                     pattern[p] \in {"_", target[t]} /\ t + 1 \in from[p + 1]}
    IN from

Matches == 1 \in Beginnings[1]

(* The matcher, which remembers only the last %, answers what a search     *)
(* through all the ways to fit the pattern would.                          *)
MatcherExact == verdict # "none" => (verdict = "yes" <=> Matches)
=============================================================================
