----------------------------- MODULE IgnoreRules -----------------------------
(***************************************************************************)
(* IgnoreRules: the patterns of an ignore file and the loops that match a  *)
(* path against them, run step by step and compared, when they end, with   *)
(* what the patterns mean.                                                 *)
(*                                                                         *)
(* A text is a sequence of bytes. A byte stands for its class: letters of  *)
(* either case, the special characters, and the bytes of a two-byte and a  *)
(* three-byte character.                                                   *)
(***************************************************************************)
EXTENDS Integers, Sequences, FiniteSetsExt, SequencesExt

CONSTANTS
    Cases,         \* an ignore file, as a sequence of lines, a path asked about,
                   \* and whether it is a directory
    Sensitivity    \* case policies of the source filesystem

ASSUME SensitivityAssumption == Sensitivity \subseteq {"sensitive", "insensitive"}

Lead2 == "C3"
Lead3 == "E2"
Continuation == {"A9", "82", "AC"}
Upper == [A |-> "a", B |-> "b"]

VARIABLES
    rules,      \* patterns_
    case,       \* case_sensitivity_
    path,       \* the path asked about, separators normalized
    directory,  \* is_directory
    file,       \* the lines the rules come from, for the properties
    k,          \* pattern under way in match()
    component,  \* component under way in match_path()
    at,         \* pattern_offset and name_offset in match_component(), from 1
    star,       \* star_pattern_offset, 0 for npos, and star_name_offset
    result      \* of match()

input == <<rules, case, path, directory, file>>
vars == <<input, k, component, at, star, result>>

-----------------------------------------------------------------------------
(* load() *)

Normalize(text) == [n \in DOMAIN text |-> IF text[n] = "\\" THEN "/" ELSE text[n]]

\* std::getline leaves the carriage return of a DOS file.
Chomp(line) == IF line # <<>> /\ Last(line) = "\r" THEN Front(line) ELSE line

\* read_lines keeps what is neither blank nor a comment.
Lines(lines) == SelectSeq([n \in DOMAIN lines |-> Chomp(lines[n])],
                          LAMBDA line : line # <<>> /\ Head(line) # "#")

ToPattern(line) ==
    LET text == Normalize(line)
        directoryOnly == Last(text) = "/"
        bare == IF directoryOnly THEN Front(text) ELSE text
    IN [text |-> bare, nameOnly |-> "/" \notin ToSet(bare), directoryOnly |-> directoryOnly]

Load(lines) ==
    LET kept == Lines(lines)
    IN SelectSeq([n \in DOMAIN kept |-> ToPattern(kept[n])], LAMBDA p : p.text # <<>>)

-----------------------------------------------------------------------------
(* match(), match_path() and match_component() *)

\* The components of a text, as find('/') and substr cut them.
Separators(text) == {n \in DOMAIN text : text[n] = "/"}
Component(text, n) ==
    LET cuts == Separators(text) \cup {0, Len(text) + 1}
        cut(m) == CHOOSE c \in cuts : Cardinality({b \in cuts : b < c}) = m
    IN SubSeq(text, cut(n - 1) + 1, cut(n) - 1)
Components(text) == Cardinality(Separators(text)) + 1

NameOf(text) == Component(text, Components(text))

Rule == rules[k]
Candidate == IF Rule.nameOnly THEN NameOf(path) ELSE path
Pattern == Component(Rule.text, component)
Name == Component(Candidate, component)

\* next_character
NextCharacter(text, offset) ==
    IF offset > Len(text) THEN offset
    ELSE LET length == CASE text[offset] = Lead2 -> 2 [] text[offset] = Lead3 -> 3 [] OTHER -> 1
         IN offset + Min({length, Len(text) - offset + 1})

Fold(byte) == IF byte \in DOMAIN Upper THEN Upper[byte] ELSE byte
EqualLiteral(left, right) ==
    IF case = "sensitive" THEN left = right ELSE Fold(left) = Fold(right)

Init ==
    /\ \E c \in Cases : file = c[1] /\ path = Normalize(c[2]) /\ directory = c[3]
    /\ rules = Load(file)
    /\ case \in Sensitivity
    /\ k = 1 /\ component = 1
    /\ at = [pattern |-> 1, name |-> 1]
    /\ star = [pattern |-> 0, name |-> 1]
    /\ result = "running"

Running == result = "running"

Start(rule, part) ==
    /\ k' = rule /\ component' = part
    /\ at' = [pattern |-> 1, name |-> 1]
    /\ star' = [pattern |-> 0, name |-> 1]

\* match(): no pattern is left.
Exhausted ==
    /\ Running /\ k > Len(rules)
    /\ result' = "kept"
    /\ UNCHANGED <<input, k, component, at, star>>

SkipRule ==
    /\ Running /\ k <= Len(rules)
    /\ Rule.directoryOnly /\ ~directory
    /\ Start(k + 1, 1)
    /\ UNCHANGED <<input, result>>

\* The loop of match_component over the bytes of the name.
InComponent ==
    /\ Running /\ k <= Len(rules)
    /\ ~(Rule.directoryOnly /\ ~directory)
InLoop == InComponent /\ at.name <= Len(Name)
PatternIs(byte) == at.pattern <= Len(Pattern) /\ Pattern[at.pattern] = byte
LiteralFits ==
    /\ at.pattern <= Len(Pattern)
    /\ Pattern[at.pattern] \notin {"?", "*"}
    /\ EqualLiteral(Pattern[at.pattern], Name[at.name])

MatchAny ==
    /\ InLoop /\ PatternIs("?")
    /\ at' = [pattern |-> at.pattern + 1, name |-> NextCharacter(Name, at.name)]
    /\ UNCHANGED <<input, k, component, star, result>>

MatchStar ==
    /\ InLoop /\ PatternIs("*")
    /\ at' = [at EXCEPT !.pattern = @ + 1]
    /\ star' = [pattern |-> at.pattern + 1, name |-> at.name]
    /\ UNCHANGED <<input, k, component, result>>

MatchLiteral ==
    /\ InLoop /\ LiteralFits
    /\ at' = [pattern |-> at.pattern + 1, name |-> at.name + 1]
    /\ UNCHANGED <<input, k, component, star, result>>

Stuck == InLoop /\ ~PatternIs("?") /\ ~PatternIs("*") /\ ~LiteralFits

\* Mutant: the star is tried again from where it stood.
BacktrackInPlace ==
    /\ Stuck /\ star.pattern # 0
    /\ at' = [pattern |-> star.pattern, name |-> star.name]
    /\ UNCHANGED <<input, k, component, star, result>>

\* Mutant: the star takes up what has matched since.
BacktrackTooFar ==
    /\ Stuck /\ star.pattern # 0
    /\ star' = [star EXCEPT !.name = NextCharacter(Name, at.name)]
    /\ at' = [pattern |-> star.pattern, name |-> star'.name]
    /\ UNCHANGED <<input, k, component, result>>

\* The last star takes up one more character.
Backtrack ==
    /\ Stuck /\ star.pattern # 0
    /\ star' = [star EXCEPT !.name = NextCharacter(Name, star.name)]
    /\ at' = [pattern |-> star.pattern, name |-> star'.name]
    /\ UNCHANGED <<input, k, component, result>>

Mismatch ==
    /\ Stuck /\ star.pattern = 0
    /\ Start(k + 1, 1)
    /\ UNCHANGED <<input, result>>

AtEnd == InComponent /\ at.name > Len(Name)

SkipTrailingStar ==
    /\ AtEnd /\ PatternIs("*")
    /\ at' = [at EXCEPT !.pattern = @ + 1]
    /\ UNCHANGED <<input, k, component, star, result>>

\* match_component returns; match_path goes on to the next component of both.
EndComponent ==
    /\ AtEnd /\ ~PatternIs("*")
    /\ LET more(text) == component < Components(text)
       IN IF at.pattern <= Len(Pattern) \/ more(Rule.text) # more(Candidate)
            THEN Start(k + 1, 1) /\ UNCHANGED result
            ELSE IF more(Rule.text)
            THEN Start(k, component + 1) /\ UNCHANGED result
            ELSE result' = "ignored" /\ UNCHANGED <<k, component, at, star>>
    /\ UNCHANGED input

Next ==
    \/ Exhausted \/ SkipRule
    \/ MatchAny \/ MatchStar \/ MatchLiteral \/ Backtrack \/ Mismatch
    \/ SkipTrailingStar \/ EndComponent

Spec == Init /\ [][Next]_vars

\* match() is a sequential function: it runs on to its end.
FairSpec == Spec /\ WF_vars(Next)

-----------------------------------------------------------------------------
(* Properties *)

\* Every variable keeps its type, and no offset runs past the end of its text.
TypeOK ==
    /\ result \in {"running", "ignored", "kept"}
    /\ k \in 1..(Len(rules) + 1)
    /\ Running /\ k <= Len(rules) =>
         /\ component \in 1..Min({Components(Rule.text), Components(Candidate)})
         /\ at.pattern \in 1..(Len(Pattern) + 1) /\ at.name \in 1..(Len(Name) + 1)
         /\ star.pattern \in 0..(Len(Pattern) + 1) /\ star.name \in 1..(Len(Name) + 1)

\* What a pattern means, without the loop: every way to divide the name among
\* the pattern's characters is allowed. A character ends before the next byte
\* that is not a continuation.
Matches(pattern, name) ==
    LET P == 1..(Len(pattern) + 1)
        N == 1..(Len(name) + 1)
        end(j) == Min({n \in N : n > j /\ (n = Len(name) + 1 \/ name[n] \notin Continuation)})
        fits[i \in P, j \in N] ==
            IF i > Len(pattern) THEN j > Len(name)
            ELSE CASE pattern[i] = "*" -> fits[i + 1, j] \/ (j <= Len(name) /\ fits[i, end(j)])
                   [] pattern[i] = "?" -> j <= Len(name) /\ fits[i + 1, end(j)]
                   [] OTHER -> /\ j <= Len(name) /\ EqualLiteral(pattern[i], name[j])
                               /\ fits[i + 1, j + 1]
    IN fits[1, 1]

MatchesPath(pattern, text) ==
    /\ Components(pattern) = Components(text)
    /\ \A n \in 1..Components(pattern) : Matches(Component(pattern, n), Component(text, n))

\* What an ignore file means for a path: a line that is no comment, without the
\* slash that restricts it to directories, matches the whole path, or if it is
\* a single component the last one of the path.
Means(line) ==
    LET text == Normalize(Chomp(line))
        restricted == text # <<>> /\ Last(text) = "/"
        bare == IF restricted THEN Front(text) ELSE text
    IN /\ bare # <<>> /\ Head(text) # "#"
       /\ restricted => directory
       /\ IF Components(bare) = 1
            THEN Matches(bare, Component(path, Components(path)))
            ELSE MatchesPath(bare, path)

\* The loop stays within its texts and, although it remembers only the last star,
\* finds a match whenever there is one, whatever the case policy, and counts whole
\* characters (match_component, match_path, match).
MatchIsExact ==
    /\ TypeOK
    /\ ~Running => (result = "ignored" <=> \E n \in DOMAIN file : Means(file[n]))

\* The loop ends for every pattern and name: each round moves forward or moves
\* the last star (match_component).
MatchEnds == <>(~Running)

=============================================================================
