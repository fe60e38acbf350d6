---------------------------- MODULE MCIgnoreRules ----------------------------
(* A small instance of IgnoreRules for TLC: every pattern up to a length. *)
EXTENDS IgnoreRules, TLC

\* The texts of at most n of the given characters, which may take several bytes.
TextsUpTo(characters, n) == {FlattenSeq(s) : s \in BoundedSeq(characters, n)}

Accent == <<"C3", "A9">>
Euro == <<"E2", "82", "AC">>

\* One line without a slash against one name: the loop of match_component.
NamePatterns == {<<p>> : p \in TextsUpTo({<<"a">>, <<"B">>, <<"*">>, <<"?">>, Accent}, 3)
                                \cup TextsUpTo({<<"a">>, <<"B">>, <<"*">>}, 4)}
Names == (TextsUpTo({<<"a">>, <<"b">>, Accent}, 3) \ {<<>>}) \cup {Euro, <<"a">> \o Euro}

\* Lines of every form, alone and in pairs, against nested paths.
PathLines(n) == TextsUpTo({<<"a">>, <<"*">>, <<"/">>, <<"\\">>, <<"#">>, <<"\r">>}, n)
PathFiles == {<<p>> : p \in PathLines(3)}
               \cup {<<p, q>> : p \in {<<>>, <<"#">>, <<"b">>, <<"a", "/">>}, q \in PathLines(2)}
NestedPaths == {<<"a">>, <<"b">>, <<"a", "/", "a">>, <<"a", "/", "b">>, <<"b", "\\", "a">>,
                <<"a", "/", "b", "/", "a">>, <<"#">>, <<"b", "#">>}

NameAndPathCases == (NamePatterns \X Names \X {FALSE}) \cup (PathFiles \X NestedPaths \X BOOLEAN)

BothCases == {"sensitive", "insensitive"}
=============================================================================
