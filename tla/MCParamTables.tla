----------------------------- MODULE MCParamTables -----------------------------
(* Urls, lists and texts of up to three parameters. *)
EXTENDS ParamTables

CONSTANT MaxTokens   \* bound on the parameters of a url, a list or a text

a == 97
one == 49
two == 50

\* "", "a", "a=", "a=1", "%61=2", "+=%2B", "=1", "b==" and "b=%00": no key, no
\* value, a key that decodes to another, an escape, no name, a value that is a
\* separator, and one that ends the decoded text.
MCTokens == {<<>>, <<a>>, <<a, Equals>>, <<a, Equals, one>>, <<Percent, 54, one, Equals, two>>,
             <<Plus, Equals, Percent, two, 66>>, <<Equals, one>>, <<98, Equals, Equals>>,
             <<98, Equals, Percent, 48, 48>>}

Join(ts) == FlattenSeq([n \in DOMAIN ts |-> (IF n > 1 THEN <<Amp>> ELSE <<>>) \o ts[n]])
UpTo(n, S) == UNION {[1 .. m -> S] : m \in 0 .. n}

MCQueryTexts  == {Join(ts) : ts \in UpTo(MaxTokens, MCTokens)}
MCUrlTexts    == MCQueryTexts \cup {<<a, QuestionMark>> \o t : t \in MCQueryTexts}

MCCallerLists == UpTo(MaxTokens, [key : {<<>>, <<a>>, <<Percent, 54, one>>},
                                  value : {<<>>, <<one>>, <<Amp, 32, QuestionMark>>}])

================================================================================
