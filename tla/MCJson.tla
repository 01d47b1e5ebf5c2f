------------------------------- MODULE MCJson -------------------------------
(***************************************************************************)
(* Documents, paths and values of Json for TLC.                            *)
(***************************************************************************)
EXTENDS Json

S(label) == [by |-> "s", label |-> label, index |-> 0]
D(index) == [by |-> "d", label |-> <<>>, index |-> index]

MCPaths ==
    {<<S(<<"a">>)>>, <<S(<<"b">>)>>, <<S(<<"a">>), S(<<"b">>)>>, <<S(<<"a">>), D(0)>>,
     <<S(<<"a">>), D(1)>>, <<D(0)>>}

Number(t) == [ok \in BOOLEAN |-> t]
String(chars) == [ok \in BOOLEAN |-> f_tokens_new_token_char(chars, ok)]

MCValues ==
    {Number(Double(-2505)), Number(f_boxed_nan_boolean(TRUE)),
     String(<<"a", "'", " ">>), String(<<"\"", "\\">>), Number(Double(0))}

MCTrueWord == <<"t">>
MCFalseWord == <<"f">>

\* What a text that somebody else wrote says.
Word(chars) == Token("embedded", chars, 0)
Leaf(key, t) == [Node(key, "value") EXCEPT !.value = t]
Branch(key, type, children) == [Node(key, type) EXCEPT !.children = children]

MCDocuments ==
    { [text |-> <<"{", "LF", " ", "a", " ", ":", " ", "1", "2", ",", "LF", "\"", "b", "\"", ":",
                  "[", "-", "1", ".", "5", ",", "n", "u", "l", "l", "]", "}", "LF">>,
       root |-> Branch(NotANumber, "object",
                  <<Leaf(Word(<<"a">>), Double(120)),
                    Branch(Word(<<"b">>), "array",
                      <<Leaf(NotANumber, Double(-15)), Leaf(NotANumber, Word(<<"n", "u", "l", "l">>))>>)>>)],
      [text |-> <<"[", "'", "a", "\"", "\\", "'", "b", "'", ",", "-", "9", "]">>,
       root |-> Branch(NotANumber, "array",
                  <<Leaf(NotANumber, Word(<<"a", "\"", "\\", "'", "b">>)),
                    Leaf(NotANumber, f_boxed_nan_int(-9))>>)] }

=============================================================================
