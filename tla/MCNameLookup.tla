----------------------------- MODULE MCNameLookup -----------------------------
(***************************************************************************)
(* NameLookup with two names, addresses with segments of one to three      *)
(* digits, and replies of every kind: empty, short, foreign, refused,      *)
(* without an address, with one behind another record, and cut off.        *)
(***************************************************************************)
EXTENDS NameLookup

\* "ns.a" and "www.b".
MCNames == {<<62, 67, DOT, 49>>, <<71, 71, 71, DOT, 50>>}

MCQuads == {<<192, 168, 0, 21>>, <<0, 0, 0, 0>>, <<255, 255, 255, 255>>, <<7, 40, 100, 9>>}

Plain(kind, records) == [kind |-> kind, question |-> <<1, 62, 0>>, records |-> records]

MCReplies ==
  {Plain("empty", <<>>), Plain("foreign", <<>>), Plain("query", <<>>), Plain("error", <<>>),
   Plain("answer", <<>>), Plain("answer", <<"other", "A">>), Plain("answer", <<"other">>),
   [kind |-> "answer", question |-> <<2, 62>>, records |-> <<"A">>]}
=============================================================================
