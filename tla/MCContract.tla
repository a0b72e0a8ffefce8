----------------------------- MODULE MCContract -----------------------------
EXTENDS Contract

X == <<"x">>
Y == <<"y">>
Brace == <<"}">>

MCDrafts == {JoinLines(<<X, Y>>), JoinLines(<<X, Brace, Brace>>), JoinLines(<<Brace, Brace, Brace, Y>>)}

Line(m, l) == [mark |-> m, line |-> l]
In(file, isNew, hunks) == [file |-> file, isNew |-> isNew, hunks |-> hunks]

XtoY == <<Line("-", X), Line("+", Y)>>
YtoX == <<Line("-", Y), Line("+", X)>>
AddX == <<Line(" ", Brace), Line("+", X), Line(" ", Brace), Line("\\", X)>>
DropY == <<Line(" ", Brace), Line("-", Y)>>
AddOnly == <<Line("+", X)>>
Comment == <<Line(" ", X), Line("-", Dashes)>>

Bodies == {XtoY, YtoX, AddX, DropY, AddOnly, Comment, <<>>}

MCReplies ==
  {<<In(Document, FALSE, <<a>>)>> : a \in Bodies}
  \cup {<<In(Document, FALSE, <<a, b>>)>> : a, b \in Bodies}
  \cup {<<>>, <<In(Document, FALSE, <<>>)>>, <<In("other", TRUE, <<AddOnly>>)>>,
        <<In("other", FALSE, <<XtoY>>)>>, <<In(Document, TRUE, <<AddOnly>>)>>,
        <<In("other", TRUE, <<AddOnly>>), In(Document, FALSE, <<XtoY>>)>>}
=============================================================================
