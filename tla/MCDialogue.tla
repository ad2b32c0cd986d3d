----------------------------- MODULE MCDialogue -----------------------------
EXTENDS Dialogue

T == [type |-> "text", text |-> "text"]
E == [type |-> "text", text |-> ""]
C(name) == [type |-> "call", name |-> name]

\* A text, nothing, an empty text, one call, two calls of one tool, and the
\* announcement of calls that do not come, with each kind of text.
MCResponses ==
  { [parts |-> <<T>>, stop |-> FALSE],
    [parts |-> <<>>, stop |-> FALSE],
    [parts |-> <<E>>, stop |-> FALSE],
    [parts |-> <<E, C("lookup")>>, stop |-> TRUE],
    [parts |-> <<T, C("recall"), C("recall")>>, stop |-> FALSE],
    [parts |-> <<>>, stop |-> TRUE],
    [parts |-> <<T>>, stop |-> TRUE],
    [parts |-> <<E>>, stop |-> TRUE] }

=============================================================================
