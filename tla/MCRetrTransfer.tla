--------------------------- MODULE MCRetrTransfer ---------------------------
\* Instances of RetrTransfer: mails made of pieces that end in every state of
\* the character processor.
EXTENDS RetrTransfer, TLC

\* A lost character never stands at the beginning of a line here, nor behind a
\* leading dot: the two parts of the line would be joined.
Text == { <<"x">>, <<"x", "hi">>, <<"x", "nul">>, <<"dot">>, <<"lf">>, <<"cr", "lf">>, <<"dot", "cr", "lf">>,
          <<"x", "cr", "lf", "dot">> }

\* bound: pieces of a mail
MaxPieces == 4

\* Mails of up to MaxPieces pieces.
TextMails == {FlattenSeq(m) : m \in UNION {[1 .. n -> Text] : n \in 0 .. MaxPieces}}

ASSUME TextAssumption == \A m \in TextMails : LostInsideLines(m)
=============================================================================
