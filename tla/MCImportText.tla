----------------------------- MODULE MCImportText -----------------------------
(* Instances of ImportText small enough for TLC.                           *)
EXTENDS ImportText, TLC

\* Every text of up to four marks, in a file of one message.
AllTexts == UNION {[1..n -> {Open, Close, Word}] : n \in 0..4}

OneMessage(t) == [type |-> "session", form |-> "document",
                  lines |-> <<[kind |-> "chat", text |-> t]>>]

\* Every file of up to MaxLines lines, each of any kind, with a word or none or
\* nothing but context.
FewTexts == {<<>>, <<Word>>, <<Open, Word, Close>>}

FewLines == [kind : {"chat"}, text : FewTexts]
              \cup [kind : {"claw", "tool"}, text : {<<Word>>}]

AnyFiles == [type : {"session", "memory"}, form : {"document", "lines"},
             lines : UNION {[1..n -> FewLines] : n \in 0..MaxLines}]

Messages == {OneMessage(t) : t \in AllTexts}

SomeFiles == {f \in AnyFiles : IsFile(f)} \cup Messages

=============================================================================
