----------------------------- MODULE MCStreamLog -----------------------------
(***************************************************************************)
(* Small instances of StreamLog: two requests of one conversation.          *)
(***************************************************************************)
EXTENDS StreamLog

OneConversation == [r \in Request |-> "c"]
Usages == [r1 |-> 1, r2 |-> 2]

Reads(reads, spool) == [reads |-> reads, spool |-> spool]
Case(mode1, mode2, n) == [mode |-> [r1 |-> mode1, r2 |-> mode2], crashes |-> n]
Pairs == {Case(Reads("stream", TRUE), Reads("fold", TRUE), 0),
          Case(Reads("stream", FALSE), Reads("whole", FALSE), 1)}
=============================================================================
