--------------------------- MODULE MCRecordThread ---------------------------
(* Small instances of the recording thread for TLC.                         *)
EXTENDS RecordThread

Messages == 1 .. MaxMsgs
SecondIsLong == {2}

(* These instances are among those of the theorem FewMessages.              *)
ASSUME CoveredByTheorems == EnoughNames

(* What is never read again: the arguments of a call that has returned, the  *)
(* file object of a program that is gone, and the last look at the queue     *)
(* before another.                                                           *)
InCall(x) == IF fpc = "idle" THEN 0 ELSE x
InProgram(x) == IF tpc \in {"ended", "killed"} THEN 0 ELSE x
View == <<clock, files, stream, InProgram(cur_file_line), InProgram(file_seq),
          InProgram(last_write_time), fpc, InCall(msg), InCall(began), buffered, run, failed,
          fifoVars, threadVars, sent, first,
          IF tpc \in {"flag", "ended"} THEN sentAtEmpty ELSE 0>>
=============================================================================
