---------------------------- MODULE RecordThread ----------------------------
(***************************************************************************)
(* CRecordThread of src/timer_file/thread_record.hpp: a thread that takes  *)
(* messages from a ReaderWriterQueue, here a Fifo, and writes them to a    *)
(* CTimerFile, until another thread, which puts the messages, stops it, or *)
(* the process is killed.  Another program may then follow, over the files *)
(* of the one before.                                                      *)
(***************************************************************************)
EXTENDS TimerFile, Fifo

CONSTANTS MaxMsgs,    \* bound of the models: messages ever put
          MaxRestarts \* bound of the models: programs that follow the first

(* The assumption of one of the theorems: two numbers of files for every    *)
(* message, as write_data makes two files at most: one when none is open,   *)
(* and another at once if that one was there already and is full.           *)
EnoughNames == MaxMsgs \in Nat /\ 2 * MaxMsgs <= SeqNumbers

VARIABLES
  m_running_flag, \* cleared by stop()
  tpc,            \* where in svc: "drain", "write", "flag", "sleep", "ended"; or "killed"
  sent,           \* producer: messages put
  first,          \* history: those put by earlier programs
  sentAtEmpty     \* history: messages put when svc last found the queue empty

threadVars == <<m_running_flag, tpc>>
counts == <<sent, first, sentAtEmpty>>
vars == <<fileVars, fifoVars, threadVars, counts>>

(* open() has started the thread.                                           *)
Init ==
  /\ FileInit
  /\ FifoInit
  /\ m_running_flag = TRUE
  /\ tpc = "drain"
  /\ sent = 0
  /\ first = 0
  /\ sentAtEmpty = 0

-----------------------------------------------------------------------------
(* The producer puts messages, then calls stop(); it does not call put_msg  *)
(* once it has.                                                             *)
PutMsg ==
  /\ m_running_flag /\ tpc # "killed"
  /\ sent < MaxMsgs
  /\ Put(sent + 1)
  /\ sent' = sent + 1
  /\ UNCHANGED <<fileVars, threadVars, first, sentAtEmpty>>

Stop ==
  /\ m_running_flag /\ tpc # "killed"
  /\ m_running_flag' = FALSE
  /\ UNCHANGED <<fileVars, fifoVars, tpc, counts>>

(* svc: try_dequeue, and write_data.                                        *)
DequeueMsg ==
  /\ tpc = "drain"
  /\ Take
  /\ WriteData(Head(contents))
  /\ tpc' = "write"
  /\ UNCHANGED <<m_running_flag, counts>>

(* Its steps, of which svc ignores the result.                              *)
WriteMsg ==
  /\ tpc = "write"
  /\ WriteSteps
  /\ tpc' = IF fpc' = "idle" THEN "drain" ELSE "write"
  /\ UNCHANGED <<fifoVars, m_running_flag, counts>>

QueueEmpty ==
  /\ tpc = "drain"
  /\ contents = <<>>
  /\ tpc' = "flag"
  /\ sentAtEmpty' = sent
  /\ UNCHANGED <<fileVars, fifoVars, m_running_flag, sent, first>>

(* Mutant: the flag is not looked at.                                       *)
GoesAnyway ==
  /\ tpc = "flag"
  /\ tpc' = "sleep"
  /\ UNCHANGED <<fileVars, fifoVars, m_running_flag, counts>>

Goes ==
  /\ tpc = "flag"
  /\ m_running_flag
  /\ tpc' = "sleep"
  /\ UNCHANGED <<fileVars, fifoVars, m_running_flag, counts>>

(* Mutant: it wakes up to look at the flag only.                            *)
WakesToFlag ==
  /\ tpc = "sleep"
  /\ tpc' = "flag"
  /\ UNCHANGED <<fileVars, fifoVars, m_running_flag, counts>>

Wakes ==
  /\ tpc = "sleep"
  /\ tpc' = "drain"
  /\ UNCHANGED <<fileVars, fifoVars, m_running_flag, counts>>

(* svc returns: the file is closed, the queue deleted with what is in it.   *)
Ends ==
  /\ tpc = "flag"
  /\ ~m_running_flag
  /\ tpc' = "ended"
  /\ FileCloses
  /\ UNCHANGED <<clock, files, cur_file_line, file_seq, last_write_time, fpc, msg, noted,
                 fifoVars, m_running_flag, counts>>

Svc == DequeueMsg \/ WriteMsg \/ QueueEmpty \/ Goes \/ Wakes \/ Ends

(* The process is killed, at any moment; the next one starts at any later   *)
(* one, with an empty queue.                                                *)
Killed ==
  /\ tpc \notin {"ended", "killed"}
  /\ run < MaxRestarts
  /\ tpc' = "killed"
  /\ FileKilled
  /\ UNCHANGED <<clock, cur_file_line, file_seq, last_write_time, msg, noted, fifoVars,
                 m_running_flag, counts>>

Restarts ==
  /\ tpc \in {"ended", "killed"}
  /\ run < MaxRestarts
  /\ FileRestarts
  /\ contents' = <<>>
  /\ m_running_flag' = TRUE
  /\ tpc' = "drain"
  /\ first' = sent
  /\ UNCHANGED <<taken, sent, sentAtEmpty>>

Next ==
  \/ PutMsg \/ Stop \/ Svc \/ Killed \/ Restarts
  \/ ClockTicks /\ UNCHANGED <<fifoVars, threadVars, counts>>

Spec == Init /\ [][Next]_vars

(* The thread runs.                                                         *)
FairSpec == Spec /\ WF_vars(Svc)

-----------------------------------------------------------------------------
(* The names of two files in the order of a listing.                        *)
NameBefore(a, b) == a[1] < b[1] \/ (a[1] = b[1] /\ a[2] < b[2])

(* Two programs have written to files of one second.                        *)
SharedSecond ==
  \E n, m \in DOMAIN files : n[1] = m[1] /\
    \E k \in DOMAIN files[n], l \in DOMAIN files[m] : files[n][k].run # files[m][l].run

(* The files, read in the order of their names, which a listing of the      *)
(* directory gives, hold the messages in the order they were put, each at   *)
(* most once: while no two files are made in one second after the sequence  *)
(* number has come round, and no two programs write to files of one second, *)
(* of which the second starts again from the first sequence number.         *)
LogInOrder ==
  ~SharedSecond =>
    \A n, m \in DOMAIN files : \A k \in DOMAIN files[n], l \in DOMAIN files[m] :
      NameBefore(n, m) \/ (n = m /\ k < l) => files[n][k].msg < files[m][l].msg

(* The messages of some that are in no file.                                *)
Logged(m) == \E n \in DOMAIN files : \E k \in DOMAIN files[n] : files[n][k].msg = m
Missing(from, to) == {m \in from .. to : ~Logged(m)}

(* Only failures lose messages that were put before svc last found the      *)
(* queue empty: what is lost when the thread ends came after that.  And     *)
(* what is lost when the process is killed is of the two messages that were *)
(* taken last, or came after them: every write is flushed before the next.  *)
LostOnlyAtTheEnd ==
  /\ tpc = "ended" => /\ Cardinality(Missing(first + 1, sentAtEmpty)) <= failed
                      /\ Len(contents) = sent - sentAtEmpty
  /\ tpc = "killed" => Cardinality(Missing(first + 1, taken - 2)) <= failed

(* A message that was put is taken to be written, or the program was        *)
(* stopped, or killed.                                                      *)
TakenOrStopped ==
  \A k \in 1 .. MaxMsgs :
    sent >= k /\ first < k ~> taken >= k \/ ~m_running_flag \/ tpc = "killed"

(* The thread ends once it was stopped.                                     *)
StopEnds == ~m_running_flag ~> tpc \in {"ended", "killed"}
=============================================================================
