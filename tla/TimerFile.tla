----------------------------- MODULE TimerFile -----------------------------
(***************************************************************************)
(* CTimerFile of src/timer_file/timer_file.hpp: messages are appended to a *)
(* file that is changed after so many lines, so many bytes, or when the    *)
(* hour changes.  The clock moves between any two steps of write_data, and *)
(* opening and writing may fail.  The directory is empty at first, but     *)
(* programs that follow one another, the one before killed perhaps, find   *)
(* in it what was written: a CTimerFile starts over from its first         *)
(* sequence number and appends.  The messages are 1, 2, 3... in the order  *)
(* they are written.                                                       *)
(***************************************************************************)
EXTENDS Integers, FiniteSets, Sequences

CONSTANTS Hour,       \* seconds in an hour
          MaxLine,    \* file_max_line
          MaxSize,    \* file_max_size
          SeqNumbers, \* 10000: the sequence numbers of file names
          Long,       \* the messages of three bytes; the others have one
          EndTime,    \* bound of the models: the clock stops here
          Failures    \* bound of the models: how many calls of the system fail

ASSUME FileAssumption == {Hour, MaxLine, MaxSize, SeqNumbers} \subseteq Nat \ {0}

VARIABLES
  clock,           \* std::time, in seconds
  files,           \* the directory: what each file holds
  stream,          \* m_file_stream: the name of the open file, or NoFile
  cur_file_line,   \* m_cur_file_line
  file_seq,        \* m_file_seq
  last_write_time, \* m_last_write_time
  fpc,             \* where in write_data
  msg,             \* the message write_data was called with
  buffered,        \* messages that the C library has not given to the system yet
  run,             \* history: programs before this one
  began,           \* history: when write_data was called
  failed           \* history: calls of the system that failed

noted == <<run, began, failed>>
fileVars == <<clock, files, stream, cur_file_line, file_seq, last_write_time, fpc, msg,
              buffered, noted>>

NoFile == <<>>
HourOf(t) == t \div Hour

(* The bytes of the messages at some places of a file, and of all of them.  *)
BytesOf(f, places) == Cardinality(places) + 2 * Cardinality({i \in places : f[i].msg \in Long})
Bytes(f) == BytesOf(f, DOMAIN f)

(* A CTimerFile in an empty directory.                                      *)
FileInit ==
  /\ clock = 0
  /\ files = [n \in {} |-> <<>>]
  /\ stream = NoFile
  /\ cur_file_line = 0
  /\ file_seq = 0
  /\ last_write_time = clock
  /\ fpc = "idle"
  /\ msg = 0
  /\ buffered = 0
  /\ run = 0
  /\ began = clock
  /\ failed = 0

-----------------------------------------------------------------------------
ClockTicks ==
  /\ clock < EndTime
  /\ clock' = clock + 1
  /\ UNCHANGED <<files, stream, cur_file_line, file_seq, last_write_time, fpc, msg, buffered,
                 noted>>

FStep(from, to) == fpc = from /\ fpc' = to /\ UNCHANGED <<clock, run>>

(* write_data(m), and check_file: with no file open, one is made first, and *)
(* then checked like any other.                                             *)
WriteData(m) ==
  /\ FStep("idle", IF stream = NoFile THEN "create" ELSE "check")
  /\ msg' = m
  /\ began' = clock
  /\ UNCHANGED <<files, stream, cur_file_line, file_seq, last_write_time, buffered, failed>>

(* Mutant: the sequence number has one bit.                                 *)
FileNameShort == <<clock, file_seq % 2>>
FileName == <<clock, file_seq % SeqNumbers>>

(* create_file: a file that is there already is appended to.  The number    *)
(* moves on whether or not fopen succeeds.                                  *)
CreateFile(from, to) ==
  /\ FStep(from, to)
  /\ stream' = FileName
  /\ file_seq' = file_seq + 1
  /\ files' = [n \in DOMAIN files \cup {FileName} |->
                 IF n \in DOMAIN files THEN files[n] ELSE <<>>]
  /\ UNCHANGED <<cur_file_line, last_write_time, msg, buffered, began, failed>>

(* fopen fails, and so does write_data.                                     *)
CreateFails ==
  /\ \E from \in {"create", "recreate"} : FStep(from, "idle")
  /\ failed < Failures
  /\ failed' = failed + 1
  /\ file_seq' = file_seq + 1
  /\ UNCHANGED <<files, stream, cur_file_line, last_write_time, msg, buffered, began>>

(* Mutant: one line too many.                                               *)
FileIsFullOneLate == cur_file_line > MaxLine \/ Bytes(files[stream]) >= MaxSize
FileIsFull == cur_file_line >= MaxLine \/ Bytes(files[stream]) >= MaxSize

(* The end of the file is looked for with fseek, which flushes the buffer.  *)
(* Mutants: it is known without; the hour is not looked at.                 *)
KeepFileUnflushed ==
  /\ FStep("check", "write")
  /\ ~FileIsFull
  /\ HourOf(clock) = HourOf(last_write_time)
  /\ UNCHANGED <<files, stream, cur_file_line, file_seq, last_write_time, msg, buffered, began,
                 failed>>

KeepFileAnyHour ==
  /\ FStep("check", "write")
  /\ ~FileIsFull
  /\ buffered' = 0
  /\ UNCHANGED <<files, stream, cur_file_line, file_seq, last_write_time, msg, began, failed>>

KeepFile ==
  /\ FStep("check", "write")
  /\ ~FileIsFull
  /\ HourOf(clock) = HourOf(last_write_time)
  /\ buffered' = 0
  /\ UNCHANGED <<files, stream, cur_file_line, file_seq, last_write_time, msg, began, failed>>

CloseFile ==
  /\ FStep("check", "recreate")
  /\ FileIsFull \/ HourOf(clock) # HourOf(last_write_time)
  /\ stream' = NoFile
  /\ cur_file_line' = 0
  /\ buffered' = 0
  /\ UNCHANGED <<files, file_seq, last_write_time, msg, began, failed>>

Fwrite ==
  /\ FStep("write", "stamp")
  /\ files' = [files EXCEPT ![stream] =
                 Append(@, [msg |-> msg, run |-> run, began |-> began, stamped |-> began])]
  /\ buffered' = buffered + 1
  /\ UNCHANGED <<stream, cur_file_line, file_seq, last_write_time, msg, began, failed>>

(* fwrite fails, and so does write_data.                                    *)
FwriteFails ==
  /\ FStep("write", "idle")
  /\ failed < Failures
  /\ failed' = failed + 1
  /\ UNCHANGED <<files, stream, cur_file_line, file_seq, last_write_time, msg, buffered, began>>

(* The time of the write is read after it.                                  *)
Stamp ==
  /\ FStep("stamp", "idle")
  /\ cur_file_line' = cur_file_line + 1
  /\ last_write_time' = clock
  /\ files' = [files EXCEPT ![stream][Len(files[stream])].stamped = clock]
  /\ UNCHANGED <<stream, file_seq, msg, buffered, began, failed>>

WriteSteps ==
  \/ CreateFile("create", "check") \/ CreateFile("recreate", "write") \/ CreateFails
  \/ KeepFile \/ CloseFile \/ Fwrite \/ FwriteFails \/ Stamp

(* The destructor closes the file.                                          *)
FileCloses == buffered' = 0 /\ stream' = NoFile

(* The process is killed: what was buffered may be lost.                    *)
FileKilled ==
  /\ stream' = NoFile
  /\ fpc' = "idle"
  /\ buffered' = 0
  /\ IF stream = NoFile THEN UNCHANGED files
     ELSE \E lost \in 0 .. buffered :
            files' = [files EXCEPT ![stream] = SubSeq(@, 1, Len(@) - lost)]

(* The next program makes its CTimerFile.                                   *)
FileRestarts ==
  /\ run' = run + 1
  /\ cur_file_line' = 0
  /\ file_seq' = 0
  /\ last_write_time' = clock
  /\ UNCHANGED <<clock, files, stream, fpc, msg, buffered, began, failed>>

-----------------------------------------------------------------------------

(* What a program has written to a file: it is within the limits if it was  *)
(* below them before the last message.                                      *)
Own(f, r) == {i \in DOMAIN f : f[i].run = r}
Within(f, own) ==
  /\ Cardinality(own) <= MaxLine
  /\ \A last \in own : (\A i \in own : i <= last) => BytesOf(f, own \ {last}) < MaxSize

(* A program leaves a file once it has written file_max_line lines or       *)
(* file_max_size bytes to it, unless the sequence number comes round to it  *)
(* within its second: failed writes and failed changes of file do not lose  *)
(* count, nor does it write more to a file that it finds there.             *)
LimitsKept == \A n \in DOMAIN files, r \in 0 .. run : Within(files[n], Own(files[n], r))

(* A write during which the hour changed: the file is of the hour of the    *)
(* call, or a later one, and of an hour before the time read after it.      *)
Kept(n, j) ==
  HourOf(files[n][j].began) <= HourOf(n[1]) /\ HourOf(n[1]) < HourOf(files[n][j].stamped)

(* "time base on hour" (timer_file.hpp:174): a message is in a file of the  *)
(* hour that write_data was called in, or of a later one if the hour        *)
(* changed during the call; but as the time of a write is read after it, a  *)
(* write during which the hour changes keeps its file for the new hour.     *)
HourKept ==
  \A n \in DOMAIN files : \A k \in DOMAIN files[n] :
    HourOf(files[n][k].began) <= HourOf(n[1])
      \/ \E j \in DOMAIN files[n] : j < k /\ Kept(n, j)
=============================================================================
