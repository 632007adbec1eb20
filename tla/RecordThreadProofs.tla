------------------------- MODULE RecordThreadProofs -------------------------
(***************************************************************************)
(* Proofs about RecordThread and the CTimerFile it writes to, for files of *)
(* any limits, any number of messages and failures, and any number of      *)
(* programs that are stopped or killed and follow one another over the     *)
(* same files.  The invariant follows a message from the queue (Queue)     *)
(* through write_data (Done) into a file (LastMsg, Older, Lost), and the   *)
(* files by their names and hours.  That files keep their limits, and that *)
(* the log is in order, rests on the names of files, which come round:     *)
(* those theorems are for as long as they do not within a second.          *)
(*                                                                         *)
(* The last part is about BlockingSpscQueue, the other model on Fifo.      *)
(***************************************************************************)
EXTENDS RecordThread, BlockingSpscQueue, DivMod, FiniteSetTheorems, TLAPS

(* A directory is a function.                                               *)
Function(f) == f = [n \in DOMAIN f |-> f[n]]

(* What a file holds of a message.                                          *)
Entry == [msg : Nat, run : Nat, began : Nat, stamped : Nat]

(* Types of the variables of TimerFile.  Of the messages that the C library *)
(* has in its buffer, there is never more than one: every write is flushed  *)
(* before the next.                                                         *)
FileTypeOK ==
  /\ clock \in Nat /\ DOMAIN files \subseteq Nat \X Nat
  /\ Function(files)
  /\ \A n \in DOMAIN files : files[n] \in Seq(Entry)
  /\ stream \in DOMAIN files \cup {NoFile}
  /\ {cur_file_line, file_seq, last_write_time, msg, run, began, failed} \subseteq Nat
  /\ fpc \in {"idle", "create", "check", "recreate", "write", "stamp"}
  /\ buffered \in 0 .. 1

(* Types of the variables of RecordThread.                                  *)
ThreadTypeOK ==
  /\ m_running_flag \in BOOLEAN
  /\ tpc \in {"drain", "write", "flag", "sleep", "ended", "killed"}
  /\ {sent, first, sentAtEmpty, taken} \subseteq Nat
  /\ contents \in Seq(Nat)

(* The messages that were put and have left the queue.                      *)
Through == sent - Len(contents)

(* The queue holds the last messages put, in order.  `taken' is the last    *)
(* that this program has taken, if it has taken one.                        *)
Queue ==
  /\ Len(contents) <= sent
  /\ \A i \in DOMAIN contents : contents[i] = Through + i
  /\ first <= Through
  /\ IF first < Through THEN taken = Through ELSE taken <= first
  /\ tpc = "write" => msg = Through /\ first < Through
  /\ tpc \in {"flag", "ended"} => sentAtEmpty = Through

(* The steps of write_data with a file open.                                *)
Open == fpc \in {"check", "write", "stamp"}

(* write_data runs while svc is in it.  A file that has just been made has  *)
(* no line counted, as none is open from the close, or the start, on.       *)
Places ==
  /\ fpc = "idle" <=> tpc # "write"
  /\ Open => stream # NoFile
  /\ fpc \in {"create", "recreate"} \/ tpc \in {"ended", "killed"} => stream = NoFile
  /\ stream = NoFile \/ fpc = "write" => buffered = 0
  /\ stream = NoFile /\ tpc \notin {"ended", "killed"} => cur_file_line = 0

(* The messages that write_data is done with: all those taken, but for the  *)
(* one that it is about to write.                                           *)
Done == IF fpc \in {"idle", "stamp"} THEN Through ELSE Through - 1

(* What was written last is the last message of the open file: until its    *)
(* time is read, in this call; and while it is buffered, the last that      *)
(* write_data is done with.                                                 *)
LastMsg ==
  /\ fpc = "stamp" => files[stream] # <<>> /\ files[stream][Len(files[stream])].began = began
                      /\ files[stream][Len(files[stream])].run = run
  /\ buffered = 1 => files[stream] # <<>> /\ files[stream][Len(files[stream])].msg = Done

(* No time is ahead of the clock, nor the second in the name of a file.     *)
Clocks == last_write_time <= clock /\ began <= clock /\ \A n \in DOMAIN files : n[1] <= clock

(* The open file is of the latest second, and no program has written that   *)
(* has not run.                                                             *)
Marks ==
  /\ stream # NoFile => \A n \in DOMAIN files : n[1] <= stream[1]
  /\ \A n \in DOMAIN files : \A k \in DOMAIN files[n] : files[n][k].run <= run

(* A file that this program has written to.                                 *)
OwnFile(n) == \E k \in DOMAIN files[n] : files[n][k].run = run

(* create_file is about to make a file.                                     *)
Creating == fpc \in {"create", "recreate"}

(* A file that is made is not one that the program has written to: the      *)
(* sequence number does not come round to it within its second.  Nothing in *)
(* the code ensures that; a program that makes 10000 files in a second      *)
(* breaks it, and then writes more to a file than it counts.                *)
Anew == Creating => \A n \in DOMAIN files : OwnFile(n) => n # FileName

(* Its name even comes after those of the files that the program has        *)
(* written to: the number does not start again at 0 within a second.        *)
InRound == Creating => \A n \in DOMAIN files : OwnFile(n) => NameBefore(n, FileName)

(* The open file comes after all others that the program has written to.    *)
Newest ==
  stream # NoFile => \A n \in DOMAIN files : OwnFile(n) => n = stream \/ NameBefore(n, stream)

(* Two numbers for each message that this program has taken, less k.        *)
InUse(k) == 2 * (Through - first) - k

(* The sequence number: write_data makes two files at most.                 *)
SeqBound ==
  file_seq <= IF fpc = "create" THEN InUse(2)
              ELSE IF fpc \in {"check", "recreate"} THEN InUse(1) ELSE InUse(0)

(* While the numbers have not come round, the number of the open file is    *)
(* the one before the next, and those of the program's files are below.     *)
Names ==
  /\ sent <= MaxMsgs
  /\ SeqBound
  /\ stream # NoFile => stream[2] + 1 = file_seq
  /\ \A n \in DOMAIN files : OwnFile(n) => n[2] < file_seq

(* The files hold messages that write_data is done with.                    *)
Older == \A n \in DOMAIN files : \A k \in DOMAIN files[n] : files[n][k].msg <= Done

(* The files in the order of their names hold messages in the order they    *)
(* were put, but for files of one second and different programs.            *)
Ordered ==
  \A n, m \in DOMAIN files : \A k \in DOMAIN files[n], l \in DOMAIN files[m] :
    /\ NameBefore(n, m) \/ (n = m /\ k < l)
    /\ n[1] = m[1] => files[n][k].run = files[m][l].run
    => files[n][k].msg < files[m][l].msg

(* m_cur_file_line counts what this program has written to the open file,   *)
(* except while the time of a write is read; and a write goes to a file     *)
(* that is below its limits in what the program has written to it.          *)
Counted ==
  /\ stream # NoFile =>
       Cardinality(Own(files[stream], run)) = cur_file_line + IF fpc = "stamp" THEN 1 ELSE 0
  /\ fpc = "write" => /\ cur_file_line < MaxLine
                      /\ BytesOf(files[stream], Own(files[stream], run)) < MaxSize

(* A time is of the hour of the open file, or before; or a write to that    *)
(* file met the end of the hour, as HourKept excepts.                       *)
Excused(t) == HourOf(t) <= HourOf(stream[1]) \/ \E j \in DOMAIN files[stream] : Kept(stream, j)

(* So is the time of the last write, or of the start of the program, when a *)
(* file is open; and the time of the call that is about to write.           *)
Hours ==
  /\ stream # NoFile /\ fpc # "stamp" => Excused(last_write_time)
  /\ fpc = "write" => Excused(began)

(* The messages that are in the files, but for those that failed.  Of a     *)
(* program that was killed, all but the last two taken.                     *)
Due == IF tpc = "killed" THEN taken - 2 ELSE Done

(* No more of them are missing than calls of the system have failed.        *)
Lost == Cardinality(Missing(first + 1, Due)) <= failed

(* The inductive invariant, which needs no assumption on names;             *)
Inv == /\ FileTypeOK /\ ThreadTypeOK /\ Queue /\ Places /\ LastMsg /\ Clocks /\ Marks
       /\ Hours /\ HourKept /\ Lost

(* that of the limits, which needs Anew;                                    *)
WithinInv == Counted /\ LimitsKept

(* and that of the order, which needs InRound.                              *)
OrderInv == Newest /\ Older /\ Ordered

-----------------------------------------------------------------------------
(* A sequence with one element more,                                        *)
LEMMA AppendIs ==
  ASSUME NEW S, NEW f \in Seq(S), NEW e \in S
  PROVE  /\ Append(f, e) \in Seq(S) /\ Len(Append(f, e)) = Len(f) + 1
         /\ DOMAIN Append(f, e) = DOMAIN f \cup {Len(f) + 1}
         /\ \A k \in DOMAIN f : k < Len(f) + 1 /\ Append(f, e)[k] = f[k]
         /\ Append(f, e)[Len(f) + 1] = e
  OBVIOUS

(* and one without the last few.                                            *)
LEMMA CutIs ==
  ASSUME NEW S, NEW f \in Seq(S), NEW d \in Nat
  PROVE  /\ SubSeq(f, 1, Len(f) - d) \in Seq(S)
         /\ DOMAIN SubSeq(f, 1, Len(f) - d) = {k \in DOMAIN f : k <= Len(f) - d}
         /\ \A k \in DOMAIN SubSeq(f, 1, Len(f) - d) : SubSeq(f, 1, Len(f) - d)[k] = f[k]
  OBVIOUS

(* A step of write_data that makes a file.                                  *)
Made(from, to) == WriteMsg /\ CreateFile(from, to)

(* The steps of the program, those of write_data one by one.                *)
LEMMA Steps ==
  ASSUME Next
  PROVE  \/ PutMsg \/ Stop \/ DequeueMsg \/ QueueEmpty \/ Goes \/ Wakes \/ Ends
         \/ Killed \/ Restarts
         \/ ClockTicks /\ UNCHANGED <<fifoVars, threadVars, counts>>
         \/ Made("create", "check") \/ Made("recreate", "write") \/ (WriteMsg /\ CreateFails)
         \/ (WriteMsg /\ KeepFile) \/ (WriteMsg /\ CloseFile) \/ (WriteMsg /\ Fwrite)
         \/ (WriteMsg /\ FwriteFails) \/ (WriteMsg /\ Stamp)
  BY DEF Next, Svc, WriteMsg, WriteSteps, Made

(* What a step does to the directory: it makes a file, if there is none of  *)
(* the name,                                                                *)
NewFile ==
  /\ DOMAIN files' = DOMAIN files \cup {FileName}
  /\ \A n \in DOMAIN files : files'[n] = files[n]
  /\ FileName \notin DOMAIN files => files'[FileName] = <<>>

(* appends a message,                                                       *)
Entered == [msg |-> msg, run |-> run, began |-> began, stamped |-> began]

(* to the open file,                                                        *)
Appended ==
  /\ DOMAIN files' = DOMAIN files /\ stream \in DOMAIN files
  /\ \A n \in DOMAIN files : n # stream => files'[n] = files[n]
  /\ files'[stream] = Append(files[stream], Entered)

(* sets the time of its last message,                                       *)
Stamped ==
  /\ DOMAIN files' = DOMAIN files /\ stream \in DOMAIN files
  /\ \A n \in DOMAIN files : n # stream => files'[n] = files[n]
  /\ files[stream] # <<>>
  /\ files'[stream] = [files[stream] EXCEPT ![Len(files[stream])] = [@ EXCEPT !.stamped = clock]]

(* or takes from it what was buffered.                                      *)
Cut ==
  /\ DOMAIN files' = DOMAIN files /\ stream \in DOMAIN files
  /\ \A n \in DOMAIN files : n # stream => files'[n] = files[n]
  /\ \E lost \in 0 .. buffered :
       files'[stream] = SubSeq(files[stream], 1, Len(files[stream]) - lost)

(* create_file makes a file.                                                *)
LEMMA DirCreate ==
  ASSUME FileTypeOK, NEW from, NEW to, CreateFile(from, to)
  PROVE  NewFile /\ Function(files)'
  BY DEF CreateFile, NewFile, FileTypeOK, Function

(* fwrite appends the message.                                              *)
LEMMA DirWrite ==
  ASSUME FileTypeOK, Places, Fwrite
  PROVE  Appended /\ Function(files)'
  BY DEF Fwrite, FStep, Appended, Places, Open, Entered, FileTypeOK, Function

(* The time that is read after it is that of the last message.              *)
LEMMA DirStamp ==
  ASSUME FileTypeOK, Places, LastMsg, Stamp
  PROVE  Stamped /\ Function(files)'
<1>1. stream \in DOMAIN files /\ files[stream] # <<>>
  BY DEF Stamp, FStep, Places, Open, LastMsg, FileTypeOK
<1> DEFINE k == Len(files[stream])
           g == [files[stream] EXCEPT ![k] = [@ EXCEPT !.stamped = clock]]
<1>2. files' = [files EXCEPT ![stream] = g]
  BY DEF Stamp
<1> HIDE DEF g
<1>3. Function(files)' /\ DOMAIN files' = DOMAIN files /\ files'[stream] = g
      /\ \A n \in DOMAIN files : n # stream => files'[n] = files[n]
  BY <1>1, <1>2 DEF Function
<1> QED
  BY <1>1, <1>3 DEF Stamped, g

(* A kill takes what was buffered.                                          *)
LEMMA DirKilled ==
  ASSUME FileTypeOK, Killed, stream # NoFile
  PROVE  Cut /\ Function(files)'
<1>1. stream \in DOMAIN files
  BY DEF FileTypeOK
<1>2. PICK lost \in 0 .. buffered :
        files' = [files EXCEPT ![stream] = SubSeq(files[stream], 1, Len(files[stream]) - lost)]
  BY DEF Killed, FileKilled
<1> DEFINE g == SubSeq(files[stream], 1, Len(files[stream]) - lost)
<1> HIDE DEF g
<1>3. files' = [files EXCEPT ![stream] = g]
  BY <1>2 DEF g
<1>4. Function(files)' /\ DOMAIN files' = DOMAIN files /\ files'[stream] = g
      /\ \A n \in DOMAIN files : n # stream => files'[n] = files[n]
  BY <1>1, <1>3 DEF Function
<1> QED
  BY <1>1, <1>4 DEF Cut, g

(* The time is all that changes in a file then.                             *)
LEMMA StampIs ==
  ASSUME NEW f \in Seq(Entry), f # <<>>, NEW t \in Nat,
         NEW g, g = [f EXCEPT ![Len(f)] = [@ EXCEPT !.stamped = t]]
  PROVE  /\ g \in Seq(Entry) /\ Len(g) = Len(f) /\ DOMAIN g = DOMAIN f /\ Len(f) \in DOMAIN f
         /\ \A k \in DOMAIN f : /\ k # Len(f) => g[k] = f[k]
                                /\ g[k].msg = f[k].msg /\ g[k].run = f[k].run
                                   /\ g[k].began = f[k].began
         /\ g[Len(f)].stamped = t
<1>1. Len(f) \in DOMAIN f /\ Len(f) \in Nat
  OBVIOUS
<1> DEFINE e == [f[Len(f)] EXCEPT !.stamped = t]
<1>2. f[Len(f)] \in Entry
  BY <1>1
<1>3. /\ e \in Entry /\ e.stamped = t /\ e.msg = f[Len(f)].msg /\ e.run = f[Len(f)].run
      /\ e.began = f[Len(f)].began
  BY <1>2 DEF Entry
<1>4. g = [f EXCEPT ![Len(f)] = e]
  OBVIOUS
<1> HIDE DEF e
<1> QED
  BY <1>1, <1>3, <1>4

(* The name of a file that is made now.                                     *)
LEMMA NameIs ==
  ASSUME FileTypeOK
  PROVE  FileName \in Nat \X Nat /\ FileName[1] = clock /\ FileName # NoFile
         /\ (file_seq < SeqNumbers => FileName[2] = file_seq)
<1>1. SeqNumbers \in Nat \ {0} /\ file_seq \in Nat /\ clock \in Nat
  BY FileAssumption DEF FileTypeOK
<1> DEFINE m == file_seq % SeqNumbers
<1>2. m \in Nat
  BY <1>1, ModRange
<1>3. file_seq < SeqNumbers => m = file_seq
  BY <1>1, ModSmall
<1> HIDE DEF m
<1>4. <<clock, m>> \in Nat \X Nat /\ <<clock, m>>[1] = clock /\ <<clock, m>>[2] = m
      /\ <<clock, m>> # <<>>
  BY <1>1, <1>2
<1>5. FileName = <<clock, m>>
  BY DEF FileName, m
<1> QED
  BY <1>3, <1>4, <1>5 DEF NoFile

(* FileTypeOK is inductive,                                                 *)
LEMMA FileTypeStep ==
  ASSUME FileTypeOK, ThreadTypeOK, Places, LastMsg, Next
  PROVE  FileTypeOK'
<1>0. FileName \in Nat \X Nat
  BY NameIs
<1> USE DEF FileTypeOK
<1>1. ASSUME NEW from \in {"create", "recreate"}, NEW to \in {"check", "write"},
             CreateFile(from, to)
      PROVE  FileTypeOK'
  <2>1. NewFile /\ Function(files)'
    BY <1>1, DirCreate
  <2>4. ASSUME NEW n \in DOMAIN files' PROVE files'[n] \in Seq(Entry)
    <3>1. CASE n \in DOMAIN files
      BY <2>1, <3>1 DEF NewFile
    <3>2. CASE n \notin DOMAIN files
      <4>1. files'[n] = <<>>
        BY <2>1, <2>4, <3>2 DEF NewFile
      <4> QED
        BY <4>1
    <3> QED
      BY <3>1, <3>2
  <2> QED
    BY <1>0, <1>1, <2>1, <2>4 DEF CreateFile, FStep, NewFile
<1>2. CASE WriteMsg /\ Fwrite
  <2>1. Appended /\ Function(files)'
    BY <1>2, DirWrite
  <2>2. Entered \in Entry
    BY DEF Entered, Entry
  <2>3. files'[stream] \in Seq(Entry)
    BY <2>1, <2>2, AppendIs DEF Appended
  <2>4. buffered = 0
    BY <1>2 DEF Fwrite, FStep, Places
  <2> QED
    BY <1>2, <2>1, <2>3, <2>4 DEF Fwrite, FStep, Appended, noted
<1>3. CASE WriteMsg /\ Stamp
  <2>1. Stamped /\ Function(files)'
    BY <1>3, DirStamp
  <2>2. files'[stream] \in Seq(Entry)
    BY <2>1, StampIs DEF Stamped
  <2> QED
    BY <1>3, <2>1, <2>2 DEF Stamp, FStep, Stamped, noted
<1>4. CASE Killed
  <2>1. CASE stream # NoFile
    <3>1. Cut /\ Function(files)'
      BY <1>4, <2>1, DirKilled
    <3>2. PICK d \in 0 .. buffered :
            files'[stream] = SubSeq(files[stream], 1, Len(files[stream]) - d)
      BY <3>1 DEF Cut
    <3>3. files[stream] \in Seq(Entry) /\ d \in Nat
      BY <3>1 DEF Cut
    <3>4. files'[stream] \in Seq(Entry)
      BY <3>2, <3>3, CutIs
    <3>5. \A n \in DOMAIN files' : files'[n] \in Seq(Entry)
      BY <3>1, <3>4 DEF Cut
    <3> QED
      BY <1>4, <3>1, <3>5 DEF Killed, FileKilled, Cut, noted
  <2>2. CASE stream = NoFile
    BY <1>4, <2>2 DEF Killed, FileKilled, noted
  <2> QED
    BY <2>1, <2>2
<1>5. CASE DequeueMsg
  <2>1. Head(contents) \in Nat
    BY <1>5 DEF DequeueMsg, Take, ThreadTypeOK
  <2> QED
    BY <1>5, <2>1 DEF DequeueMsg, WriteData, FStep, noted
<1>6. CASE WriteMsg /\ (CreateFails \/ KeepFile \/ CloseFile \/ FwriteFails)
  BY <1>6 DEF CreateFails, KeepFile, CloseFile, FwriteFails, FStep, noted
<1>7. CASE UNCHANGED fileVars
  BY <1>7 DEF fileVars, noted
<1>8. CASE PutMsg \/ Stop \/ QueueEmpty \/ Goes \/ Wakes
  BY <1>7, <1>8 DEF PutMsg, Stop, QueueEmpty, Goes, Wakes
<1>9. CASE Ends \/ Restarts \/ ClockTicks
  BY <1>9 DEF Ends, FileCloses, Restarts, FileRestarts, ClockTicks, noted
<1> QED
  BY <1>1, <1>2, <1>3, <1>4, <1>5, <1>6, <1>8, <1>9, Steps DEF Made

(* and so are ThreadTypeOK,                                                 *)
LEMMA ThreadTypeStep ==
  ASSUME FileTypeOK, ThreadTypeOK, Next
  PROVE  ThreadTypeOK'
<1> USE DEF ThreadTypeOK
<1>1. CASE DequeueMsg
  <2>1. contents # <<>> /\ taken' = Head(contents) /\ contents' = Tail(contents)
    BY <1>1 DEF DequeueMsg, Take
  <2>2. Head(contents) \in Nat /\ Tail(contents) \in Seq(Nat)
    BY <2>1
  <2> QED
    BY <1>1, <2>1, <2>2 DEF DequeueMsg, counts
<1>2. CASE PutMsg
  <2>1. contents' = Append(contents, sent + 1) /\ sent' = sent + 1
    BY <1>2 DEF PutMsg, Put
  <2>2. Append(contents, sent + 1) \in Seq(Nat)
    BY AppendIs
  <2> QED
    BY <1>2, <2>1, <2>2 DEF PutMsg, Put, threadVars
<1>3. CASE Restarts
  <2>1. <<>> \in Seq(Nat)
    OBVIOUS
  <2> QED
    BY <1>3, <2>1 DEF Restarts
<1>4. CASE WriteMsg
  BY <1>4 DEF WriteMsg, fifoVars, counts
<1>5. CASE Stop \/ QueueEmpty \/ Goes \/ Wakes \/ Ends \/ Killed
  BY <1>5 DEF Stop, QueueEmpty, Goes, Wakes, Ends, Killed, fifoVars, counts
<1>6. CASE UNCHANGED <<fifoVars, threadVars, counts>>
  BY <1>6 DEF fifoVars, threadVars, counts
<1> QED
  BY <1>1, <1>2, <1>3, <1>4, <1>5, <1>6, Steps DEF Made

(* Queue,                                                                   *)
LEMMA QueueStep ==
  ASSUME FileTypeOK, ThreadTypeOK, Queue, Places, Next
  PROVE  Queue'
<1> USE DEF Queue, Through, ThreadTypeOK
<1>1. CASE DequeueMsg
  <2>1. contents # <<>> /\ taken' = Head(contents) /\ contents' = Tail(contents)
    BY <1>1 DEF DequeueMsg, Take
  <2>2. Len(contents') = Len(contents) - 1 /\ Len(contents) >= 1 /\ Head(contents) = contents[1]
        /\ \A i \in DOMAIN contents' : i + 1 \in DOMAIN contents /\ contents'[i] = contents[i + 1]
    BY <2>1
  <2>3. 1 \in DOMAIN contents
    BY <2>1
  <2>4. taken' = Through' /\ Through' = Through + 1
    BY <1>1, <2>1, <2>2, <2>3 DEF DequeueMsg, counts
  <2>5. \A i \in DOMAIN contents' : contents'[i] = Through' + i
    BY <2>2, <2>4
  <2>6. msg' = taken' /\ tpc' = "write" /\ UNCHANGED <<sent, first, sentAtEmpty>>
    BY <1>1, <2>1 DEF DequeueMsg, WriteData, counts
  <2> HIDE DEF Through
  <2>7. Through \in Int
    BY DEF Through
  <2>8. Len(contents') <= sent'
    BY <2>2, <2>6
  <2> QED
    BY <2>4, <2>5, <2>6, <2>7, <2>8
<1>2. CASE PutMsg
  <2>1. contents' = Append(contents, sent + 1) /\ sent' = sent + 1
        /\ UNCHANGED <<taken, first, sentAtEmpty, tpc, msg>>
    BY <1>2 DEF PutMsg, Put, threadVars, fileVars
  <2>2. /\ Len(contents') = Len(contents) + 1
           /\ DOMAIN contents' = DOMAIN contents \cup {Len(contents) + 1}
        /\ \A k \in DOMAIN contents : contents'[k] = contents[k]
        /\ contents'[Len(contents) + 1] = sent + 1
    BY <2>1, AppendIs
  <2>3. Through' = Through
    BY <2>1, <2>2
  <2>4. \A i \in DOMAIN contents' : contents'[i] = Through' + i
    BY <2>2, <2>3
  <2>5. Len(contents') <= sent'
    BY <2>1, <2>2
  <2> QED
    BY <2>1, <2>3, <2>4, <2>5
<1>3. CASE Restarts
  <2>1. contents' = <<>> /\ first' = sent /\ UNCHANGED <<taken, sent>> /\ tpc' = "drain"
    BY <1>3 DEF Restarts
  <2>2. taken <= sent
    OBVIOUS
  <2> QED
    BY <2>1, <2>2
<1>4. CASE WriteMsg
  <2>1. UNCHANGED <<contents, taken, sent, first, sentAtEmpty>> /\ tpc = "write"
        /\ tpc' \in {"drain", "write"}
    BY <1>4 DEF WriteMsg, fifoVars, counts
  <2>2. msg' = msg
    BY <1>4 DEF WriteMsg, WriteSteps, CreateFile, CreateFails, KeepFile, CloseFile, Fwrite,
       FwriteFails, Stamp
  <2> QED
    BY <2>1, <2>2
<1>5. CASE QueueEmpty
  BY <1>5 DEF QueueEmpty, fifoVars
<1>6. CASE Stop \/ Goes \/ Wakes \/ Ends \/ Killed
  BY <1>6 DEF Stop, Goes, Wakes, Ends, Killed, fifoVars, counts, fileVars
<1>7. CASE ClockTicks /\ UNCHANGED <<fifoVars, threadVars, counts>>
  BY <1>7 DEF fifoVars, threadVars, counts, ClockTicks
<1> QED
  BY <1>1, <1>2, <1>3, <1>4, <1>5, <1>6, <1>7, Steps DEF Made

(* Places,                                                                  *)
LEMMA PlacesStep ==
  ASSUME FileTypeOK, ThreadTypeOK, Places, Next
  PROVE  Places'
<1> USE DEF Places, Open, ThreadTypeOK, FileTypeOK
<1>1. ASSUME NEW from \in {"create", "recreate"}, NEW to \in {"check", "write"},
             CreateFile(from, to),
             WriteMsg
      PROVE  Places'
  <2>1. stream' = FileName /\ FileName # NoFile
    BY <1>1 DEF CreateFile, FileName, NoFile
  <2>2. fpc = from /\ fpc' = to /\ buffered' = buffered /\ stream = NoFile
    BY <1>1 DEF CreateFile, FStep
  <2> QED
    BY <1>1, <2>1, <2>2 DEF WriteMsg
<1>2. CASE WriteMsg /\ (CreateFails \/ KeepFile \/ CloseFile)
  BY <1>2 DEF WriteMsg, CreateFails, KeepFile, CloseFile, FStep
<1>3. CASE WriteMsg /\ (Fwrite \/ FwriteFails \/ Stamp)
  BY <1>3 DEF WriteMsg, Fwrite, FwriteFails, Stamp, FStep
<1>4. CASE DequeueMsg
  BY <1>4 DEF DequeueMsg, WriteData, FStep
<1>5. CASE PutMsg \/ Stop \/ QueueEmpty \/ Goes \/ Wakes
  BY <1>5 DEF PutMsg, Stop, QueueEmpty, Goes, Wakes, fileVars, threadVars
<1>6. CASE Ends
  BY <1>6 DEF Ends, FileCloses
<1>7. CASE Killed
  BY <1>7 DEF Killed, FileKilled
<1>8. CASE Restarts
  BY <1>8 DEF Restarts, FileRestarts
<1>9. CASE ClockTicks /\ UNCHANGED <<fifoVars, threadVars, counts>>
  BY <1>9 DEF ClockTicks, threadVars
<1> QED
  BY <1>1, <1>2, <1>3, <1>4, <1>5, <1>6, <1>7, <1>8, <1>9, Steps DEF Made

(* and Clocks.                                                              *)
LEMMA ClocksStep ==
  ASSUME FileTypeOK, Clocks, Next
  PROVE  Clocks'
<1> USE DEF Clocks, FileTypeOK
<1>1. ASSUME NEW from, NEW to, CreateFile(from, to) PROVE Clocks'
  BY <1>1 DEF CreateFile, FileName, FStep
<1>2. CASE WriteMsg /\ (CreateFails \/ KeepFile \/ CloseFile \/ Fwrite \/ FwriteFails \/ Stamp)
  BY <1>2 DEF CreateFails, KeepFile, CloseFile, Fwrite, FwriteFails, Stamp, FStep
<1>3. CASE PutMsg \/ Stop \/ QueueEmpty \/ Goes \/ Wakes \/ ClockTicks
  BY <1>3 DEF PutMsg, Stop, QueueEmpty, Goes, Wakes, ClockTicks, fileVars, noted
<1>4. CASE DequeueMsg \/ Ends \/ Killed \/ Restarts
  BY <1>4 DEF DequeueMsg, WriteData, Ends, Killed, FileKilled, Restarts, FileRestarts, FStep,
     noted
<1> QED
  BY <1>1, <1>2, <1>3, <1>4, Steps DEF Made

(* How messages leave the queue: taken one by one, or, when the next        *)
(* program starts, all at once.                                             *)
LEMMA ThroughStep ==
  ASSUME FileTypeOK, ThreadTypeOK, Queue, Next
  PROVE  /\ Through \in Nat /\ Through <= sent
         /\ DequeueMsg => Through' = Through + 1 /\ first' = first /\ sent' = sent
                         /\ taken' = Through + 1
         /\ Restarts => Through' = sent /\ first' = sent
         /\ ~DequeueMsg /\ ~Restarts => Through' = Through /\ first' = first /\ taken' = taken
<1> USE DEF Through, ThreadTypeOK
<1>0. Through \in Nat /\ Through <= sent
  BY DEF Queue
<1>1. CASE DequeueMsg
  <2>1. contents # <<>> /\ taken' = contents[1] /\ contents' = Tail(contents)
        /\ UNCHANGED <<sent, first>> /\ tpc = "drain"
    BY <1>1 DEF DequeueMsg, Take, counts
  <2>2. Len(contents') = Len(contents) - 1 /\ 1 \in DOMAIN contents
    BY <2>1
  <2>3. contents[1] = Through + 1
    BY <2>2 DEF Queue
  <2>4. ~Restarts
    BY <2>1 DEF Restarts
  <2> QED
    BY <1>0, <1>1, <2>1, <2>2, <2>3, <2>4
<1>2. CASE PutMsg
  <2>1. contents' = Append(contents, sent + 1) /\ sent' = sent + 1 /\ UNCHANGED <<taken, first>>
    BY <1>2 DEF PutMsg, Put
  <2>2. Len(contents') = Len(contents) + 1
    BY <2>1, AppendIs
  <2>3. m_running_flag /\ tpc # "killed" /\ tpc' = tpc
    BY <1>2 DEF PutMsg, threadVars
  <2>4. Through' = Through
    BY <2>1, <2>2
  <2>5. ~DequeueMsg /\ ~Restarts
    <3>1. fileVars' = fileVars
      BY <1>2 DEF PutMsg
    <3>2. ~DequeueMsg
      BY <2>3 DEF DequeueMsg
    <3>3. ~Restarts
      BY <3>1 DEF Restarts, FileRestarts, fileVars, noted, FileTypeOK
    <3> QED
      BY <3>2, <3>3
  <2> QED
    BY <1>0, <2>1, <2>4, <2>5
<1>3. CASE Restarts
  <2>1. tpc # "drain" /\ contents' = <<>> /\ first' = sent /\ sent' = sent
    BY <1>3 DEF Restarts
  <2>2. ~DequeueMsg
    BY <2>1 DEF DequeueMsg
  <2> QED
    BY <1>0, <1>3, <2>1, <2>2
<1>4. CASE UNCHANGED <<contents, sent, first, taken>> /\ ~DequeueMsg /\ ~Restarts
  BY <1>0, <1>4
<1>5. CASE UNCHANGED <<contents, sent, first, taken>> /\ (DequeueMsg \/ Restarts)
  BY <1>1, <1>3, <1>5
<1>6. CASE WriteMsg \/ Stop \/ QueueEmpty \/ Goes \/ Wakes \/ Ends \/ Killed
  <2>1. UNCHANGED <<contents, sent, first, taken>>
    BY <1>6 DEF WriteMsg, Stop, QueueEmpty, Goes, Wakes, Ends, Killed, fifoVars, counts
  <2> QED
    BY <2>1, <1>4, <1>5
<1>7. CASE UNCHANGED <<fifoVars, threadVars, counts>>
  <2>1. UNCHANGED <<contents, sent, first, taken>>
    BY <1>7 DEF fifoVars, counts
  <2> QED
    BY <2>1, <1>4, <1>5
<1> QED
  BY <1>1, <1>2, <1>3, <1>6, <1>7, Steps DEF Made

(* What a step that writes no message leaves of the messages: where one is, *)
(* there was one before, the same but for its time.                         *)
OldEntry(n, k) ==
  /\ n \in DOMAIN files /\ k \in DOMAIN files[n]
  /\ files'[n][k].msg = files[n][k].msg
  /\ files'[n][k].run = files[n][k].run
  /\ files'[n][k].began = files[n][k].began

(* That for all messages.                                                   *)
OldEntries == \A n \in DOMAIN files' : \A k \in DOMAIN files'[n] : OldEntry(n, k)

(* Steps other than a write write no message.                               *)
LEMMA OldEntriesStep ==
  ASSUME FileTypeOK, ThreadTypeOK, Places, LastMsg, Next, ~(WriteMsg /\ Fwrite)
  PROVE  OldEntries
<1>1. CASE files' = files
  BY <1>1 DEF OldEntries, OldEntry
<1>2. ASSUME NewFile PROVE OldEntries
  <2> SUFFICES ASSUME NEW n \in DOMAIN files', NEW k \in DOMAIN files'[n]
               PROVE  OldEntry(n, k)
    BY DEF OldEntries
  <2>1. CASE n \in DOMAIN files
    BY <1>2, <2>1 DEF NewFile, OldEntry
  <2>2. CASE n \notin DOMAIN files
    <3>1. files'[n] = <<>>
      BY <1>2, <2>2 DEF NewFile
    <3> QED
      BY <3>1
  <2> QED
    BY <2>1, <2>2
<1>3. ASSUME Stamped PROVE OldEntries
  <2>1. stream \in DOMAIN files /\ files[stream] \in Seq(Entry) /\ files[stream] # <<>>
        /\ clock \in Nat
    BY <1>3 DEF Stamped, FileTypeOK
  <2>2. /\ DOMAIN files'[stream] = DOMAIN files[stream]
        /\ \A k \in DOMAIN files[stream] :
              /\ files'[stream][k].msg = files[stream][k].msg
              /\ files'[stream][k].run = files[stream][k].run
              /\ files'[stream][k].began = files[stream][k].began
    BY <1>3, <2>1, StampIs DEF Stamped
  <2> SUFFICES ASSUME NEW n \in DOMAIN files', NEW k \in DOMAIN files'[n]
               PROVE  OldEntry(n, k)
    BY DEF OldEntries
  <2>3. CASE n = stream
    BY <2>1, <2>2, <2>3 DEF OldEntry
  <2>4. CASE n # stream
    BY <1>3, <2>4 DEF Stamped, OldEntry
  <2> QED
    BY <2>3, <2>4
<1>4. ASSUME Cut PROVE OldEntries
  <2>1. PICK d \in 0 .. buffered :
          files'[stream] = SubSeq(files[stream], 1, Len(files[stream]) - d)
    BY <1>4 DEF Cut
  <2>2. stream \in DOMAIN files /\ files[stream] \in Seq(Entry) /\ d \in Nat
    BY <1>4 DEF Cut, FileTypeOK
  <2>3. \A k \in DOMAIN files'[stream] :
          k \in DOMAIN files[stream] /\ files'[stream][k] = files[stream][k]
    BY <2>1, <2>2, CutIs
  <2> SUFFICES ASSUME NEW n \in DOMAIN files', NEW k \in DOMAIN files'[n]
               PROVE  OldEntry(n, k)
    BY DEF OldEntries
  <2>4. CASE n = stream
    BY <2>2, <2>3, <2>4 DEF OldEntry
  <2>5. CASE n # stream
    BY <1>4, <2>5 DEF Cut, OldEntry
  <2> QED
    BY <2>4, <2>5
<1>5. CASE Made("create", "check") \/ Made("recreate", "write")
  BY <1>2, <1>5, DirCreate DEF Made
<1>6. CASE WriteMsg /\ Stamp
  BY <1>3, <1>6, DirStamp
<1>7. CASE Killed
  <2>1. CASE stream = NoFile
    BY <1>1, <1>7, <2>1 DEF Killed, FileKilled
  <2> QED
    BY <1>4, <1>7, <2>1, DirKilled
<1>8. CASE WriteMsg /\ (CreateFails \/ KeepFile \/ CloseFile \/ FwriteFails)
  BY <1>1, <1>8 DEF CreateFails, KeepFile, CloseFile, FwriteFails
<1>9. CASE PutMsg \/ Stop \/ QueueEmpty \/ Goes \/ Wakes \/ DequeueMsg
  BY <1>1, <1>9 DEF PutMsg, Stop, QueueEmpty, Goes, Wakes, DequeueMsg, WriteData, fileVars
<1>10. CASE Ends \/ Restarts \/ ClockTicks
  BY <1>1, <1>10 DEF Ends, Restarts, FileRestarts, ClockTicks
<1> QED
  BY <1>5, <1>6, <1>7, <1>8, <1>9, <1>10, Steps

(* A write adds one message, behind the others of the open file.            *)
LEMMA NewEntryStep ==
  ASSUME FileTypeOK, Places, Fwrite
  PROVE  /\ DOMAIN files' = DOMAIN files /\ stream \in DOMAIN files
         /\ files[stream] \in Seq(Entry) /\ Len(files[stream]) \in Nat
         /\ DOMAIN files'[stream] = DOMAIN files[stream] \cup {Len(files[stream]) + 1}
         /\ Len(files'[stream]) = Len(files[stream]) + 1
         /\ \A k \in DOMAIN files[stream] : k \in Nat /\ k < Len(files[stream]) + 1
         /\ \A n \in DOMAIN files : n # stream => files'[n] = files[n]
         /\ \A n \in DOMAIN files : \A k \in DOMAIN files[n] :
              k \in DOMAIN files'[n] /\ files'[n][k] = files[n][k]
         /\ \A n \in DOMAIN files : \A k \in DOMAIN files'[n] :
              k \in DOMAIN files[n] \/ (n = stream /\ k = Len(files[stream]) + 1)
         /\ files'[stream][Len(files[stream]) + 1] = Entered
<1>1. Appended
  BY DirWrite
<1>2. stream \in DOMAIN files /\ files[stream] \in Seq(Entry) /\ Entered \in Entry
  BY <1>1 DEF Appended, Entered, Entry, FileTypeOK
<1> DEFINE f == files[stream]
           g == files'[stream]
<1>3. /\ DOMAIN g = DOMAIN f \cup {Len(f) + 1} /\ Len(g) = Len(f) + 1
      /\ \A k \in DOMAIN f : k < Len(f) + 1 /\ g[k] = f[k]
      /\ g[Len(f) + 1] = Entered
  BY <1>1, <1>2, AppendIs DEF Appended
<1>4. Len(f) \in Nat /\ \A k \in DOMAIN f : k \in Nat
  BY <1>2
<1> QED
  BY <1>1, <1>2, <1>3, <1>4 DEF Appended

(* write_data is done with a message when it is written, or when it has     *)
(* failed; with those of a program that was killed, or never taken, when    *)
(* the next one starts.                                                     *)
LEMMA DoneStep ==
  ASSUME FileTypeOK, ThreadTypeOK, Queue, Places, Next
  PROVE  /\ Done \in Int /\ Done <= Done'
         /\ WriteMsg /\ Fwrite => Done' = msg /\ Done < msg /\ Done' = Done + 1
         /\ WriteMsg /\ Stamp => Done' = Done
         /\ DequeueMsg \/ PutMsg \/ Stop \/ QueueEmpty \/ Goes \/ Wakes \/ Ends
            \/ ClockTicks => Done' = Done
<1> USE DEF Done
<1>0. Through \in Nat
  BY ThroughStep
<1>1. CASE DequeueMsg
  <2>1. fpc = "idle" /\ fpc' \in {"create", "check"}
    BY <1>1 DEF DequeueMsg, WriteData, FStep
  <2>2. Through' = Through + 1
    BY <1>1, ThroughStep
  <2>3. ~WriteMsg
    BY <1>1 DEF DequeueMsg, WriteMsg
  <2> QED
    BY <1>0, <2>1, <2>2, <2>3
<1>2. CASE Restarts
  <2>1. fpc = "idle" /\ fpc' = "idle" /\ ~WriteMsg
    BY <1>2 DEF Restarts, FileRestarts, Places, WriteMsg
  <2>2. Through' = sent /\ Through <= sent /\ sent \in Nat
    BY <1>2, ThroughStep DEF ThreadTypeOK
  <2>3. ~DequeueMsg /\ ~PutMsg /\ ~Stop /\ ~QueueEmpty /\ ~Goes /\ ~Wakes /\ ~Ends /\ ~ClockTicks
    <3>1. run' = run + 1 /\ run \in Nat /\ tpc' = "drain" /\ tpc # "drain" /\ tpc # "sleep"
      BY <1>2 DEF Restarts, FileRestarts, FileTypeOK
    <3>2. run' # run
      BY <3>1
    <3>3. UNCHANGED fileVars => run' = run
      BY DEF fileVars, noted
    <3>4. ClockTicks \/ Ends => run' = run
      BY DEF ClockTicks, Ends, noted
    <3> QED
      BY <3>1, <3>2, <3>3, <3>4 DEF DequeueMsg, PutMsg, Stop, QueueEmpty, Goes, Wakes
  <2> QED
    BY <1>0, <2>1, <2>2, <2>3
<1>3. CASE WriteMsg
  <2>1. Through' = Through
    <3>1. ~DequeueMsg /\ ~Restarts
      BY <1>3 DEF WriteMsg, DequeueMsg, Restarts
    <3> QED
      BY <3>1, ThroughStep
  <2>2. fpc # "idle" /\ msg = Through
    BY <1>3 DEF WriteMsg, Places, Queue
  <2>3. fpc = "stamp" => fpc' = "idle"
    BY <1>3 DEF WriteMsg, WriteSteps, CreateFile, CreateFails, KeepFile, CloseFile, Fwrite,
                FwriteFails, Stamp, FStep
  <2>4. Stamp => fpc = "stamp" /\ fpc' = "idle"
    BY DEF Stamp, FStep
  <2>5. Fwrite => fpc = "write" /\ fpc' = "stamp"
    BY DEF Fwrite, FStep
  <2>6. ~(DequeueMsg \/ PutMsg \/ Stop \/ QueueEmpty \/ Goes \/ Wakes \/ Ends \/ ClockTicks)
    <3>1. fpc' # fpc /\ tpc = "write"
      BY <1>3 DEF WriteMsg, WriteSteps, CreateFile, CreateFails, KeepFile, CloseFile, Fwrite,
                FwriteFails, Stamp, FStep
    <3>2. UNCHANGED fileVars => fpc' = fpc
      BY DEF fileVars
    <3> QED
      BY <3>1, <3>2 DEF DequeueMsg, PutMsg, Stop, QueueEmpty, Goes, Wakes, Ends, ClockTicks
  <2> QED
    BY <1>0, <2>1, <2>2, <2>3, <2>4, <2>5, <2>6
<1>4. CASE Killed
  <2>1. fpc' = "idle" /\ tpc' = "killed" /\ tpc \notin {"ended", "killed"}
    BY <1>4 DEF Killed, FileKilled
  <2>2. ~DequeueMsg /\ ~Restarts
    BY <2>1 DEF DequeueMsg, Restarts
  <2>3. Through' = Through
    BY <2>2, ThroughStep
  <2>4. ~(DequeueMsg \/ PutMsg \/ Stop \/ QueueEmpty \/ Goes \/ Wakes \/ Ends) /\ ~WriteMsg
    BY <2>1 DEF DequeueMsg, PutMsg, Stop, QueueEmpty, Goes, Wakes, Ends, WriteMsg, threadVars
  <2>5. ~ClockTicks
    <3>1. clock' = clock /\ clock \in Nat
      BY <1>4 DEF Killed, FileTypeOK
    <3> QED
      BY <3>1 DEF ClockTicks
  <2> QED
    BY <1>0, <2>1, <2>3, <2>4, <2>5
<1>5. CASE ~DequeueMsg /\ ~Restarts /\ ~WriteMsg /\ fpc' = fpc
  BY <1>0, <1>5, ThroughStep
<1>6. CASE PutMsg \/ Stop \/ QueueEmpty \/ Goes \/ Wakes \/ Ends \/ ClockTicks
  <2>1. fpc' = fpc
    BY <1>6 DEF PutMsg, Stop, QueueEmpty, Goes, Wakes, Ends, ClockTicks, fileVars
  <2> QED
    BY <1>1, <1>2, <1>3, <1>5, <2>1
<1> QED
  BY <1>1, <1>2, <1>3, <1>4, <1>6, Steps DEF Made

(* LastMsg is inductive.                                                    *)
LEMMA LastMsgStep ==
  ASSUME FileTypeOK, ThreadTypeOK, Queue, Places, LastMsg, Next
  PROVE  LastMsg'
<1>1. CASE WriteMsg /\ Fwrite
  <2>1. /\ fpc' = "stamp" /\ stream' = stream /\ run' = run /\ began' = began
    BY <1>1 DEF Fwrite, FStep
  <2>2. /\ files'[stream] # <<>> /\ Len(files'[stream]) = Len(files[stream]) + 1
        /\ files'[stream][Len(files[stream]) + 1] = Entered
    BY <1>1, NewEntryStep
  <2>3. Done' = msg
    BY <1>1, DoneStep
  <2> QED
    BY <2>1, <2>2, <2>3 DEF LastMsg, Entered
<1>2. CASE WriteMsg /\ Stamp
  <2>1. stream \in DOMAIN files /\ files[stream] \in Seq(Entry) /\ files[stream] # <<>>
        /\ clock \in Nat
        /\ Stamped
    BY <1>2, DirStamp DEF Stamped, FileTypeOK
  <2>2. /\ Len(files'[stream]) = Len(files[stream]) /\ Len(files[stream]) \in DOMAIN files[stream]
        /\ files'[stream][Len(files[stream])].msg = files[stream][Len(files[stream])].msg
        /\ DOMAIN files'[stream] = DOMAIN files[stream]
    BY <2>1, StampIs DEF Stamped
  <2>3. fpc' = "idle" /\ stream' = stream /\ buffered' = buffered /\ Done' = Done
    BY <1>2, DoneStep DEF Stamp, FStep
  <2>4. files'[stream] # <<>>
    BY <2>2
  <2> QED
    BY <2>2, <2>3, <2>4 DEF LastMsg
<1>3. CASE buffered' = 0 /\ fpc' # "stamp"
  BY <1>3 DEF LastMsg
<1>4. CASE Made("create", "check") \/ Made("recreate", "write")
           \/ (WriteMsg /\ (CreateFails \/ KeepFile \/ CloseFile \/ FwriteFails))
  <2>1. fpc' # "stamp"
    BY <1>4 DEF Made, CreateFile, CreateFails, KeepFile, CloseFile, FwriteFails, FStep
  <2>2. buffered' = 0
    BY <1>4 DEF Made, CreateFile, CreateFails, KeepFile, CloseFile, FwriteFails, FStep, Places
  <2> QED
    BY <1>3, <2>1, <2>2
<1>5. CASE Ends \/ Killed \/ Restarts
  BY <1>3, <1>5 DEF Ends, Killed, Restarts, FileKilled, FileCloses, FileRestarts, Places
<1>6. CASE DequeueMsg \/ PutMsg \/ Stop \/ QueueEmpty \/ Goes \/ Wakes \/ ClockTicks
  <2>1. Done' = Done
    BY <1>6, DoneStep
  <2>2. UNCHANGED <<files, stream, buffered, run>>
    BY <1>6 DEF DequeueMsg, WriteData, FStep, PutMsg, Stop, QueueEmpty, Goes, Wakes, ClockTicks,
                fileVars, noted
  <2>3. fpc' = "stamp" => fpc = "stamp" /\ began' = began
    BY <1>6 DEF DequeueMsg, WriteData, FStep, PutMsg, Stop, QueueEmpty, Goes, Wakes, ClockTicks,
                fileVars, noted
  <2> QED
    BY <2>1, <2>2, <2>3 DEF LastMsg
<1> QED
  BY <1>1, <1>2, <1>4, <1>5, <1>6, Steps

(* Older is inductive: the message of a write is the next one.              *)
LEMMA OlderStep ==
  ASSUME FileTypeOK, ThreadTypeOK, Queue, Places, LastMsg, Older, Next
  PROVE  Older'
<1>0. Done \in Int /\ Done <= Done' /\ Done' \in Int
  <2>1. sent' \in Nat /\ Len(contents') \in Nat
    BY ThreadTypeStep DEF ThreadTypeOK
  <2> QED
    BY <2>1, DoneStep DEF Done, Through
<1>1. CASE WriteMsg /\ Fwrite
  <2>1. Done' = msg /\ Done < msg /\ msg \in Nat
    BY <1>1, DoneStep DEF FileTypeOK
  <2> SUFFICES ASSUME NEW n \in DOMAIN files', NEW k \in DOMAIN files'[n]
               PROVE  files'[n][k].msg <= Done'
    BY DEF Older
  <2>2. n \in DOMAIN files /\ Entered.msg = msg
    BY <1>1, NewEntryStep DEF Entered
  <2>3. CASE k \in DOMAIN files[n]
    <3>1. files'[n][k] = files[n][k] /\ files[n][k].msg <= Done
      BY <1>1, <2>2, <2>3, NewEntryStep DEF Older
    <3>2. files[n][k] \in Entry
      BY <2>2, <2>3 DEF FileTypeOK
    <3>3. files[n][k].msg \in Nat
      BY <3>2 DEF Entry
    <3> QED
      BY <1>0, <2>1, <3>1, <3>3
  <2>4. CASE k \notin DOMAIN files[n]
    BY <1>1, <2>1, <2>2, <2>4, NewEntryStep
  <2> QED
    BY <2>3, <2>4
<1>2. CASE ~(WriteMsg /\ Fwrite)
  <2> SUFFICES ASSUME NEW n \in DOMAIN files', NEW k \in DOMAIN files'[n]
               PROVE  files'[n][k].msg <= Done'
    BY DEF Older
  <2>1. OldEntry(n, k)
    BY <1>2, OldEntriesStep DEF OldEntries
  <2>2. files[n][k] \in Entry
    BY <2>1 DEF FileTypeOK, OldEntry
  <2>3. files[n][k].msg \in Nat /\ files[n][k].msg <= Done
    BY <2>1, <2>2 DEF Entry, Older, OldEntry
  <2> QED
    BY <1>0, <2>1, <2>3 DEF OldEntry
<1> QED
  BY <1>1, <1>2

(* The name of a file: second and number.                                   *)
LEMMA NameType ==
  ASSUME FileTypeOK, NEW n \in DOMAIN files
  PROVE  n[1] \in Nat /\ n[2] \in Nat
  BY DEF FileTypeOK

(* The parts of a message in a file.                                        *)
LEMMA EntryType ==
  ASSUME FileTypeOK, NEW n \in DOMAIN files, NEW k \in DOMAIN files[n]
  PROVE  /\ files[n][k] \in Entry /\ k \in Nat
         /\ files[n][k].msg \in Nat /\ files[n][k].run \in Nat
         /\ files[n][k].began \in Nat /\ files[n][k].stamped \in Nat
<1>1. files[n] \in Seq(Entry)
  BY DEF FileTypeOK
<1>2. files[n][k] \in Entry /\ k \in Nat
  BY <1>1
<1> QED
  BY <1>2 DEF Entry

(* SeqBound is inductive.                                                   *)
LEMMA SeqBoundStep ==
  ASSUME FileTypeOK, ThreadTypeOK, Queue, Places, SeqBound, Next
  PROVE  SeqBound'
<1>0. /\ Through \in Nat /\ first \in Nat /\ file_seq \in Nat /\ sent \in Nat
      /\ fpc \in {"idle", "create", "check", "recreate", "write", "stamp"}
  BY ThroughStep DEF ThreadTypeOK, FileTypeOK
<1> USE DEF SeqBound, InUse
<1>1. CASE DequeueMsg
  <2>1. fpc = "idle" /\ fpc' \in {"create", "check"} /\ file_seq' = file_seq
    BY <1>1 DEF DequeueMsg, WriteData, FStep
  <2>2. Through' = Through + 1 /\ first' = first
    BY <1>1, ThroughStep
  <2> QED
    BY <1>0, <2>1, <2>2
<1>2. CASE Restarts
  <2>1. fpc' = "idle" /\ file_seq' = 0
    BY <1>2 DEF Restarts, FileRestarts, Places
  <2>2. Through' = sent /\ first' = sent
    BY <1>2, ThroughStep
  <2> QED
    BY <1>0, <2>1, <2>2
<1>3. CASE WriteMsg
  <2>1. ~DequeueMsg /\ ~Restarts
    BY <1>3 DEF WriteMsg, DequeueMsg, Restarts
  <2>2. Through' = Through /\ first' = first
    BY <2>1, ThroughStep
  <2>3. \/ fpc = "create" /\ fpc' = "check" /\ file_seq' = file_seq + 1
        \/ fpc = "recreate" /\ fpc' = "write" /\ file_seq' = file_seq + 1
        \/ fpc \in {"create", "recreate"} /\ fpc' = "idle" /\ file_seq' = file_seq + 1
        \/ fpc = "check" /\ fpc' \in {"recreate", "write"} /\ file_seq' = file_seq
        \/ fpc = "write" /\ fpc' = "stamp" /\ file_seq' = file_seq
        \/ fpc \in {"write", "stamp"} /\ fpc' = "idle" /\ file_seq' = file_seq
    BY <1>3 DEF WriteMsg, WriteSteps, CreateFile, CreateFails, KeepFile, CloseFile, Fwrite,
                FwriteFails, Stamp, FStep
  <2> QED
    BY <1>0, <2>2, <2>3
<1>4. CASE Killed
  <2>1. ~DequeueMsg /\ ~Restarts
    BY <1>4 DEF Killed, DequeueMsg, Restarts
  <2>2. Through' = Through /\ first' = first
    BY <2>1, ThroughStep
  <2>3. fpc' = "idle" /\ file_seq' = file_seq
    BY <1>4 DEF Killed, FileKilled
  <2> QED
    BY <1>0, <2>2, <2>3
<1>5. CASE UNCHANGED <<fpc, file_seq>>
  <2>1. CASE ~DequeueMsg /\ ~Restarts
    <3>1. Through' = Through /\ first' = first
      BY <2>1, ThroughStep
    <3> QED
      BY <1>0, <1>5, <3>1
  <2> QED
    BY <1>1, <1>2, <2>1
<1>6. CASE PutMsg \/ Stop \/ QueueEmpty \/ Goes \/ Wakes \/ Ends \/ ClockTicks
  <2>1. UNCHANGED <<fpc, file_seq>>
    BY <1>6 DEF PutMsg, Stop, QueueEmpty, Goes, Wakes, Ends, ClockTicks, fileVars
  <2> QED
    BY <1>5, <2>1
<1> QED
  BY <1>1, <1>2, <1>3, <1>4, <1>6, Steps DEF Made

(* The bound of the messages is one.                                        *)
LEMMA SentStep ==
  ASSUME EnoughNames, ThreadTypeOK, sent <= MaxMsgs, Next
  PROVE  sent' <= MaxMsgs
<1>1. CASE PutMsg
  BY <1>1 DEF PutMsg, EnoughNames, ThreadTypeOK
<1>2. CASE sent' = sent
  BY <1>2
<1> QED
  BY <1>1, <1>2, Steps DEF Stop, DequeueMsg, QueueEmpty, Goes, Wakes, Ends, Killed, Restarts,
     WriteMsg, Made, counts

(* While numbers are enough, the file that is made now gets the number      *)
(* itself.                                                                  *)
LEMMA NumberIs ==
  ASSUME EnoughNames, FileTypeOK, ThreadTypeOK, Queue, Names, Creating
  PROVE  FileName[2] = file_seq
<1>1. Through \in Nat /\ first \in Nat /\ file_seq \in Nat /\ sent \in Nat /\ Through <= sent
  BY DEF FileTypeOK, ThreadTypeOK, Queue, Through
<1>2. file_seq <= 2 * (Through - first) - 1
  BY <1>1 DEF Creating, Names, SeqBound, InUse
<1>3. /\ sent <= MaxMsgs /\ MaxMsgs \in Nat /\ 2 * MaxMsgs <= SeqNumbers /\ SeqNumbers \in Nat
  BY FileAssumption DEF Names, EnoughNames
<1>4. file_seq < SeqNumbers
  BY <1>1, <1>2, <1>3
<1> QED
  BY <1>4, NameIs

(* Programs follow one another, and each counts its files up.               *)
LEMMA RunStep ==
  ASSUME FileTypeOK, Next
  PROVE  /\ run \in Nat /\ run' \in {run, run + 1} /\ (~Restarts => run' = run)
         /\ (run' = run => Restarts \/ file_seq <= file_seq')
<1>1. run \in Nat /\ file_seq \in Nat
  BY DEF FileTypeOK
<1>2. CASE Restarts
  BY <1>1, <1>2 DEF Restarts, FileRestarts
<1>3. CASE WriteMsg
  BY <1>1, <1>3 DEF WriteMsg, WriteSteps, CreateFile, CreateFails, KeepFile, CloseFile, Fwrite,
                FwriteFails, Stamp, FStep
<1>4. CASE DequeueMsg \/ PutMsg \/ Stop \/ QueueEmpty \/ Goes \/ Wakes \/ ClockTicks
  BY <1>1, <1>4 DEF DequeueMsg, WriteData, PutMsg, Stop, QueueEmpty, Goes, Wakes, ClockTicks,
           fileVars, noted, FStep
<1>5. CASE Ends \/ Killed
  BY <1>1, <1>5 DEF Ends, Killed, noted
<1> QED
  BY <1>2, <1>3, <1>4, <1>5, Steps DEF Made

(* What a step does to the open file: there is none after it, or the same,  *)
(* or one just made.                                                        *)
LEMMA StreamStep ==
  ASSUME FileTypeOK, ThreadTypeOK, Places, LastMsg, Next
  PROVE  \/ stream' = NoFile
         \/ stream' = stream /\ file_seq' = file_seq /\ DOMAIN files' = DOMAIN files /\ ~Restarts
         \/ /\ Creating /\ stream' = FileName /\ file_seq' = file_seq + 1 /\ NewFile /\ run' = run
            /\ ~(WriteMsg /\ Fwrite)
<1>1. ASSUME NEW from \in {"create", "recreate"}, NEW to, CreateFile(from, to)
      PROVE  /\ Creating /\ stream' = FileName /\ file_seq' = file_seq + 1
             /\ NewFile /\ run' = run
             /\ ~(WriteMsg /\ Fwrite)
  BY <1>1, DirCreate DEF CreateFile, FStep, Creating, Fwrite
<1>2. CASE Ends \/ Killed \/ (WriteMsg /\ (CloseFile \/ CreateFails))
  BY <1>2 DEF Ends, FileCloses, Killed, FileKilled, CloseFile, CreateFails, FStep, Places
<1>3. CASE Restarts
  BY <1>3 DEF Restarts, FileRestarts, Places
<1>4. CASE (WriteMsg /\ Fwrite) \/ (WriteMsg /\ Stamp)
  <2>1. DOMAIN files' = DOMAIN files
    BY <1>4, NewEntryStep, DirStamp DEF Stamped
  <2> QED
    BY <1>3, <1>4, <2>1 DEF Fwrite, Stamp
<1>5. CASE WriteMsg /\ (KeepFile \/ FwriteFails)
  BY <1>3, <1>5 DEF KeepFile, FwriteFails
<1>6. CASE DequeueMsg \/ PutMsg \/ Stop \/ QueueEmpty \/ Goes \/ Wakes \/ ClockTicks
  BY <1>3, <1>6 DEF DequeueMsg, WriteData, PutMsg, Stop, QueueEmpty, Goes, Wakes, ClockTicks,
     fileVars
<1> QED
  BY <1>1, <1>2, <1>3, <1>4, <1>5, <1>6, Steps DEF Made

(* A file that the program has written to after a step is one before, or    *)
(* the open one, which the step has written to.                             *)
LEMMA OwnFileStep ==
  ASSUME FileTypeOK, ThreadTypeOK, Places, LastMsg, Marks, Next,
         NEW n \in DOMAIN files', OwnFile(n)'
  PROVE  /\ run' = run /\ n \in DOMAIN files
         /\ OwnFile(n) \/ (WriteMsg /\ Fwrite /\ n = stream /\ stream # NoFile
            /\ stream' = stream)
<1>1. PICK k \in DOMAIN files'[n] : files'[n][k].run = run'
  BY DEF OwnFile
<1>2. CASE WriteMsg /\ Fwrite
  <2>1. run' = run /\ stream' = stream /\ stream # NoFile
    BY <1>2 DEF Fwrite, FStep, Places, Open
  <2> QED
    BY <1>1, <1>2, <2>1, NewEntryStep DEF OwnFile
<1>3. CASE ~(WriteMsg /\ Fwrite)
  <2>1. OldEntry(n, k)
    BY <1>1, <1>3, OldEntriesStep DEF OldEntries
  <2>2. files[n][k].run <= run /\ files[n][k].run \in Nat /\ files[n][k].run = run'
    BY <1>1, <2>1, EntryType DEF Marks, OldEntry
  <2>3. run' = run
    BY <2>2, RunStep
  <2> QED
    BY <2>1, <2>2, <2>3 DEF OldEntry, OwnFile
<1> QED
  BY <1>2, <1>3

(* Marks is inductive.                                                      *)
LEMMA MarksStep ==
  ASSUME FileTypeOK, ThreadTypeOK, Places, LastMsg, Clocks, Marks, Next
  PROVE  Marks'
<1>1. stream' # NoFile => \A n \in DOMAIN files' : n[1] <= stream'[1]
  <2>1. CASE Creating /\ stream' = FileName /\ NewFile
    <3>1. FileName[1] = clock /\ clock <= clock
      BY NameIs DEF FileTypeOK
    <3> QED
      BY <2>1, <3>1 DEF NewFile, Clocks
  <2>2. CASE stream' = stream /\ DOMAIN files' = DOMAIN files
    BY <2>2 DEF Marks
  <2> QED
    BY <2>1, <2>2, StreamStep
<1>2. ASSUME NEW n \in DOMAIN files', NEW k \in DOMAIN files'[n]
      PROVE  files'[n][k].run <= run'
  <2>1. CASE WriteMsg /\ Fwrite
    <3>1. run' = run /\ run <= run
      BY <2>1 DEF Fwrite, FStep, FileTypeOK
    <3> QED
      BY <2>1, <3>1, NewEntryStep DEF Entered, Marks
  <2>2. CASE ~(WriteMsg /\ Fwrite)
    <3>1. OldEntry(n, k)
      BY <2>2, OldEntriesStep DEF OldEntries
    <3>2. files[n][k].run <= run /\ files[n][k].run \in Nat
      BY <3>1, EntryType DEF Marks, OldEntry
    <3> QED
      BY <3>1, <3>2, RunStep DEF OldEntry
  <2> QED
    BY <2>1, <2>2
<1> QED
  BY <1>1, <1>2 DEF Marks

(* Names is inductive while numbers are enough.                             *)
LEMMA NamesStep ==
  ASSUME EnoughNames, FileTypeOK, ThreadTypeOK, Queue, Places, LastMsg, Marks, Names, Next
  PROVE  Names'
<1>1. SeqBound'
  BY SeqBoundStep DEF Names
<1>2. sent' <= MaxMsgs
  BY SentStep DEF Names
<1>3. stream' # NoFile => stream'[2] + 1 = file_seq'
  <2>1. CASE Creating /\ stream' = FileName /\ file_seq' = file_seq + 1
    BY <2>1, NumberIs
  <2>2. CASE stream' = stream /\ file_seq' = file_seq
    BY <2>2 DEF Names
  <2> QED
    BY <2>1, <2>2, StreamStep
<1>4. ASSUME NEW n \in DOMAIN files', OwnFile(n)'
      PROVE  n[2] < file_seq'
  <2>1. run' = run /\ n \in DOMAIN files /\ n[2] \in Nat /\ file_seq \in Nat
    BY <1>4, OwnFileStep, NameType DEF FileTypeOK
  <2>2. file_seq <= file_seq' /\ file_seq' \in Nat
    <3>1. ~Restarts
      BY <2>1 DEF Restarts, FileRestarts, FileTypeOK
    <3> QED
      BY <2>1, <3>1, RunStep, FileTypeStep DEF FileTypeOK
  <2>3. n[2] < file_seq
    <3>1. CASE OwnFile(n)
      BY <2>1, <3>1 DEF Names
    <3>2. CASE n = stream /\ stream # NoFile
      BY <2>1, <3>2 DEF Names
    <3> QED
      BY <1>4, <3>1, <3>2, OwnFileStep
  <2> QED
    BY <2>1, <2>2, <2>3
<1> QED
  BY <1>1, <1>2, <1>3, <1>4 DEF Names

(* While numbers are enough the name of a file that is made comes last,     *)
LEMMA NamesInRound ==
  ASSUME EnoughNames, FileTypeOK, ThreadTypeOK, Queue, Clocks, Names
  PROVE  InRound
<1> SUFFICES ASSUME Creating, NEW n \in DOMAIN files, OwnFile(n)
             PROVE  NameBefore(n, FileName)
  BY DEF InRound
<1>1. FileName[2] = file_seq /\ FileName[1] = clock
  BY NumberIs, NameIs
<1>2. n[1] <= clock /\ n[2] < file_seq
  BY DEF Clocks, Names
<1>3. n[1] \in Nat /\ clock \in Nat
  BY NameType DEF FileTypeOK
<1> QED
  BY <1>1, <1>2, <1>3 DEF NameBefore

(* and one that comes last is another one.                                  *)
LEMMA InRoundAnew ==
  ASSUME FileTypeOK, InRound
  PROVE  Anew
<1> SUFFICES ASSUME Creating, NEW n \in DOMAIN files, OwnFile(n)
             PROVE  n # FileName
  BY DEF Anew
<1>1. NameBefore(n, FileName)
  BY DEF InRound
<1>2. n[1] \in Nat /\ n[2] \in Nat
  BY NameType
<1> QED
  BY <1>1, <1>2 DEF NameBefore

(* Newest is inductive while numbers do not come round.                     *)
LEMMA NewestStep ==
  ASSUME FileTypeOK, ThreadTypeOK, Places, LastMsg, Marks, Newest, InRound, Next
  PROVE  Newest'
<1> SUFFICES ASSUME stream' # NoFile, NEW n \in DOMAIN files', OwnFile(n)'
             PROVE  n = stream' \/ NameBefore(n, stream')
  BY DEF Newest, NameBefore
<1>1. /\ n \in DOMAIN files
      /\ OwnFile(n) \/ (WriteMsg /\ Fwrite /\ n = stream /\ stream' = stream)
  BY OwnFileStep
<1>2. CASE n = stream /\ stream' = stream
  BY <1>2
<1>3. CASE OwnFile(n)
  <2>1. CASE Creating /\ stream' = FileName
    BY <1>1, <1>3, <2>1 DEF InRound
  <2>2. CASE stream' = stream
    BY <1>1, <1>3, <2>2 DEF Newest
  <2> QED
    BY <2>1, <2>2, StreamStep
<1> QED
  BY <1>1, <1>2, <1>3

(* Ordered is inductive: the message of a write is the greatest, and the    *)
(* file that it goes to comes after the program's others.                   *)
LEMMA OrderedStep ==
  ASSUME FileTypeOK, ThreadTypeOK, Queue, Places, LastMsg, Marks, Newest, Older, Ordered, Next
  PROVE  Ordered'
<1> SUFFICES ASSUME NEW n \in DOMAIN files', NEW m \in DOMAIN files',
                    NEW k \in DOMAIN files'[n], NEW l \in DOMAIN files'[m],
                    NameBefore(n, m) \/ (n = m /\ k < l),
                    n[1] = m[1] => files'[n][k].run = files'[m][l].run
             PROVE  files'[n][k].msg < files'[m][l].msg
  BY DEF Ordered, NameBefore
<1>1. CASE WriteMsg /\ Fwrite
  <2>1. n \in DOMAIN files /\ m \in DOMAIN files
    BY <1>1, NewEntryStep
  <2>2. n[1] \in Nat /\ n[2] \in Nat /\ m[1] \in Nat /\ m[2] \in Nat
    BY <2>1, NameType
  <2>3. CASE k \in DOMAIN files[n] /\ l \in DOMAIN files[m]
    <3>1. files'[n][k] = files[n][k] /\ files'[m][l] = files[m][l]
      BY <1>1, <2>1, <2>3, NewEntryStep
    <3> QED
      BY <2>1, <2>3, <3>1 DEF Ordered
  <2>4. CASE k \in DOMAIN files[n] /\ l \notin DOMAIN files[m]
    <3>1. files'[n][k] = files[n][k] /\ files'[m][l] = Entered
      BY <1>1, <2>1, <2>4, NewEntryStep
    <3>2. files[n][k].msg <= Done /\ files[n][k].msg \in Nat
      BY <2>1, <2>4, EntryType DEF Older
    <3>3. Done < msg /\ Done \in Int /\ msg \in Nat
      BY <1>1, DoneStep DEF FileTypeOK
    <3> QED
      BY <3>1, <3>2, <3>3 DEF Entered
  <2>5. CASE k \notin DOMAIN files[n]
    <3>1. n = stream /\ k = Len(files[stream]) + 1 /\ files'[n][k] = Entered
      BY <1>1, <2>1, <2>5, NewEntryStep
    <3>2. stream # NoFile
      BY <1>1 DEF Fwrite, FStep, Places, Open
    <3>3. m[1] <= n[1]
      BY <2>1, <3>1, <3>2 DEF Marks
    <3>4. CASE n = m
      <4>1. l \in DOMAIN files[stream] \cup {k} /\ k \in Nat
            /\ \A j \in DOMAIN files[stream] : j \in Nat /\ j < k
        BY <1>1, <3>1, <3>4, NewEntryStep
      <4>2. ~(k < l)
        BY <4>1
      <4>3. ~NameBefore(n, m)
        BY <2>2, <3>4 DEF NameBefore
      <4> QED
        BY <4>2, <4>3
    <3>5. CASE n # m
      <4>1. NameBefore(n, m)
        BY <3>5
      <4>2. n[1] = m[1] /\ n[2] < m[2]
        BY <2>2, <3>3, <4>1 DEF NameBefore
      <4>3. l \in DOMAIN files[m] /\ files'[m][l] = files[m][l]
        BY <1>1, <2>1, <3>1, <3>5, NewEntryStep
      <4>4. OwnFile(m)
        BY <3>1, <4>2, <4>3 DEF Entered, OwnFile
      <4>5. NameBefore(m, n)
        BY <2>1, <3>1, <3>2, <3>5, <4>4 DEF Newest
      <4> QED
        BY <2>2, <4>2, <4>5 DEF NameBefore
    <3> QED
      BY <3>4, <3>5
  <2> QED
    BY <2>3, <2>4, <2>5
<1>2. CASE ~(WriteMsg /\ Fwrite)
  <2>1. OldEntry(n, k) /\ OldEntry(m, l)
    BY <1>2, OldEntriesStep DEF OldEntries
  <2> QED
    BY <2>1 DEF OldEntry, Ordered
<1> QED
  BY <1>1, <1>2

-----------------------------------------------------------------------------
(* What a program has written to a file can be counted.                     *)
LEMMA OwnFinite ==
  ASSUME NEW f \in Seq(Entry), NEW r
  PROVE  /\ Own(f, r) \subseteq DOMAIN f /\ IsFiniteSet(Own(f, r)) /\ IsFiniteSet(DOMAIN f)
         /\ Cardinality(Own(f, r)) \in Nat
<1>1. DOMAIN f = 1 .. Len(f) /\ Len(f) \in Int
  OBVIOUS
<1>2. IsFiniteSet(DOMAIN f)
  BY <1>1, FS_Interval
<1>3. Own(f, r) \in SUBSET DOMAIN f
  BY DEF Own
<1>4. IsFiniteSet(Own(f, r))
  BY <1>2, <1>3, FS_Subset
<1> QED
  BY <1>2, <1>3, <1>4, FS_CardinalityType

(* More messages have more bytes.                                           *)
LEMMA BytesMono ==
  ASSUME NEW f, NEW T, IsFiniteSet(T), NEW S \in SUBSET T
  PROVE  BytesOf(f, S) \in Nat /\ BytesOf(f, T) \in Nat /\ BytesOf(f, S) <= BytesOf(f, T)
<1> DEFINE long(X) == {i \in X : f[i].msg \in Long}
<1>1. IsFiniteSet(S) /\ Cardinality(S) <= Cardinality(T)
  BY FS_Subset
<1>2. long(T) \in SUBSET T /\ long(S) \in SUBSET long(T)
  OBVIOUS
<1>3. IsFiniteSet(long(T))
  BY <1>2, FS_Subset
<1>4. IsFiniteSet(long(S)) /\ Cardinality(long(S)) <= Cardinality(long(T))
  BY <1>2, <1>3, FS_Subset
<1>5. /\ Cardinality(S) \in Nat /\ Cardinality(T) \in Nat
      /\ Cardinality(long(S)) \in Nat /\ Cardinality(long(T)) \in Nat
  BY <1>1, <1>3, <1>4, FS_CardinalityType
<1>6. BytesOf(f, S) = Cardinality(S) + 2 * Cardinality(long(S))
      /\ BytesOf(f, T) = Cardinality(T) + 2 * Cardinality(long(T))
  BY DEF BytesOf
<1> HIDE DEF long
<1> QED
  BY <1>1, <1>4, <1>5, <1>6

(* The bytes are those of the messages, whatever file they are in.          *)
LEMMA BytesSame ==
  ASSUME NEW f, NEW g, NEW S, \A i \in S : g[i].msg = f[i].msg
  PROVE  BytesOf(g, S) = BytesOf(f, S)
<1>1. {i \in S : g[i].msg \in Long} = {i \in S : f[i].msg \in Long}
  OBVIOUS
<1> QED
  BY <1>1 DEF BytesOf

(* A file that a program has not written to is within its limits.           *)
LEMMA NoneOwn ==
  ASSUME NEW f \in Seq(Entry), NEW r, \A k \in DOMAIN f : f[k].run # r
  PROVE  Own(f, r) = {} /\ Cardinality(Own(f, r)) = 0 /\ BytesOf(f, Own(f, r)) = 0
         /\ Within(f, Own(f, r))
<1>1. Own(f, r) = {}
  BY DEF Own
<1>2. Cardinality({}) = 0
  BY FS_EmptySet
<1>3. BytesOf(f, {}) = 0
  <2>1. {i \in {} : f[i].msg \in Long} = {}
    OBVIOUS
  <2> QED
    BY <1>2, <2>1 DEF BytesOf
<1>4. MaxLine \in Nat
  BY FileAssumption
<1> QED
  BY <1>1, <1>2, <1>3, <1>4 DEF Within

(* So is a file with the same messages as one that is.                      *)
LEMMA SameWithin ==
  ASSUME NEW f, NEW g, DOMAIN g = DOMAIN f,
         \A k \in DOMAIN f : g[k].msg = f[k].msg /\ g[k].run = f[k].run,
         NEW r
  PROVE  /\ Own(g, r) = Own(f, r)
         /\ BytesOf(g, Own(g, r)) = BytesOf(f, Own(f, r))
         /\ Within(f, Own(f, r)) => Within(g, Own(g, r))
<1>1. Own(g, r) = Own(f, r)
  BY DEF Own
<1>2. \A S \in SUBSET Own(f, r) : BytesOf(g, S) = BytesOf(f, S)
  BY BytesSame DEF Own
<1>3. \A i \in Own(f, r) : Own(f, r) \ {i} \in SUBSET Own(f, r)
  OBVIOUS
<1> QED
  BY <1>1, <1>2, <1>3 DEF Within

(* A file that was below its limits is within them with one message more.   *)
LEMMA MoreWithin ==
  ASSUME NEW f \in Seq(Entry), NEW e \in Entry, NEW g, g = Append(f, e),
         NEW r
  PROVE  /\ e.run # r => Own(g, r) = Own(f, r) /\ (Within(f, Own(f, r)) => Within(g, Own(g, r)))
         /\ /\ e.run = r
            /\ Cardinality(Own(f, r)) < MaxLine /\ BytesOf(f, Own(f, r)) < MaxSize
            => Within(g, Own(g, r))
<1> DEFINE L == Len(f) + 1
<1>1. /\ DOMAIN g = DOMAIN f \cup {L} /\ g[L] = e
      /\ \A k \in DOMAIN f : k < L /\ g[k] = f[k]
  BY AppendIs
<1>2. L \in Nat /\ L \notin DOMAIN f /\ \A k \in DOMAIN f : k \in Nat
  OBVIOUS
<1> HIDE DEF L
<1>3. \A S \in SUBSET DOMAIN f : BytesOf(g, S) = BytesOf(f, S)
  BY <1>1, BytesSame
<1>4. /\ Own(f, r) \subseteq DOMAIN f /\ IsFiniteSet(Own(f, r)) /\ Cardinality(Own(f, r)) \in Nat
  BY OwnFinite
<1>5. CASE e.run # r
  <2>1. Own(g, r) = Own(f, r)
    BY <1>1, <1>2, <1>5 DEF Own
  <2>2. \A i \in Own(f, r) : BytesOf(g, Own(f, r) \ {i}) = BytesOf(f, Own(f, r) \ {i})
    BY <1>3, <1>4
  <2> QED
    BY <1>5, <2>1, <2>2 DEF Within
<1>6. CASE e.run = r
  <2>1. Own(g, r) = Own(f, r) \cup {L}
    BY <1>1, <1>2, <1>6 DEF Own
  <2>2. Cardinality(Own(g, r)) = Cardinality(Own(f, r)) + 1
    BY <1>2, <1>4, <2>1, FS_AddElement
  <2>3. ASSUME Cardinality(Own(f, r)) < MaxLine, BytesOf(f, Own(f, r)) < MaxSize
        PROVE  Within(g, Own(g, r))
    <3>1. Cardinality(Own(g, r)) <= MaxLine
      BY <1>4, <2>2, <2>3, FileAssumption
    <3>2. ASSUME NEW last \in Own(g, r), \A i \in Own(g, r) : i <= last
          PROVE  BytesOf(g, Own(g, r) \ {last}) < MaxSize
      <4>1. last = L
        BY <1>1, <1>2, <1>4, <2>1, <3>2
      <4>2. Own(g, r) \ {L} = Own(f, r)
        BY <1>2, <1>4, <2>1
      <4> QED
        BY <1>3, <1>4, <2>3, <4>1, <4>2
    <3> QED
      BY <3>1, <3>2 DEF Within
  <2> QED
    BY <1>6, <2>3
<1> QED
  BY <1>5, <1>6

(* A file within its limits is so with the last message lost: then the      *)
(* bytes before the last are less than those before the lost one.           *)
LEMMA LessWithin ==
  ASSUME NEW f \in Seq(Entry), NEW d \in 0 .. 1, NEW g, g = SubSeq(f, 1, Len(f) - d),
         NEW r, Within(f, Own(f, r))
  PROVE  Within(g, Own(g, r))
<1>1. /\ g \in Seq(Entry) /\ DOMAIN g = {k \in DOMAIN f : k <= Len(f) - d}
      /\ \A k \in DOMAIN g : g[k] = f[k]
  BY CutIs
<1>2. \A k \in DOMAIN f : k \in Nat /\ k <= Len(f)
  OBVIOUS
<1>3. Len(f) \in Nat
  OBVIOUS
<1>4. /\ Own(f, r) \subseteq DOMAIN f /\ IsFiniteSet(Own(f, r)) /\ Cardinality(Own(f, r)) \in Nat
      /\ Own(g, r) \subseteq DOMAIN g /\ IsFiniteSet(Own(g, r)) /\ Cardinality(Own(g, r)) \in Nat
  BY <1>1, OwnFinite
<1>5. Own(g, r) = {k \in Own(f, r) : k <= Len(f) - d}
  BY <1>1 DEF Own
<1>6. \A S \in SUBSET DOMAIN g : BytesOf(g, S) = BytesOf(f, S)
  BY <1>1, BytesSame
<1>7. Own(g, r) \in SUBSET Own(f, r)
  BY <1>5
<1>8. Cardinality(Own(g, r)) <= MaxLine
  <2>1. Cardinality(Own(g, r)) <= Cardinality(Own(f, r)) /\ Cardinality(Own(f, r)) <= MaxLine
    BY <1>4, <1>7, FS_Subset DEF Within
  <2> QED
    BY <1>4, <2>1, FileAssumption
<1>9. ASSUME NEW last \in Own(g, r), \A i \in Own(g, r) : i <= last
      PROVE  BytesOf(g, Own(g, r) \ {last}) < MaxSize
  <2>0. BytesOf(g, Own(g, r) \ {last}) = BytesOf(f, Own(g, r) \ {last})
    BY <1>4, <1>6
  <2>1. CASE Own(g, r) = Own(f, r)
    BY <1>9, <2>0, <2>1 DEF Within
  <2>2. CASE Own(g, r) # Own(f, r)
    <3>1. PICK top \in Own(f, r) : top \notin Own(g, r)
      BY <1>7, <2>2
    <3>2. top = Len(f) /\ d = 1
      BY <1>2, <1>3, <1>4, <1>5, <3>1
    <3>3. \A i \in Own(f, r) : i <= top
      BY <1>2, <1>4, <3>2
    <3>4. BytesOf(f, Own(f, r) \ {top}) < MaxSize
      BY <3>3 DEF Within
    <3>5. Own(f, r) \ {top} = Own(g, r)
      BY <1>2, <1>3, <1>4, <1>5, <3>2
    <3>6. Own(g, r) \ {last} \in SUBSET Own(g, r)
      OBVIOUS
    <3>7. BytesOf(f, Own(g, r) \ {last}) <= BytesOf(f, Own(g, r))
          /\ BytesOf(f, Own(g, r)) \in Nat /\ BytesOf(f, Own(g, r) \ {last}) \in Nat
      BY <1>4, <3>6, BytesMono
    <3>8. MaxSize \in Nat /\ BytesOf(f, Own(g, r)) < MaxSize
      BY <3>4, <3>5, FileAssumption
    <3> QED
      BY <2>0, <3>7, <3>8
  <2> QED
    BY <2>1, <2>2
<1> QED
  BY <1>8, <1>9 DEF Within

(* A message more is one more of its program.                               *)
LEMMA OneMore ==
  ASSUME NEW f \in Seq(Entry), NEW e \in Entry
  PROVE  Cardinality(Own(Append(f, e), e.run)) = Cardinality(Own(f, e.run)) + 1
<1> DEFINE L == Len(f) + 1
           g == Append(f, e)
           r == e.run
<1>1. /\ DOMAIN g = DOMAIN f \cup {L} /\ g[L] = e
      /\ \A k \in DOMAIN f : k < L /\ g[k] = f[k]
  BY AppendIs
<1>2. L \in Nat /\ L \notin DOMAIN f
  OBVIOUS
<1>3. e.run = r
  OBVIOUS
<1> HIDE DEF L, g, r
<1>4. Own(f, r) \subseteq DOMAIN f /\ IsFiniteSet(Own(f, r))
  BY OwnFinite
<1>5. Own(g, r) = Own(f, r) \cup {L}
  BY <1>1, <1>2, <1>3 DEF Own
<1>6. Cardinality(Own(g, r)) = Cardinality(Own(f, r)) + 1
  BY <1>2, <1>4, <1>5, FS_AddElement
<1> QED
  BY <1>6 DEF g, r

(* MoreWithin for the limits of any program.                                *)
LEMMA OneMoreWithin ==
  ASSUME NEW f \in Seq(Entry), NEW e \in Entry, NEW r, Within(f, Own(f, r)),
         Cardinality(Own(f, e.run)) < MaxLine, BytesOf(f, Own(f, e.run)) < MaxSize
  PROVE  Within(Append(f, e), Own(Append(f, e), r))
<1> DEFINE g == Append(f, e)
<1>1. g = Append(f, e)
  OBVIOUS
<1> HIDE DEF g
<1>2. CASE e.run = r
  BY <1>1, <1>2, MoreWithin
<1>3. CASE e.run # r
  BY <1>1, <1>3, MoreWithin
<1> QED
  BY <1>2, <1>3 DEF g

(* No step leaves a file beyond its limits.                                 *)
LEMMA LimitsStep ==
  ASSUME FileTypeOK, ThreadTypeOK, Places, LastMsg, Marks, Counted, LimitsKept, Next
  PROVE  LimitsKept'
<1> SUFFICES ASSUME NEW n \in DOMAIN files', NEW r \in 0 .. run'
             PROVE  Within(files'[n], Own(files'[n], r))
  BY DEF LimitsKept, Within, Own, BytesOf
<1>0. run \in Nat /\ run' \in {run, run + 1}
  BY RunStep
<1>1. \A m \in DOMAIN files : files[m] \in Seq(Entry) /\ Within(files[m], Own(files[m], r))
  <2> SUFFICES ASSUME NEW m \in DOMAIN files
               PROVE  files[m] \in Seq(Entry) /\ Within(files[m], Own(files[m], r))
    OBVIOUS
  <2>1. files[m] \in Seq(Entry)
    BY DEF FileTypeOK
  <2>2. CASE r \in 0 .. run
    BY <2>1, <2>2 DEF LimitsKept
  <2>3. CASE r \notin 0 .. run
    <3>1. r = run + 1
      BY <1>0, <2>3
    <3>2. \A k \in DOMAIN files[m] : files[m][k].run # r
      <4> SUFFICES ASSUME NEW k \in DOMAIN files[m]
                   PROVE  files[m][k].run # r
        OBVIOUS
      <4>1. files[m][k].run <= run /\ files[m][k].run \in Nat
        BY EntryType DEF Marks
      <4> QED
        BY <1>0, <3>1, <4>1
    <3> QED
      BY <2>1, <3>2, NoneOwn
  <2> QED
    BY <2>2, <2>3
<1>2. CASE files' = files
  BY <1>1, <1>2
<1>3. CASE WriteMsg /\ Fwrite
  <2>1. Appended /\ Entered \in Entry /\ Entered.run = run
    BY <1>3, DirWrite DEF Entered, Entry, FileTypeOK
  <2>2. CASE n # stream
    BY <1>1, <2>1, <2>2 DEF Appended
  <2>3. CASE n = stream
    <3>1. n \in DOMAIN files /\ files'[n] = Append(files[n], Entered)
      BY <2>1, <2>3 DEF Appended
    <3>2. /\ Cardinality(Own(files[n], run)) < MaxLine
          /\ BytesOf(files[n], Own(files[n], run)) < MaxSize
      <4>1. fpc = "write" /\ stream # NoFile /\ cur_file_line \in Nat
        BY <1>3 DEF Fwrite, FStep, Places, Open, FileTypeOK
      <4> QED
        BY <2>3, <4>1 DEF Counted
    <3> QED
      BY <1>1, <2>1, <3>1, <3>2, OneMoreWithin
  <2> QED
    BY <2>2, <2>3
<1>4. CASE WriteMsg /\ Stamp
  <2>1. Stamped
    BY <1>4, DirStamp
  <2>2. CASE n # stream
    BY <1>1, <2>1, <2>2 DEF Stamped
  <2>3. CASE n = stream
    <3>1. stream \in DOMAIN files /\ files[stream] \in Seq(Entry) /\ files[stream] # <<>>
          /\ clock \in Nat
      BY <2>1 DEF Stamped, FileTypeOK
    <3>2. /\ DOMAIN files'[n] = DOMAIN files[n]
          /\ \A k \in DOMAIN files[n] :
                files'[n][k].msg = files[n][k].msg /\ files'[n][k].run = files[n][k].run
      BY <2>1, <2>3, <3>1, StampIs DEF Stamped
    <3> QED
      BY <1>1, <2>3, <3>1, <3>2, SameWithin
  <2> QED
    BY <2>2, <2>3
<1>5. CASE Made("create", "check") \/ Made("recreate", "write")
  <2>1. NewFile
    BY <1>5, DirCreate DEF Made
  <2>2. CASE n \in DOMAIN files
    BY <1>1, <2>1, <2>2 DEF NewFile
  <2>3. CASE n \notin DOMAIN files
    <3>1. files'[n] = <<>> /\ <<>> \in Seq(Entry) /\ DOMAIN <<>> = {}
      BY <2>1, <2>3 DEF NewFile
    <3>2. Within(<<>>, Own(<<>>, r))
      BY <3>1, NoneOwn
    <3> QED
      BY <3>1, <3>2
  <2> QED
    BY <2>2, <2>3
<1>6. CASE Killed
  <2>1. CASE stream = NoFile
    BY <1>2, <1>6, <2>1 DEF Killed, FileKilled
  <2>2. CASE stream # NoFile
    <3>1. Cut
      BY <1>6, <2>2, DirKilled
    <3>2. CASE n # stream
      BY <1>1, <3>1, <3>2 DEF Cut
    <3>3. CASE n = stream
      <4>1. PICK d \in 0 .. buffered :
              files'[stream] = SubSeq(files[stream], 1, Len(files[stream]) - d)
        BY <3>1 DEF Cut
      <4>2. d \in 0 .. 1 /\ stream \in DOMAIN files
        BY <3>1 DEF FileTypeOK, Cut
      <4> QED
        BY <1>1, <3>3, <4>1, <4>2, LessWithin
    <3> QED
      BY <3>2, <3>3
  <2> QED
    BY <2>1, <2>2
<1>7. CASE WriteMsg /\ (CreateFails \/ KeepFile \/ CloseFile \/ FwriteFails)
  BY <1>2, <1>7 DEF CreateFails, KeepFile, CloseFile, FwriteFails
<1>8. CASE PutMsg \/ Stop \/ QueueEmpty \/ Goes \/ Wakes \/ DequeueMsg
  BY <1>2, <1>8 DEF PutMsg, Stop, QueueEmpty, Goes, Wakes, DequeueMsg, WriteData, fileVars
<1>9. CASE Ends \/ Restarts \/ ClockTicks
  BY <1>2, <1>9 DEF Ends, Restarts, FileRestarts, ClockTicks
<1> QED
  BY <1>3, <1>4, <1>5, <1>6, <1>7, <1>8, <1>9, Steps

(* Counted is inductive, if a file that is made is new to the program: its  *)
(* count starts from 0.                                                     *)
LEMMA CountedStep ==
  ASSUME FileTypeOK, ThreadTypeOK, Places, LastMsg, Anew, Counted, Next
  PROVE  Counted'
<1>0. cur_file_line \in Nat /\ run \in Nat
  BY DEF FileTypeOK
<1>1. CASE WriteMsg /\ Fwrite
  <2>1. Appended /\ Entered \in Entry /\ Entered.run = run
    BY <1>1, DirWrite DEF Entered, Entry, FileTypeOK
  <2>2. /\ stream \in DOMAIN files /\ files[stream] \in Seq(Entry)
        /\ files'[stream] = Append(files[stream], Entered)
    BY <2>1 DEF Appended, FileTypeOK
  <2>3. Cardinality(Own(files'[stream], run)) = Cardinality(Own(files[stream], run)) + 1
    BY <2>1, <2>2, OneMore
  <2>4. /\ fpc = "write" /\ fpc' = "stamp" /\ stream' = stream /\ cur_file_line' = cur_file_line
        /\ run' = run /\ stream # NoFile
    BY <1>1 DEF Fwrite, FStep, Places, Open
  <2> QED
    BY <1>0, <2>3, <2>4 DEF Counted
<1>2. CASE WriteMsg /\ Stamp
  <2>1. Stamped /\ stream \in DOMAIN files /\ files[stream] \in Seq(Entry) /\ files[stream] # <<>>
        /\ clock \in Nat
    BY <1>2, DirStamp DEF Stamped, FileTypeOK
  <2>2. /\ DOMAIN files'[stream] = DOMAIN files[stream]
        /\ \A k \in DOMAIN files[stream] :
              /\ files'[stream][k].msg = files[stream][k].msg
              /\ files'[stream][k].run = files[stream][k].run
    BY <2>1, StampIs DEF Stamped
  <2>3. Own(files'[stream], run) = Own(files[stream], run)
    BY <2>2, SameWithin
  <2>4. /\ fpc = "stamp" /\ fpc' = "idle" /\ stream' = stream
           /\ cur_file_line' = cur_file_line + 1
        /\ run' = run /\ stream # NoFile
    BY <1>2 DEF Stamp, FStep, Places, Open
  <2> QED
    BY <1>0, <2>3, <2>4 DEF Counted
<1>3. ASSUME NEW from \in {"create", "recreate"}, NEW to \in {"check", "write"},
             WriteMsg, CreateFile(from, to)
      PROVE  Counted'
  <2>1. /\ fpc = from /\ fpc' = to /\ stream' = FileName /\ file_seq' = file_seq + 1 /\ run' = run
        /\ cur_file_line' = cur_file_line /\ cur_file_line = 0
    BY <1>3 DEF CreateFile, FStep, Places, WriteMsg
  <2>2. Creating
    BY <2>1 DEF Creating
  <2>3. NewFile
    BY <1>3, DirCreate
  <2>4. files'[FileName] \in Seq(Entry)
        /\ \A k \in DOMAIN files'[FileName] : files'[FileName][k].run # run
    <3>1. CASE FileName \in DOMAIN files
      <4>1. files'[FileName] = files[FileName]
        BY <2>3, <3>1 DEF NewFile
      <4> QED
        BY <2>2, <3>1, <4>1 DEF Anew, OwnFile, FileTypeOK
    <3>2. CASE FileName \notin DOMAIN files
      <4>1. files'[FileName] = <<>>
        BY <2>3, <3>2 DEF NewFile
      <4> QED
        BY <4>1
    <3> QED
      BY <3>1, <3>2
  <2>5. Cardinality(Own(files'[FileName], run)) = 0
        /\ BytesOf(files'[FileName], Own(files'[FileName], run)) = 0
    BY <2>4, NoneOwn
  <2>6. 0 < MaxLine /\ 0 < MaxSize
    BY FileAssumption
  <2> QED
    BY <2>1, <2>5, <2>6 DEF Counted
<1>4. CASE WriteMsg /\ KeepFile
  <2>1. /\ fpc = "check" /\ fpc' = "write" /\ ~FileIsFull /\ stream # NoFile
        /\ UNCHANGED <<stream, files, cur_file_line, run>>
    BY <1>4 DEF KeepFile, FStep, Places, Open
  <2>2. cur_file_line < MaxLine /\ MaxLine \in Nat /\ MaxSize \in Nat
    BY <1>0, <2>1, FileAssumption DEF FileIsFull
  <2>3. files[stream] \in Seq(Entry)
    BY <2>1 DEF FileTypeOK
  <2>4. /\ BytesOf(files[stream], Own(files[stream], run))
             <= BytesOf(files[stream], DOMAIN files[stream])
        /\ BytesOf(files[stream], Own(files[stream], run)) \in Nat
        /\ BytesOf(files[stream], DOMAIN files[stream]) \in Nat
    BY <2>3, OwnFinite, BytesMono
  <2>5. ~(BytesOf(files[stream], DOMAIN files[stream]) >= MaxSize)
    BY <2>1 DEF FileIsFull, Bytes
  <2>6. BytesOf(files[stream], Own(files[stream], run)) < MaxSize
    BY <2>2, <2>4, <2>5
  <2> QED
    BY <2>1, <2>2, <2>6 DEF Counted
<1>5. CASE stream' = NoFile /\ fpc' # "write"
  BY <1>5 DEF Counted
<1>6. CASE UNCHANGED <<stream, files, cur_file_line, run>> /\ fpc # "stamp"
           /\ fpc' \notin {"stamp", "write"}
  BY <1>6 DEF Counted
<1>7. CASE UNCHANGED <<stream, files, cur_file_line, run, fpc>>
  BY <1>7 DEF Counted
<1>8. CASE WriteMsg /\ (CreateFails \/ CloseFile)
  BY <1>5, <1>8 DEF CreateFails, CloseFile, FStep, Places
<1>9. CASE (WriteMsg /\ FwriteFails) \/ DequeueMsg
  BY <1>6, <1>9 DEF FwriteFails, DequeueMsg, WriteData, FStep
<1>10. CASE Ends \/ Killed \/ Restarts
  BY <1>5, <1>10 DEF Ends, FileCloses, Killed, FileKilled, Restarts, FileRestarts, Places
<1>11. CASE PutMsg \/ Stop \/ QueueEmpty \/ Goes \/ Wakes \/ ClockTicks
  BY <1>7, <1>11 DEF PutMsg, Stop, QueueEmpty, Goes, Wakes, ClockTicks, fileVars, noted
<1> QED
  BY <1>1, <1>2, <1>3, <1>4, <1>8, <1>9, <1>10, <1>11, Steps DEF Made

-----------------------------------------------------------------------------
(* The hours of times in order are in order.                                *)
LEMMA HourMono ==
  ASSUME NEW s \in Nat, NEW t \in Nat
  PROVE  HourOf(s) \in Int /\ (s <= t => HourOf(s) <= HourOf(t))
<1>1. Hour \in Nat \ {0}
  BY FileAssumption
<1> QED
  BY <1>1, DivInt, DivMono DEF HourOf

(* The file of a message is not of an hour before the call that wrote it.   *)
Late(n, k) == HourOf(files[n][k].began) <= HourOf(n[1])

(* HourKept of a message.                                                   *)
HourKeptAt(n, k) == Late(n, k) \/ \E j \in DOMAIN files[n] : j < k /\ Kept(n, j)

(* HourKept is that of all messages.                                        *)
LEMMA HourKeptIs ==
  HourKept <=> \A n \in DOMAIN files : \A k \in DOMAIN files[n] : HourKeptAt(n, k)
  BY DEF HourKept, HourKeptAt, Late

(* No step breaks HourKept: the call that writes has seen that its file is  *)
(* of its hour, or excused.                                                 *)
LEMMA HourKeptStep ==
  ASSUME FileTypeOK, ThreadTypeOK, Places, LastMsg, Hours, HourKept, Next
  PROVE  HourKept'
<1>0. \A n \in DOMAIN files : \A k \in DOMAIN files[n] : HourKeptAt(n, k)
  BY HourKeptIs
<1>1. CASE files' = files
  BY <1>1 DEF HourKept, Kept
<1>2. CASE WriteMsg /\ Fwrite
  <2> SUFFICES ASSUME NEW n \in DOMAIN files', NEW k \in DOMAIN files'[n]
               PROVE  HourKeptAt(n, k)'
    BY DEF HourKeptAt, HourKept, Late
  <2>1. /\ n \in DOMAIN files
        /\ \A j \in DOMAIN files[n] : j \in DOMAIN files'[n] /\ files'[n][j] = files[n][j]
    BY <1>2, NewEntryStep
  <2>2. CASE k \in DOMAIN files[n]
    BY <1>0, <2>1, <2>2 DEF HourKeptAt, Late, Kept
  <2>3. CASE k \notin DOMAIN files[n]
    <3>1. n = stream /\ files'[n][k] = Entered /\ \A j \in DOMAIN files[n] : j < k
      BY <1>2, <2>1, <2>3, NewEntryStep
    <3>2. Excused(began) /\ Entered.began = began
      BY <1>2 DEF Fwrite, FStep, Hours, Entered
    <3> QED
      BY <2>1, <3>1, <3>2 DEF HourKeptAt, Late, Kept, Excused
  <2> QED
    BY <2>2, <2>3
<1>3. CASE WriteMsg /\ Stamp
  <2>1. Stamped /\ stream \in DOMAIN files /\ files[stream] \in Seq(Entry) /\ files[stream] # <<>>
        /\ clock \in Nat
    BY <1>3, DirStamp DEF Stamped, FileTypeOK
  <2>2. /\ DOMAIN files' = DOMAIN files
        /\ \A n \in DOMAIN files : n # stream => files'[n] = files[n]
        /\ DOMAIN files'[stream] = DOMAIN files[stream]
        /\ \A k \in DOMAIN files[stream] :
              /\ k # Len(files[stream]) => files'[stream][k] = files[stream][k]
              /\ files'[stream][k].began = files[stream][k].began
    BY <2>1, StampIs DEF Stamped
  <2>3. \A k \in DOMAIN files[stream] :
          k \in Nat /\ k <= Len(files[stream]) /\ Len(files[stream]) \in Nat
    BY <2>1
  <2> SUFFICES ASSUME NEW n \in DOMAIN files', NEW k \in DOMAIN files'[n]
               PROVE  HourKeptAt(n, k)'
    BY DEF HourKeptAt, HourKept, Late
  <2>4. CASE n # stream
    BY <1>0, <2>2, <2>4 DEF HourKeptAt, Late, Kept
  <2>5. CASE n = stream
    <3>1. k \in DOMAIN files[n] /\ n \in DOMAIN files /\ HourKeptAt(n, k)
      BY <1>0, <2>2, <2>5
    <3>2. CASE Late(n, k)
      BY <2>2, <2>5, <3>1, <3>2 DEF HourKeptAt, Late
    <3>3. CASE ~Late(n, k)
      <4>1. PICK j \in DOMAIN files[n] : j < k /\ Kept(n, j)
        BY <3>1, <3>3 DEF HourKeptAt
      <4>2. j # Len(files[stream])
        BY <2>3, <2>5, <3>1, <4>1
      <4> QED
        BY <2>2, <2>5, <4>1, <4>2 DEF HourKeptAt, Kept
    <3> QED
      BY <3>2, <3>3
  <2> QED
    BY <2>4, <2>5
<1>4. CASE Made("create", "check") \/ Made("recreate", "write")
  <2>1. NewFile
    BY <1>4, DirCreate DEF Made
  <2> SUFFICES ASSUME NEW n \in DOMAIN files', NEW k \in DOMAIN files'[n]
               PROVE  HourKeptAt(n, k)'
    BY DEF HourKeptAt, HourKept, Late
  <2>2. CASE n \in DOMAIN files
    <3>1. files'[n] = files[n]
      BY <2>1, <2>2 DEF NewFile
    <3> QED
      BY <1>0, <2>2, <3>1 DEF HourKeptAt, Late, Kept
  <2>3. CASE n \notin DOMAIN files
    <3>1. files'[n] = <<>>
      BY <2>1, <2>3 DEF NewFile
    <3> QED
      BY <3>1
  <2> QED
    BY <2>2, <2>3
<1>5. CASE Killed
  <2>1. CASE stream = NoFile
    BY <1>1, <1>5, <2>1 DEF Killed, FileKilled
  <2>2. CASE stream # NoFile
    <3>1. Cut
      BY <1>5, <2>2, DirKilled
    <3>2. PICK d \in 0 .. buffered :
            files'[stream] = SubSeq(files[stream], 1, Len(files[stream]) - d)
      BY <3>1 DEF Cut
    <3>3. stream \in DOMAIN files /\ files[stream] \in Seq(Entry) /\ d \in Nat
      BY <3>1 DEF Cut, FileTypeOK
    <3>4. /\ DOMAIN files'[stream] = {k \in DOMAIN files[stream] : k <= Len(files[stream]) - d}
          /\ \A k \in DOMAIN files'[stream] : files'[stream][k] = files[stream][k]
      BY <3>2, <3>3, CutIs
    <3>5. Len(files[stream]) - d \in Int /\ \A k \in DOMAIN files[stream] : k \in Nat
      BY <3>3
    <3> SUFFICES ASSUME NEW n \in DOMAIN files', NEW k \in DOMAIN files'[n]
                 PROVE  HourKeptAt(n, k)'
      BY DEF HourKeptAt, HourKept, Late
    <3>6. CASE n # stream
      BY <1>0, <3>1, <3>6 DEF HourKeptAt, Late, Kept, Cut
    <3>7. CASE n = stream
      <4>1. k \in DOMAIN files[n] /\ n \in DOMAIN files /\ HourKeptAt(n, k)
        BY <1>0, <3>3, <3>4, <3>7
      <4>2. CASE Late(n, k)
        BY <3>4, <3>7, <4>1, <4>2 DEF HourKeptAt, Late
      <4>3. CASE ~Late(n, k)
        <5>1. PICK j \in DOMAIN files[n] : j < k /\ Kept(n, j)
          BY <4>1, <4>3 DEF HourKeptAt
        <5>2. j \in DOMAIN files'[n]
          BY <3>4, <3>5, <3>7, <4>1, <5>1
        <5> QED
          BY <3>4, <3>7, <5>1, <5>2 DEF HourKeptAt, Kept
      <4> QED
        BY <4>2, <4>3
    <3> QED
      BY <3>6, <3>7
  <2> QED
    BY <2>1, <2>2
<1>6. CASE WriteMsg /\ (CreateFails \/ KeepFile \/ CloseFile \/ FwriteFails)
  BY <1>1, <1>6 DEF CreateFails, KeepFile, CloseFile, FwriteFails
<1>7. CASE PutMsg \/ Stop \/ QueueEmpty \/ Goes \/ Wakes \/ DequeueMsg
  BY <1>1, <1>7 DEF PutMsg, Stop, QueueEmpty, Goes, Wakes, DequeueMsg, WriteData, fileVars
<1>8. CASE Ends \/ Restarts \/ ClockTicks
  BY <1>1, <1>8 DEF Ends, Restarts, FileRestarts, ClockTicks
<1> QED
  BY <1>2, <1>3, <1>4, <1>5, <1>6, <1>7, <1>8, Steps

(* Hours is inductive.  When the time of a write is read, either it is of   *)
(* the hour of the file, or this write is the one that met the end of the   *)
(* hour, or its message was excused by an earlier one.                      *)
LEMMA HoursStep ==
  ASSUME FileTypeOK, ThreadTypeOK, Places, LastMsg, Clocks, Hours, HourKept, Next
  PROVE  Hours'
<1>0. clock \in Nat /\ last_write_time \in Nat /\ began \in Nat
  BY DEF FileTypeOK
<1>1. CASE WriteMsg /\ Fwrite
  BY <1>1 DEF Fwrite, FStep, Hours
<1>2. CASE WriteMsg /\ Stamp
  <2>1. Stamped /\ stream \in DOMAIN files /\ files[stream] \in Seq(Entry) /\ files[stream] # <<>>
        /\ clock \in Nat
    BY <1>2, DirStamp DEF Stamped, FileTypeOK
  <2> DEFINE L == Len(files[stream])
  <2>2. /\ DOMAIN files'[stream] = DOMAIN files[stream] /\ L \in DOMAIN files[stream]
        /\ \A k \in DOMAIN files[stream] :
              /\ k # L => files'[stream][k] = files[stream][k]
              /\ files'[stream][k].began = files[stream][k].began
        /\ files'[stream][L].stamped = clock
    BY <2>1, StampIs DEF Stamped
  <2>3. L \in Nat
    BY <2>1
  <2>4. fpc = "stamp" /\ fpc' = "idle" /\ last_write_time' = clock /\ stream' = stream
    BY <1>2 DEF Stamp, FStep
  <2>5. files[stream][L].began = began
    BY <2>4 DEF LastMsg
  <2> HIDE DEF L
  <2>6. HourOf(clock) <= HourOf(stream[1]) \/ \E j \in DOMAIN files'[stream] : Kept(stream, j)'
    <3>1. CASE HourOf(began) <= HourOf(stream[1])
      <4>1. HourOf(clock) \in Int /\ HourOf(stream[1]) \in Int
        BY <1>0, <2>1, NameType, HourMono
      <4>2. CASE HourOf(stream[1]) < HourOf(clock)
        BY <2>2, <2>4, <2>5, <3>1, <4>2 DEF Kept
      <4> QED
        BY <4>1, <4>2
    <3>2. CASE ~(HourOf(began) <= HourOf(stream[1]))
      <4>1. PICK j \in DOMAIN files[stream] : j < L /\ Kept(stream, j)
        BY <2>1, <2>2, <2>5, <3>2 DEF HourKept
      <4>2. j # L
        BY <2>3, <4>1
      <4> QED
        BY <2>2, <2>4, <4>1, <4>2 DEF Kept
    <3> QED
      BY <3>1, <3>2
  <2> QED
    BY <2>4, <2>6 DEF Hours, Excused, Kept
<1>3. ASSUME NEW from \in {"create", "recreate"}, NEW to \in {"check", "write"},
             CreateFile(from, to)
      PROVE  Hours'
  <2>1. stream' = FileName /\ FileName[1] = clock /\ UNCHANGED <<last_write_time, began>>
    BY <1>3, NameIs DEF CreateFile
  <2>2. HourOf(last_write_time) <= HourOf(clock) /\ HourOf(began) <= HourOf(clock)
    BY <1>0, HourMono DEF Clocks
  <2> QED
    BY <2>1, <2>2 DEF Hours, Excused
<1>4. CASE WriteMsg /\ KeepFile
  <2>1. /\ fpc = "check" /\ fpc' = "write" /\ HourOf(clock) = HourOf(last_write_time)
           /\ stream # NoFile
        /\ UNCHANGED <<stream, files, last_write_time, began>>
    BY <1>4 DEF KeepFile, FStep, Places, Open
  <2>2. Excused(last_write_time)
    BY <2>1 DEF Hours
  <2>3. HourOf(began) <= HourOf(last_write_time) /\ HourOf(began) \in Int
        /\ HourOf(last_write_time) \in Int
    BY <1>0, <2>1, HourMono DEF Clocks
  <2>4. HourOf(stream[1]) \in Int
    <3>1. stream \in DOMAIN files
      BY <2>1 DEF FileTypeOK
    <3> QED
      BY <3>1, NameType, HourMono
  <2>5. Excused(began)
    BY <2>2, <2>3, <2>4 DEF Excused
  <2> QED
    BY <2>1, <2>2, <2>5 DEF Hours, Excused, Kept
<1>5. CASE stream' = NoFile /\ fpc' # "write"
  BY <1>5 DEF Hours
<1>6. CASE UNCHANGED <<stream, files, last_write_time>> /\ fpc # "stamp" /\ fpc' # "write"
  BY <1>6 DEF Hours, Excused, Kept
<1>7. CASE UNCHANGED <<stream, files, last_write_time, fpc, began>>
  BY <1>7 DEF Hours, Excused, Kept
<1>8. CASE WriteMsg /\ (CreateFails \/ CloseFile)
  BY <1>5, <1>8 DEF CreateFails, CloseFile, FStep, Places
<1>9. CASE (WriteMsg /\ FwriteFails) \/ DequeueMsg
  BY <1>6, <1>9 DEF FwriteFails, DequeueMsg, WriteData, FStep
<1>10. CASE Ends \/ Killed \/ Restarts
  BY <1>5, <1>10 DEF Ends, FileCloses, Killed, FileKilled, Restarts, FileRestarts, Places
<1>11. CASE PutMsg \/ Stop \/ QueueEmpty \/ Goes \/ Wakes \/ ClockTicks
  BY <1>7, <1>11 DEF PutMsg, Stop, QueueEmpty, Goes, Wakes, ClockTicks, fileVars, noted
<1> QED
  BY <1>1, <1>2, <1>3, <1>4, <1>8, <1>9, <1>10, <1>11, Steps DEF Made

-----------------------------------------------------------------------------
(* The messages missing can be counted.                                     *)
LEMMA MissingFinite ==
  ASSUME NEW a \in Int, NEW b \in Int
  PROVE  IsFiniteSet(Missing(a, b)) /\ Cardinality(Missing(a, b)) \in Nat
<1>1. Missing(a, b) \in SUBSET (a .. b)
  BY DEF Missing
<1>2. IsFiniteSet(a .. b)
  BY FS_Interval
<1>3. IsFiniteSet(Missing(a, b))
  BY <1>1, <1>2, FS_Subset
<1> QED
  BY <1>3, FS_CardinalityType

(* A step after which no more is missing.                                   *)
LEMMA NoMoreLost ==
  ASSUME FileTypeOK, ThreadTypeOK, Lost, Due \in Int, failed' \in Nat, failed <= failed',
         NEW S, Missing(first + 1, Due)' = S, S \in SUBSET Missing(first + 1, Due)
  PROVE  Lost'
<1>1. first \in Nat /\ failed \in Nat
  BY DEF FileTypeOK, ThreadTypeOK
<1> DEFINE T == Missing(first + 1, Due)
<1>2. IsFiniteSet(T) /\ Cardinality(T) \in Nat
  <2>1. first + 1 \in Int
    BY <1>1
  <2> QED
    BY <2>1, MissingFinite
<1>3. Cardinality(T) <= failed
  BY DEF Lost
<1> HIDE DEF T
<1>4. S \in SUBSET T
  BY DEF T
<1>5. Cardinality(S) <= Cardinality(T) /\ IsFiniteSet(S)
  BY <1>2, <1>4, FS_Subset
<1>6. Cardinality(S) \in Nat
  BY <1>5, FS_CardinalityType
<1>7. Cardinality(S) <= failed'
  BY <1>1, <1>2, <1>3, <1>5, <1>6
<1> QED
  BY <1>7 DEF Lost

(* A step after which one more is missing, which failed.                    *)
LEMMA OneMoreLost ==
  ASSUME FileTypeOK, ThreadTypeOK, Lost, Due \in Int, failed' = failed + 1,
         NEW x, NEW S, Missing(first + 1, Due)' = S,
         S \in SUBSET (Missing(first + 1, Due) \cup {x})
  PROVE  Lost'
<1>1. first \in Nat /\ failed \in Nat
  BY DEF FileTypeOK, ThreadTypeOK
<1> DEFINE T == Missing(first + 1, Due)
<1>2. IsFiniteSet(T) /\ Cardinality(T) \in Nat
  <2>1. first + 1 \in Int
    BY <1>1
  <2> QED
    BY <2>1, MissingFinite
<1>3. Cardinality(T) <= failed
  BY DEF Lost
<1> HIDE DEF T
<1>4. IsFiniteSet(T \cup {x}) /\ Cardinality(T \cup {x}) <= Cardinality(T) + 1
      /\ Cardinality(T \cup {x}) \in Nat
  BY <1>2, FS_AddElement
<1>5. S \in SUBSET (T \cup {x})
  BY DEF T
<1>6. Cardinality(S) <= Cardinality(T \cup {x}) /\ IsFiniteSet(S)
  BY <1>4, <1>5, FS_Subset
<1>7. Cardinality(S) \in Nat
  BY <1>6, FS_CardinalityType
<1>8. Cardinality(S) <= failed'
  BY <1>1, <1>2, <1>3, <1>4, <1>6, <1>7
<1> QED
  BY <1>8 DEF Lost

(* What is in the files stays there, but for a kill.                        *)
LEMMA LogKept ==
  ASSUME FileTypeOK, ThreadTypeOK, Places, LastMsg, Next, ~Killed, NEW m, Logged(m)
  PROVE  Logged(m)'
<1>0. PICK n \in DOMAIN files : \E j \in DOMAIN files[n] : files[n][j].msg = m
  BY DEF Logged
<1>1. PICK k \in DOMAIN files[n] : files[n][k].msg = m
  BY <1>0
<1>2. CASE files' = files
  BY <1>1, <1>2 DEF Logged
<1>3. CASE WriteMsg /\ Fwrite
  <2>1. n \in DOMAIN files' /\ k \in DOMAIN files'[n] /\ files'[n][k] = files[n][k]
    BY <1>1, <1>3, NewEntryStep
  <2> QED
    BY <1>1, <2>1 DEF Logged
<1>4. CASE WriteMsg /\ Stamp
  <2>1. Stamped /\ stream \in DOMAIN files /\ files[stream] \in Seq(Entry) /\ files[stream] # <<>>
        /\ clock \in Nat
    BY <1>4, DirStamp DEF Stamped, FileTypeOK
  <2>2. /\ DOMAIN files'[stream] = DOMAIN files[stream]
        /\ \A j \in DOMAIN files[stream] : files'[stream][j].msg = files[stream][j].msg
    BY <2>1, StampIs DEF Stamped
  <2>3. n \in DOMAIN files' /\ k \in DOMAIN files'[n] /\ files'[n][k].msg = m
    <3>1. CASE n = stream
      BY <1>1, <2>1, <2>2, <3>1 DEF Stamped
    <3>2. CASE n # stream
      BY <1>1, <2>1, <3>2 DEF Stamped
    <3> QED
      BY <3>1, <3>2
  <2> QED
    BY <2>3 DEF Logged
<1>5. CASE Made("create", "check") \/ Made("recreate", "write")
  <2>1. n \in DOMAIN files' /\ files'[n] = files[n]
    BY <1>1, <1>5, DirCreate DEF Made, NewFile
  <2> QED
    BY <1>1, <2>1 DEF Logged
<1>6. CASE WriteMsg /\ (CreateFails \/ KeepFile \/ CloseFile \/ FwriteFails)
  BY <1>2, <1>6 DEF CreateFails, KeepFile, CloseFile, FwriteFails
<1>7. CASE PutMsg \/ Stop \/ QueueEmpty \/ Goes \/ Wakes \/ DequeueMsg
  BY <1>2, <1>7 DEF PutMsg, Stop, QueueEmpty, Goes, Wakes, DequeueMsg, WriteData, fileVars
<1>8. CASE Ends \/ Restarts \/ ClockTicks
  BY <1>2, <1>8 DEF Ends, Restarts, FileRestarts, ClockTicks
<1> QED
  BY <1>3, <1>4, <1>5, <1>6, <1>7, <1>8, Steps

(* What is missing after a step other than a kill: nothing more, or the one *)
(* message that write_data is now done with, unless it is in a file.        *)
LEMMA MissingNext ==
  ASSUME FileTypeOK, ThreadTypeOK, Places, LastMsg, Next, ~Killed, first' = first,
         Due \in Int, Due' \in Int, NEW x, x = Due + 1
  PROVE  /\ Due' <= Due => Missing(first + 1, Due)' \subseteq Missing(first + 1, Due)
         /\ Due' = x => Missing(first + 1, Due)' \subseteq Missing(first + 1, Due) \cup {x}
         /\ Due' = x /\ Logged(x)'
               => Missing(first + 1, Due)' \subseteq Missing(first + 1, Due)
<1>1. \A m : Logged(m) => Logged(m)'
  BY LogKept
<1>2. Missing(first + 1, Due)' = {m \in first + 1 .. Due' : ~Logged(m)'}
  BY DEF Missing
<1>3. Missing(first + 1, Due) = {m \in first + 1 .. Due : ~Logged(m)}
  BY DEF Missing
<1>4. first \in Nat
  BY DEF ThreadTypeOK
<1> QED
  BY <1>1, <1>2, <1>3, <1>4

(* Lost is inductive.  A kill takes one message at most, of the last two    *)
(* taken, which are not due then.                                           *)
LEMMA LostStep ==
  ASSUME FileTypeOK, ThreadTypeOK, Queue, Places, LastMsg, Lost, Next
  PROVE  Lost'
<1>0. /\ first \in Nat /\ first' \in Nat /\ failed \in Nat /\ failed' \in Nat /\ taken \in Nat
      /\ Through \in Nat /\ Done \in Int /\ Done' \in Int /\ Due \in Int /\ Due' \in Int
  <2>1. FileTypeOK' /\ ThreadTypeOK'
    BY FileTypeStep, ThreadTypeStep
  <2>2. sent' \in Nat /\ Len(contents') \in Nat /\ taken' \in Nat
    BY <2>1 DEF ThreadTypeOK
  <2>3. first \in Nat /\ first' \in Nat /\ failed \in Nat /\ failed' \in Nat /\ taken \in Nat
    BY <2>1 DEF FileTypeOK, ThreadTypeOK
  <2>4. Through \in Nat /\ Done \in Int
    BY ThroughStep, DoneStep
  <2>5. Done' \in Int
    BY <2>2 DEF Done, Through
  <2>6. Due \in Int /\ Due' \in Int
    BY <2>2, <2>3, <2>4, <2>5 DEF Due
  <2> QED
    BY <2>3, <2>4, <2>5, <2>6
<1>1. CASE Killed
  <2>1. tpc' = "killed" /\ failed' = failed
    BY <1>1 DEF Killed, noted
  <2>2. ~DequeueMsg /\ ~Restarts
    BY <1>1 DEF Killed, DequeueMsg, Restarts
  <2>3. first' = first /\ taken' = taken
    BY <2>2, ThroughStep
  <2>4. Due' = taken - 2 /\ Due = Done
    BY <1>1, <2>1, <2>3 DEF Due, Killed
  <2>5. Missing(first + 1, Due)' = {m \in first + 1 .. taken - 2 : ~Logged(m)'}
    BY <2>3, <2>4 DEF Missing
  <2>6. Missing(first + 1, Due) = {m \in first + 1 .. Done : ~Logged(m)}
    BY <2>4 DEF Missing
  <2>7. ASSUME NEW m \in first + 1 .. taken - 2, Logged(m) PROVE Logged(m)'
    <3>0. PICK n \in DOMAIN files : \E j \in DOMAIN files[n] : files[n][j].msg = m
      BY <2>7 DEF Logged
    <3>1. PICK k \in DOMAIN files[n] : files[n][k].msg = m
      BY <3>0
    <3>2. m < Done
      <4>1. first < taken - 2
        BY <1>0
      <4>2. taken = Through
        BY <1>0, <4>1 DEF Queue
      <4> QED
        BY <1>0, <4>2 DEF Done
    <3>3. CASE stream = NoFile
      BY <1>1, <2>7, <3>3 DEF Killed, FileKilled, Logged
    <3>4. CASE stream # NoFile
      <4>1. Cut
        BY <1>1, <3>4, DirKilled
      <4>2. PICK d \in 0 .. buffered :
              files'[stream] = SubSeq(files[stream], 1, Len(files[stream]) - d)
        BY <4>1 DEF Cut
      <4>3. stream \in DOMAIN files /\ files[stream] \in Seq(Entry) /\ d \in Nat
            /\ buffered \in 0 .. 1
        BY <4>1 DEF Cut, FileTypeOK
      <4>4. /\ DOMAIN files'[stream] = {j \in DOMAIN files[stream] : j <= Len(files[stream]) - d}
            /\ \A j \in DOMAIN files'[stream] : files'[stream][j] = files[stream][j]
        BY <4>2, <4>3, CutIs
      <4>5. k \in DOMAIN files'[n]
        <5>1. CASE n # stream
          BY <3>1, <4>1, <5>1 DEF Cut
        <5>2. CASE n = stream
          <6>1. k \in 1 .. Len(files[stream]) /\ Len(files[stream]) \in Nat
            BY <3>1, <4>3, <5>2
          <6>2. CASE d = 0
            BY <3>1, <4>4, <5>2, <6>1, <6>2
          <6>3. CASE d # 0
            <7>1. buffered = 1 /\ d = 1
              BY <4>3, <6>3
            <7>2. files[stream][Len(files[stream])].msg = Done
              BY <7>1 DEF LastMsg
            <7>3. k # Len(files[stream])
              BY <1>0, <3>1, <3>2, <5>2, <7>2
            <7> QED
              BY <3>1, <4>4, <5>2, <6>1, <7>1, <7>3
          <6> QED
            BY <6>2, <6>3
        <5> QED
          BY <5>1, <5>2
      <4>6. n \in DOMAIN files' /\ files'[n][k].msg = m
        BY <3>1, <4>1, <4>4, <4>5 DEF Cut
      <4> QED
        BY <4>5, <4>6 DEF Logged
    <3> QED
      BY <3>3, <3>4
  <2>8. taken - 2 <= Done \/ taken - 2 < first + 1
    <3>1. CASE first < Through
      BY <1>0, <3>1 DEF Queue, Done
    <3>2. CASE ~(first < Through)
      BY <1>0, <3>2 DEF Queue
    <3> QED
      BY <3>1, <3>2
  <2>9. Missing(first + 1, Due)' \in SUBSET Missing(first + 1, Due)
    BY <1>0, <2>5, <2>6, <2>7, <2>8
  <2> QED
    BY <1>0, <2>1, <2>9, NoMoreLost
<1>2. CASE Restarts
  <2>1. Through' = sent /\ first' = sent /\ tpc' = "drain" /\ failed' = failed
    BY <1>2, ThroughStep DEF Restarts, FileRestarts
  <2>2. fpc' = "idle"
    BY <1>2 DEF Restarts, FileRestarts, Places
  <2>3. Due' = sent /\ sent \in Nat
    BY <2>1, <2>2 DEF Due, Done, ThreadTypeOK
  <2>4. Missing(first + 1, Due)' = {m \in sent + 1 .. sent : ~Logged(m)'}
    BY <2>1, <2>3 DEF Missing
  <2>5. sent + 1 .. sent = {}
    BY <2>3
  <2>6. Missing(first + 1, Due)' = {}
    BY <2>4, <2>5
  <2> QED
    BY <1>0, <2>1, <2>6, NoMoreLost
<1>3. CASE ~Killed /\ first' = first /\ failed' = failed /\ Due' = Due
  <2>1. Missing(first + 1, Due)' \subseteq Missing(first + 1, Due)
    BY <1>0, <1>3, MissingNext
  <2> QED
    BY <1>0, <1>3, <2>1, NoMoreLost
<1>4. CASE WriteMsg
  <2>1. ~DequeueMsg /\ ~Restarts /\ ~Killed /\ tpc # "killed" /\ tpc' # "killed"
    <3>1. fpc' # fpc /\ clock' = clock /\ tpc = "write" /\ tpc' \in {"drain", "write"}
      BY <1>4 DEF WriteMsg, WriteSteps, CreateFile, CreateFails, KeepFile, CloseFile, Fwrite,
                FwriteFails, Stamp, FStep
    <3> QED
      BY <3>1 DEF DequeueMsg, Restarts, Killed
  <2>2. first' = first /\ Through' = Through
    BY <2>1, ThroughStep
  <2>3. Due = Done /\ Due' = Done'
    BY <2>1 DEF Due
  <2>4. CASE Fwrite
    <3>1. Done' = msg /\ Done' = Done + 1 /\ failed' = failed
      BY <1>4, <2>4, DoneStep DEF Fwrite
    <3>0. PICK x : x = Due + 1
      OBVIOUS
    <3>3. Logged(x)'
      <4>1. /\ stream \in DOMAIN files' /\ Len(files[stream]) + 1 \in DOMAIN files'[stream]
            /\ files'[stream][Len(files[stream]) + 1] = Entered /\ Entered.msg = msg
        BY <2>4, NewEntryStep DEF Entered
      <4>2. x = msg
        BY <2>3, <3>0, <3>1
      <4> QED
        BY <4>1, <4>2 DEF Logged
    <3>4. Missing(first + 1, Due)' \subseteq Missing(first + 1, Due)
      BY <1>0, <2>1, <2>2, <2>3, <3>0, <3>1, <3>3, MissingNext
    <3> QED
      BY <1>0, <3>1, <3>4, NoMoreLost
  <2>5. CASE CreateFails \/ FwriteFails
    <3>1. failed' = failed + 1 /\ fpc \in {"create", "recreate", "write"} /\ fpc' = "idle"
      BY <2>5 DEF CreateFails, FwriteFails, FStep
    <3>2. Done' = Done + 1
      BY <1>0, <2>2, <3>1 DEF Done
    <3>0. PICK x : x = Due + 1
      OBVIOUS
    <3>3. Missing(first + 1, Due)' \subseteq Missing(first + 1, Due) \cup {x}
      BY <1>0, <2>1, <2>2, <2>3, <3>0, <3>2, MissingNext
    <3> QED
      BY <1>0, <3>1, <3>3, OneMoreLost
  <2>6. CASE CreateFile("create", "check") \/ CreateFile("recreate", "write") \/ KeepFile
             \/ CloseFile
             \/ Stamp
    <3>1. failed' = failed
      BY <2>6 DEF CreateFile, KeepFile, CloseFile, Stamp
    <3>2. Done' = Done
      BY <1>0, <2>2, <2>6 DEF CreateFile, KeepFile, CloseFile, Stamp, FStep, Done
    <3> QED
      BY <1>3, <2>1, <2>2, <2>3, <3>1, <3>2
  <2> QED
    BY <1>4, <2>4, <2>5, <2>6 DEF WriteMsg, WriteSteps
<1>5. CASE ~WriteMsg /\ ~Restarts /\ ~Killed
           /\ (DequeueMsg \/ PutMsg \/ Stop \/ QueueEmpty \/ Goes \/ Wakes \/ Ends
                \/ (ClockTicks /\ UNCHANGED <<fifoVars, threadVars, counts>>))
  <2>1. Done' = Done
    BY <1>5, DoneStep
  <2>2. first' = first /\ (~DequeueMsg => taken' = taken)
    BY <1>5, ThroughStep
  <2>3. failed' = failed
    BY <1>5 DEF DequeueMsg, WriteData, PutMsg, Stop, QueueEmpty, Goes, Wakes, Ends, ClockTicks,
       fileVars, noted
  <2>4. (tpc' = "killed" <=> tpc = "killed") /\ (DequeueMsg => tpc # "killed")
    BY <1>5 DEF DequeueMsg, PutMsg, Stop, QueueEmpty, Goes, Wakes, Ends, threadVars
  <2>5. Due' = Due
    BY <2>1, <2>2, <2>4 DEF Due
  <2> QED
    BY <1>3, <1>5, <2>2, <2>3, <2>5
<1> QED
  BY <1>1, <1>2, <1>4, <1>5, Steps DEF Made

-----------------------------------------------------------------------------
(* All of it holds of a program that starts in an empty directory.          *)
LEMMA InitHolds ==
  ASSUME Init
  PROVE  Inv /\ WithinInv /\ OrderInv
<1>1. /\ clock = 0 /\ DOMAIN files = {} /\ stream = NoFile /\ cur_file_line = 0 /\ file_seq = 0
      /\ last_write_time = 0 /\ fpc = "idle" /\ msg = 0 /\ buffered = 0 /\ run = 0 /\ began = 0
      /\ failed = 0 /\ Function(files)
  BY DEF Init, FileInit, Function
<1>2. /\ contents = <<>> /\ taken = 0 /\ m_running_flag = TRUE /\ tpc = "drain" /\ sent = 0
         /\ first = 0
      /\ sentAtEmpty = 0 /\ Len(<<>>) = 0 /\ <<>> \in Seq(Nat) /\ DOMAIN <<>> = {}
  BY DEF Init, FifoInit
<1>3. Through = 0 /\ Done = 0 /\ Due = 0
  <2>1. Through = 0
    <3>1. Len(contents) = 0 /\ sent = 0
      BY <1>2
    <3> QED
      BY <3>1 DEF Through
  <2> QED
    BY <1>1, <1>2, <2>1 DEF Done, Due
<1>4. FileTypeOK /\ ThreadTypeOK
  BY <1>1, <1>2 DEF FileTypeOK, ThreadTypeOK
<1>5. Queue /\ Places /\ LastMsg /\ Clocks /\ Marks /\ Hours
  BY <1>1, <1>2, <1>3 DEF Queue, Places, Open, LastMsg, Clocks, Marks, Hours
<1>6. HourKept /\ LimitsKept /\ Newest /\ Older /\ Ordered /\ Counted
  BY <1>1 DEF HourKept, LimitsKept, Newest, Older, Ordered, Counted
<1>7. Lost
  <2>1. first + 1 .. Due = {}
    BY <1>2, <1>3
  <2>2. Missing(first + 1, Due) = {}
    BY <2>1 DEF Missing
  <2> QED
    BY <1>1, <2>2, FS_EmptySet DEF Lost
<1> QED
  BY <1>4, <1>5, <1>6, <1>7 DEF Inv, WithinInv, OrderInv

(* Every step preserves Inv,                                                *)
LEMMA InvStep ==
  ASSUME Inv, [Next]_vars
  PROVE  Inv'
<1>1. CASE Next
  BY <1>1, FileTypeStep, ThreadTypeStep, QueueStep, PlacesStep, LastMsgStep, ClocksStep,
     MarksStep,
     HoursStep, HourKeptStep, LostStep DEF Inv
<1>2. CASE UNCHANGED vars
  BY <1>2 DEF vars, fileVars, noted, fifoVars, threadVars, counts, Inv, FileTypeOK, Function,
     ThreadTypeOK,
     Queue, Through, Places, Open, LastMsg, Done, Clocks, Marks, Hours, Excused, Kept, HourKept,
     Lost, Due,
     Missing, Logged
<1> QED
  BY <1>1, <1>2

(* and WithinInv, while the number does not come round to a file of the     *)
(* program,                                                                 *)
LEMMA WithinStep ==
  ASSUME Inv, WithinInv, Anew, [Next]_vars
  PROVE  WithinInv'
<1>1. CASE Next
  BY <1>1, CountedStep, LimitsStep DEF Inv, WithinInv
<1>2. CASE UNCHANGED vars
  BY <1>2 DEF vars, fileVars, noted, WithinInv, Counted, LimitsKept
<1> QED
  BY <1>1, <1>2

(* and OrderInv, while it does not come round within a second.              *)
LEMMA OrderStep ==
  ASSUME Inv, OrderInv, InRound, [Next]_vars
  PROVE  OrderInv'
<1>1. CASE Next
  BY <1>1, NewestStep, OlderStep, OrderedStep DEF Inv, OrderInv
<1>2. CASE UNCHANGED vars
  BY <1>2 DEF vars, fileVars, fifoVars, threadVars, counts, noted, OrderInv, Newest, OwnFile,
     Older, Done, Through,
     Ordered
<1> QED
  BY <1>1, <1>2

(* The inductive invariant of the recording thread, for any limits of       *)
(* files, any number of messages, failures, kills and programs.             *)
THEOREM Invariant == Spec => []Inv
  BY InitHolds, InvStep, PTL DEF Spec

(* The variables keep their types; in particular the buffer of stdio never  *)
(* holds two messages, as check_file looks for the end of the file before   *)
(* every write but the first to it.                                         *)
THEOREM RecordTypeCorrect == Spec => [](FileTypeOK /\ ThreadTypeOK)
<1>1. Inv => FileTypeOK /\ ThreadTypeOK
  BY DEF Inv
<1> QED
  BY <1>1, Invariant, PTL

(* HourKept: a message is in a file of the hour that write_data was called  *)
(* in, or of a later one, unless an earlier write to the file met the end   *)
(* of the hour (check_file compares with the time of the last write).       *)
THEOREM HourKeptTheorem == Spec => []HourKept
<1>1. Inv => HourKept
  BY DEF Inv
<1> QED
  BY <1>1, Invariant, PTL

(* LostOnlyAtTheEnd: svc ends after it has written all that was in the      *)
(* queue when it last looked, but for what failed; and a kill costs what is *)
(* still queued and the last two messages taken, but for what failed.       *)
THEOREM LostOnlyAtTheEndTheorem == Spec => []LostOnlyAtTheEnd
<1>1. ASSUME Inv PROVE LostOnlyAtTheEnd
  <2>1. CASE tpc = "ended"
    <3>1. sentAtEmpty = Through /\ fpc = "idle"
      BY <1>1, <2>1 DEF Inv, Queue, Places
    <3>2. Due = sentAtEmpty
      BY <2>1, <3>1 DEF Due, Done
    <3>3. Len(contents) = sent - sentAtEmpty
      <4>1. Len(contents) \in Nat /\ sent \in Nat
        BY <1>1 DEF Inv, ThreadTypeOK
      <4> QED
        BY <3>1, <4>1 DEF Through
    <3> QED
      BY <1>1, <2>1, <3>2, <3>3 DEF Inv, Lost, LostOnlyAtTheEnd
  <2>2. CASE tpc = "killed"
    BY <1>1, <2>2 DEF Inv, Lost, Due, LostOnlyAtTheEnd
  <2> QED
    BY <2>1, <2>2 DEF LostOnlyAtTheEnd
<1> QED
  BY <1>1, Invariant, PTL

(* LimitsKept, as long as the sequence number does not come round to a file *)
(* of the program within its second (gen_file_name takes it modulo 10000).  *)
THEOREM LimitsKeptTheorem == Spec /\ []Anew => []LimitsKept
<1>1. WithinInv => LimitsKept
  BY DEF WithinInv
<1>2. Spec /\ []Anew => []WithinInv
  BY InitHolds, WithinStep, Invariant, PTL DEF Spec
<1> QED
  BY <1>1, <1>2, PTL

(* LogInOrder, as long as the number does not start again within a second:  *)
(* the files in the order of their names hold the messages in the order     *)
(* they were put.                                                           *)
THEOREM LogInOrderTheorem == Spec /\ []InRound => []LogInOrder
<1>1. ASSUME OrderInv PROVE LogInOrder
  <2> SUFFICES ASSUME ~SharedSecond, NEW n \in DOMAIN files, NEW m \in DOMAIN files,
                      NEW k \in DOMAIN files[n], NEW l \in DOMAIN files[m],
                      NameBefore(n, m) \/ (n = m /\ k < l)
               PROVE  files[n][k].msg < files[m][l].msg
    BY DEF LogInOrder
  <2>1. n[1] = m[1] => files[n][k].run = files[m][l].run
    BY DEF SharedSecond
  <2> QED
    BY <1>1, <2>1 DEF OrderInv, Ordered
<1>2. Spec /\ []InRound => []OrderInv
  BY InitHolds, OrderStep, Invariant, PTL DEF Spec
<1> QED
  BY <1>1, <1>2, PTL

(* Neither happens as long as there are two numbers for every message.      *)
THEOREM InRoundTheorem ==
  ASSUME EnoughNames
  PROVE  Spec => [](Anew /\ InRound)
<1>1. Init => Names
  <2> SUFFICES ASSUME Init PROVE Names
    OBVIOUS
  <2>1. /\ DOMAIN files = {} /\ stream = NoFile /\ file_seq = 0 /\ fpc = "idle"
        /\ sent = 0 /\ first = 0 /\ Len(contents) = 0
    BY DEF Init, FileInit, FifoInit
  <2> QED
    BY <2>1 DEF Names, SeqBound, InUse, Through, EnoughNames
<1>2. Inv /\ Names /\ [Next]_vars => Names'
  <2>1. Inv /\ Names /\ Next => Names'
    BY NamesStep DEF Inv
  <2>2. Names /\ UNCHANGED vars => Names'
    BY DEF vars, fileVars, fifoVars, threadVars, counts, noted, Names, SeqBound, InUse,
       Through, OwnFile
  <2> QED
    BY <2>1, <2>2
<1>3. Inv /\ Names => Anew /\ InRound
  BY NamesInRound, InRoundAnew DEF Inv
<1>4. Spec => []Names
  BY <1>1, <1>2, Invariant, PTL DEF Spec
<1> QED
  BY <1>3, <1>4, Invariant, PTL

(* So the limits and the order hold without exception for that many         *)
(* messages, which the run of RecordThread is an instance of.               *)
THEOREM FewMessages ==
  ASSUME EnoughNames
  PROVE  Spec => []LimitsKept /\ []LogInOrder
  BY InRoundTheorem, LimitsKeptTheorem, LogInOrderTheorem, PTL

-----------------------------------------------------------------------------
(* The blocking queue, for any number of items.  The books of the semaphore *)
(* (Balanced) are inductive, and the assertions of the code follow.         *)

(* Taking the first item of a queue, and putting one, keep it a queue.      *)
LEMMA TakeSeq ==
  ASSUME NEW S, NEW s \in Seq(S), s # <<>>
  PROVE  /\ Len(s) \in Nat \ {0}
         /\ Tail(s) \in Seq(S)
         /\ Len(Tail(s)) = Len(s) - 1
         /\ Head(s) \in S
  OBVIOUS

(* Putting an item keeps a queue a queue, one longer.                       *)
LEMMA PutSeq ==
  ASSUME NEW S, NEW s \in Seq(S), NEW m \in S
  PROVE  /\ Append(s, m) \in Seq(S)
         /\ Len(Append(s, m)) = Len(s) + 1
         /\ Append(s, m) # <<>>
  OBVIOUS

(* The books are balanced in an empty queue.                                *)
LEMMA InitBooks == BlockingInit => BlockingTypeOK /\ Balanced
  BY ItemsAssumption
     DEF BlockingInit, FifoInit, BlockingTypeOK, Balanced, Claimed, Unsignalled, Posted

(* Every atomic access of either thread keeps the books balanced.           *)
LEMMA StepBooks ==
  BlockingTypeOK /\ Balanced /\ [BlockingNext]_blockingVars => BlockingTypeOK' /\ Balanced'
<1> SUFFICES ASSUME BlockingTypeOK, Balanced, [BlockingNext]_blockingVars
             PROVE  BlockingTypeOK' /\ Balanced'
  OBVIOUS
<1> USE ItemsAssumption DEF BlockingTypeOK, Balanced, Claimed, Unsignalled, Posted
<1>1. CASE Enqueue
  <2>1. enqueued + 1 \in Items /\ contents' = Append(contents, enqueued + 1)
    BY <1>1 DEF Enqueue, Put
  <2>2. contents' \in Seq(Items) /\ Len(contents') = Len(contents) + 1
    BY <2>1, PutSeq
  <2> QED
    BY <1>1, <2>2 DEF Enqueue, Put, semaVars
<1>2. CASE Signal
  BY <1>2 DEF Signal, fifoVars
<1>3. CASE Post
  BY <1>3 DEF Post, fifoVars
<1>4. CASE TryWait \/ WaitStart \/ SpinSees
  BY <1>4 DEF TryWait, WaitStart, SpinSees, fifoVars, semaVars
<1>5. CASE Decrement
  BY <1>5 DEF Decrement, fifoVars
<1>6. CASE SpinEnds
  BY <1>6 DEF SpinEnds, fifoVars
<1>7. CASE WakeUp
  BY <1>7 DEF WakeUp, fifoVars
<1>8. CASE Dequeue
  <2>1. contents # <<>> /\ contents' = Tail(contents) /\ taken' = Head(contents)
    BY <1>8 DEF Dequeue, Take
  <2>2. /\ contents' \in Seq(Items)
        /\ Len(contents') = Len(contents) - 1
        /\ taken' \in Items
    BY <2>1, TakeSeq
  <2> QED
    BY <1>8, <2>2 DEF Dequeue, Take, semaVars
<1>9. CASE UNCHANGED blockingVars
  BY <1>9 DEF blockingVars, fifoVars, semaVars
<1> QED
  BY <1>1, <1>2, <1>3, <1>4, <1>5, <1>6, <1>7, <1>8, <1>9 DEF BlockingNext, Producer, Consumer

(* The variables keep their types, and the semaphore its books: no post is  *)
(* lost, none is to spare, and no wake-up is missed.                        *)
THEOREM BalancedTheorem == BlockingSpec => [](BlockingTypeOK /\ Balanced)
<1> QED
  BY InitBooks, StepBooks, PTL DEF BlockingSpec

(* No assertion of the code fails, however many items go through: what the  *)
(* semaphore admits to the queue finds an item there.                       *)
THEOREM AssertionsTheorem == BlockingSpec => []AssertionsHold
<1>1. BlockingTypeOK /\ Balanced => AssertionsHold
  <2> SUFFICES ASSUME BlockingTypeOK, Balanced
               PROVE  AssertionsHold
    OBVIOUS
  <2>1. Len(contents) \in Nat /\ (contents = <<>> => Len(contents) = 0)
    BY DEF BlockingTypeOK
  <2>2. cpc = "dequeue" => Len(contents) > 0
    BY <2>1 DEF BlockingTypeOK, Balanced, Claimed, Unsignalled
  <2>3. ppc = "signal" => m_count >= -1
    BY <2>1 DEF BlockingTypeOK, Balanced, Claimed, Unsignalled
  <2> QED
    BY <2>1, <2>2, <2>3 DEF AssertionsHold
<1> QED
  BY <1>1, BalancedTheorem, PTL
=============================================================================
