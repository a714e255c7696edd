---------------------------- MODULE RotatingFile ----------------------------
(***************************************************************************)
(* The rotating file sink of spdlog (sinks/rotating_file_sink-inl.h on     *)
(* details/file_helper-inl.h).  A message that would make the log file     *)
(* longer than max_size first makes file 1 of the log file, which is file  *)
(* 0, file 2 of file 1, and so on.  Renaming, opening and writing a file   *)
(* may fail; the sink then throws, and the message is lost.  The process   *)
(* may be killed between any two calls and started again.                  *)
(***************************************************************************)
EXTENDS SequencesExt, Totals

CONSTANTS
  MaxFiles,     \* max_files
  MaxSize,      \* max_size
  Lengths,      \* the lengths of formatted messages
  MaxLogged,    \* bound: the messages logged
  MaxFaults     \* bound: the failures and kills

ASSUME RotatingFileAssumption ==
  /\ MaxFiles \in Nat /\ MaxSize \in Nat /\ Lengths \subseteq Nat \ {0}
  /\ MaxLogged \in Nat /\ MaxFaults \in Nat

VARIABLES
  disk,         \* the files that exist: for each, the messages in it
  flushed,      \* the messages of file 0 that have left the stdio buffer
  fd,           \* whether fd_ is not null
  current,      \* current_size_
  sink,         \* "down", "ready", "rotating", "abandoning" or "writing"
  index,        \* i, in the loop of rotate_
  item,         \* the message being logged; << >> in the constructor
  logged,       \* the messages so far
  lost,         \* history: those that failed, were truncated, or were in the buffer at a kill
  faults

rotVars == <<disk, flushed, fd, current, sink, index, item, logged, lost, faults>>

Msgs == (1 .. MaxLogged) \X Lengths
Bytes(file) == TotalOf([k \in 1 .. Len(file) |-> file[k][2]])
Ids(file) == {m[1] : m \in Range(file)}
With(i, file) == [j \in DOMAIN disk \cup {i} |-> IF j = i THEN file ELSE disk[j]]
Without(i) == [j \in DOMAIN disk \ {i} |-> disk[j]]

RotTypeOK ==
  /\ DOMAIN disk \subseteq 0 .. MaxFiles /\ \A i \in DOMAIN disk : disk[i] \in Seq(Msgs)
  /\ flushed \in Nat /\ fd \in BOOLEAN /\ current \in Nat /\ index \in 0 .. MaxFiles
  /\ sink \in {"down", "ready", "rotating", "abandoning", "writing"}
  /\ item \in Msgs \cup {<< >>} /\ logged \in 0 .. MaxLogged /\ lost \subseteq 1 .. MaxLogged
  /\ faults \in 0 .. MaxFaults

RotInit ==
  /\ disk = << >> /\ flushed = 0 /\ fd = FALSE /\ current = 0
  /\ sink = "down" /\ index = 0 /\ item = << >> /\ logged = 0 /\ lost = {} /\ faults = 0

Fault == faults < MaxFaults /\ faults' = faults + 1

\* close(), and the loop from max_files.
Rotate == sink' = "rotating" /\ index' = MaxFiles /\ fd' = FALSE

\* The constructor.  After a rotation on open current_size_ is not set to zero.
OpenSink(rotate_on_open) ==
  /\ sink = "down" /\ item' = << >>
  /\ LET file == IF 0 \in DOMAIN disk THEN disk[0] ELSE << >> IN
       /\ disk' = With(0, file) /\ flushed' = Len(file) /\ current' = Bytes(file)
  /\ IF rotate_on_open /\ current' > 0 THEN Rotate
     ELSE sink' = "ready" /\ fd' = TRUE /\ UNCHANGED index
  /\ UNCHANGED <<logged, lost, faults>>

\* sink_it_, up to the write.
LogMessage(length) ==
  /\ sink = "ready" /\ logged < MaxLogged
  /\ logged' = logged + 1 /\ item' = <<logged + 1, length>>
  /\ current' = current + length
  /\ IF current' > MaxSize THEN Rotate ELSE sink' = "writing" /\ UNCHANGED <<index, fd>>
  /\ UNCHANGED <<disk, flushed, lost, faults>>

\* Mutant: the loop runs from the newest file to the oldest.
ShiftFileUp ==
  /\ sink = "rotating" /\ index > 0
  /\ index' = index - 1
  /\ LET i == MaxFiles - index + 1 IN
       disk' = IF i - 1 \notin DOMAIN disk THEN disk
               ELSE [j \in (DOMAIN disk \cup {i}) \ {i - 1} |-> IF j = i THEN disk[i - 1] ELSE disk[j]]
  /\ UNCHANGED <<flushed, fd, current, sink, item, logged, lost, faults>>

\* One round of the loop: nothing to rename, or rename_file succeeds at the first
\* or the second try.
ShiftFile ==
  /\ sink = "rotating" /\ index > 0
  /\ index' = index - 1
  /\ disk' = IF index - 1 \notin DOMAIN disk THEN disk
             ELSE [j \in (DOMAIN disk \cup {index}) \ {index - 1} |->
                     IF j = index THEN disk[index - 1] ELSE disk[j]]
  /\ UNCHANGED <<flushed, fd, current, sink, item, logged, lost, faults>>

\* It fails twice, with the target removed or not.
ShiftFails ==
  /\ sink = "rotating" /\ index > 0 /\ index - 1 \in DOMAIN disk /\ Fault
  /\ disk' \in {disk, Without(index)}
  /\ sink' = "abandoning"
  /\ UNCHANGED <<flushed, fd, current, index, item, logged, lost>>

\* An exception leaves the sink as it is; out of the constructor there is no sink.
Throw ==
  /\ sink' = IF item = << >> THEN "down" ELSE "ready"
  /\ item' = << >>

LoseItem == IF item = << >> THEN lost ELSE lost \cup {item[1]}

Truncate == disk' = With(0, << >>) /\ flushed' = 0 /\ fd' = TRUE

\* reopen(true) after the loop.
Reopen ==
  /\ sink = "rotating" /\ index = 0 /\ Truncate
  /\ sink' = IF item = << >> THEN "ready" ELSE "writing"
  /\ current' = IF item = << >> THEN current ELSE item[2]
  /\ UNCHANGED <<index, item, logged, lost, faults>>

\* reopen(true) after a rename that failed: "truncate the log file anyway".
Abandon ==
  /\ sink = "abandoning" /\ Truncate /\ Throw
  /\ current' = 0 /\ lost' = LoseItem \cup Ids(IF 0 \in DOMAIN disk THEN disk[0] ELSE << >>)
  /\ UNCHANGED <<index, logged, faults>>

\* All five tries to open the file fail.
ReopenFails ==
  /\ sink = "abandoning" \/ (sink = "rotating" /\ index = 0)
  /\ Fault /\ Throw /\ lost' = LoseItem
  /\ UNCHANGED <<disk, flushed, fd, current, index, logged>>

WriteItem ==
  /\ sink = "writing" /\ sink' = "ready" /\ item' = << >>
  /\ disk' = With(0, Append(disk[0], item))
  /\ UNCHANGED <<flushed, fd, current, index, logged, lost, faults>>

WriteFails ==
  /\ sink = "writing" /\ Fault /\ Throw /\ lost' = LoseItem
  /\ UNCHANGED <<disk, flushed, fd, current, index, logged>>

FlushFile ==
  /\ sink = "ready" /\ fd /\ flushed' = Len(disk[0])
  /\ UNCHANGED <<disk, fd, current, sink, index, item, logged, lost, faults>>

\* What is in the buffer may be lost, or the target that was removed before a rename.
KillSink ==
  /\ sink # "down" /\ Fault
  /\ sink' = "down" /\ fd' = FALSE /\ item' = << >>
  /\ \/ /\ sink \notin {"rotating", "abandoning"} /\ fd
        /\ \E n \in flushed .. Len(disk[0]) :
             /\ disk' = With(0, SubSeq(disk[0], 1, n))
             /\ lost' = LoseItem \cup Ids(SubSeq(disk[0], n + 1, Len(disk[0])))
     \/ /\ lost' = LoseItem
        /\ disk' \in {disk} \cup {Without(i) : i \in {index} \cap {i \in 1 .. MaxFiles :
                                    sink = "rotating" /\ i - 1 \in DOMAIN disk}}
  /\ UNCHANGED <<flushed, current, index, logged>>

RotNext ==
  \/ \E b \in BOOLEAN : OpenSink(b)
  \/ \E n \in Lengths : LogMessage(n)
  \/ ShiftFile \/ ShiftFails \/ Reopen \/ Abandon \/ ReopenFails
  \/ WriteItem \/ WriteFails \/ FlushFile \/ KillSink

RotSpec == RotInit /\ [][RotNext]_rotVars

-----------------------------------------------------------------------------
(* Properties.                                                             *)

OnDisk == UNION {Ids(disk[i]) : i \in DOMAIN disk}

\* The files hold the messages in their order, the oldest in the highest file, and
\* a message that is missing was reported lost, or was the oldest when it went: a
\* rotation that is cut short or fails never drops a message from between others.
OldestGoFirst ==
  /\ \A i \in DOMAIN disk : \A j, k \in 1 .. Len(disk[i]) : j < k => disk[i][j][1] < disk[i][k][1]
  /\ \A i, j \in DOMAIN disk : i > j => \A older \in Ids(disk[i]), newer \in Ids(disk[j]) : older < newer
  /\ \A id \in 1 .. logged :
       id \in OnDisk \cup lost \cup (IF item = << >> THEN {} ELSE {item[1]})
       \/ \A other \in OnDisk : id < other

\* No file outgrows max_size, unless by a single message, and no message is written
\* to a file that could not be opened.
SizeLimited ==
  /\ \A i \in DOMAIN disk : Bytes(disk[i]) <= MaxSize \/ Len(disk[i]) = 1
  /\ sink = "writing" => fd /\ current >= Bytes(Append(disk[0], item))
=============================================================================
